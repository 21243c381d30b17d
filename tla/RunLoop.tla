------------------------------ MODULE RunLoop ------------------------------
(***************************************************************************)
(* The bridge around the queue: the run loop (agent_bridge/orchestrator.py)*)
(* with its watchers, the Dispatcher (codex/dispatcher.py) in its consuming*)
(* and its non-consuming form, the manual dispatch of the CLI              *)
(* (gui/local_agent_bridge.py), the SafetyGate, and the owner who pauses   *)
(* and resumes the bridge.  All of them are processes of their own that    *)
(* share the command queue, the safety_pause of state/state.json, the      *)
(* canonical digest file (one of the two: each has a watcher of its own)   *)
(* and the staged prompt.                                                  *)
(*                                                                         *)
(* A queue operation is one step: it runs under queue.lock, and            *)
(* CommandQueue shows that it implements CommandLifecycle.  The state file *)
(* has no lock: every update loads it, changes a field and saves it all,   *)
(* through a temporary file that all processes share.                      *)
(***************************************************************************)
EXTENDS Naturals, FiniteSets

CONSTANTS Command,        \* the commands; each has a payload of its own
          Digest,         \* the commands whose prompt_path is the canonical digest file
          Hot,            \* the commands whose own payload contains a hard-stop keyword
          NeedsApproval,  \* the commands with requires_user_approval: their own payload needs it
          Missing,        \* the commands whose payload cannot be read
          rank,           \* position in the order of the pending commands
          NoCommand,      \* no command; the payload of a digest without findings
          Loop,           \* run-loop processes
          Dispatcher,     \* dispatch-next --dry-run: consumes, prints the prompt
          Manual,         \* dispatch-next --copy-to-clipboard
          Watcher,        \* watch-ci, ingest-ci, watch-reviews, ingest-review
          Owner,          \* pause, resume, reset-state
          Casts,          \* the sets of processes that may be there together
          Nothing,        \* no state has been loaded, there is no temporary file
          Empty,          \* the content of a file that has been truncated
          Garbled,        \* one text over a longer one
          MaxCycles       \* max_cycles of the run loops

Proc == Loop \cup Dispatcher \cup Manual \cup Watcher \cup Owner

ASSUME CommandAssumption ==
    /\ NoCommand \notin Command
    /\ Digest \subseteq Command /\ Hot \subseteq Command /\ NeedsApproval \subseteq Command
    /\ Missing \subseteq Command \ Digest
ASSUME RankAssumption ==
    /\ rank \in [Command -> Nat]
    /\ \A c, d \in Command : rank[c] = rank[d] => c = d
ASSUME ProgramsAreDisjoint ==
    /\ Loop \cap (Dispatcher \cup Manual \cup Watcher \cup Owner) = {}
    /\ Dispatcher \cap (Manual \cup Watcher \cup Owner) = {}
    /\ Manual \cap (Watcher \cup Owner) = {}
    /\ Watcher \cap Owner = {}
ASSUME CastsAssumption == Casts \subseteq SUBSET Proc
ASSUME BoundsAssumption == MaxCycles \in Nat
ASSUME ContentsAssumption ==
    /\ BOOLEAN \cap {Nothing, Empty, Garbled} = {}
    /\ Empty # Garbled /\ Nothing \notin {Empty, Garbled}

VARIABLES status,       \* the queue: the status of each command
          paused,       \* safety_pause in state.json, if it can be read
          tmp,          \* the same of state.tmp
          digest,       \* whose content the canonical digest file has
          outbox,       \* the command whose payload local_agent_prompt.md shows, or NoCommand
          pc,           \* where each process is in its program
          view,         \* the safety_pause a process has loaded and not yet saved
          handle,       \* the file a process has open for its save
          hand,         \* the command a process works on
          payload,      \* the payload it has read
          cycles,       \* cycles_completed of each run loop
          staged,       \* history: <<process, command, payload>> of every staged prompt
          blockedBy,    \* history: run loops whose own dispatch paused the bridge
          asked,        \* history: a pause was saved and no resume since
          raced,        \* history: a save was begun in the middle of another one
          failed        \* history: processes in which a step raised

stateFile == <<paused, tmp, view, handle>>
locals == <<pc, hand, payload, cycles>>
history == <<staged, blockedBy, asked, raced, failed>>
vars == <<status, stateFile, digest, outbox, locals, history>>

FirstStep(p) == CASE p \in Loop -> "start"
                  [] p \in Dispatcher -> "pop"
                  [] p \in Manual -> "select"
                  [] p \in Watcher -> "watch"
                  [] OTHER -> "decide"

Init == /\ status = [c \in Command |-> IF c \in Digest THEN "absent" ELSE "pending"]
        /\ paused = FALSE
        /\ tmp = Nothing
        /\ digest = NoCommand
        /\ outbox = NoCommand
        /\ \E cast \in Casts : pc = [p \in Proc |-> IF p \in cast THEN FirstStep(p) ELSE "done"]
        /\ view = [p \in Proc |-> Nothing]
        /\ handle = [p \in Proc |-> "none"]
        /\ hand = [p \in Proc |-> NoCommand]
        /\ payload = [p \in Proc |-> NoCommand]
        /\ cycles = [p \in Proc |-> 0]
        /\ staged = {}
        /\ blockedBy = {}
        /\ asked = FALSE
        /\ raced = FALSE
        /\ failed = {}

Goto(p, label) == pc' = [pc EXCEPT ![p] = label]

Pending == {c \in Command : status[c] = "pending"}
Slot == {c \in Command : status[c] = "in_progress"}

(* sorted(list_pending(), key=(-priority, created_at))[0]                  *)
Best(S) == CHOOSE c \in S : \A d \in S : rank[c] <= rank[d]

Become(c, s) == status' = [status EXCEPT ![c] = s]

(***************************************************************************)
(* The state file.  A label of Updates is an update: load, then save.      *)
(***************************************************************************)
Saved(p) == CASE pc[p] \in {"block", "pause"} -> TRUE
              [] pc[p] \in {"resume", "reset"} -> FALSE
              [] OTHER -> view[p]

Updates == {"start", "cycle", "dispatch", "block", "finish", "error", "pause", "resume", "reset"}

After(p) == CASE pc[p] = "start" -> "check"
              [] pc[p] = "cycle" -> "poll"
              [] pc[p] = "dispatch" -> "pop"
              [] pc[p] = "block" -> IF p \in Manual THEN "done" ELSE "block_queue"
              [] pc[p] = "error" -> "finish"
              [] OTHER -> "done"

LoadState(p) == /\ pc[p] \in Updates
                /\ view[p] = Nothing /\ paused \in BOOLEAN
                /\ view' = [view EXCEPT ![p] = paused]
                /\ UNCHANGED <<status, paused, tmp, digest, outbox, pc, handle, hand, payload,
                               cycles, history>>

(* Mutant: state.json itself is opened, and truncated.                     *)
OpenInPlace(p) ==
    /\ pc[p] \in Updates /\ view[p] # Nothing /\ handle[p] = "none"
    /\ paused' = Empty /\ tmp' = Empty
    /\ handle' = [handle EXCEPT ![p] = "state"]
    /\ raced' = (raced \/ \E q \in Proc : handle[q] # "none")
    /\ UNCHANGED <<status, digest, outbox, pc, view, hand, payload, cycles, staged,
                   blockedBy, asked, failed>>

(* write_text opens state.tmp, which truncates it if it is there: it may   *)
(* be the one that another process is about to write or to rename.         *)
OpenTemp(p) ==
    /\ pc[p] \in Updates /\ view[p] # Nothing /\ handle[p] = "none"
    /\ tmp' = Empty
    /\ handle' = [handle EXCEPT ![p] = "tmp"]
    /\ raced' = (raced \/ \E q \in Proc : handle[q] # "none")
    /\ UNCHANGED <<status, paused, digest, outbox, pc, view, hand, payload, cycles, staged,
                   blockedBy, asked, failed>>

(* A text written from the start of a file leaves the end of a longer one  *)
(* that was there.                                                         *)
Overwritten(content, text) == IF content = Empty THEN {text} ELSE {text, Garbled}

(* It is written to the file that was opened, whatever that is called now. *)
WriteTemp(p) ==
    /\ handle[p] \in {"tmp", "state", "gone"}
    /\ IF handle[p] = "tmp" THEN tmp' \in Overwritten(tmp, Saved(p)) ELSE UNCHANGED tmp
    /\ IF handle[p] = "state" THEN paused' \in Overwritten(paused, Saved(p)) ELSE UNCHANGED paused
    /\ handle' = [handle EXCEPT ![p] = "written"]
    /\ asked' = (asked /\ pc[p] \notin {"resume", "reset"})
    /\ blockedBy' = IF pc[p] \in {"resume", "reset"} THEN {} ELSE blockedBy
    /\ UNCHANGED <<status, digest, outbox, pc, view, hand, payload, cycles, staged, raced, failed>>

(* state.tmp, whosever it is, becomes state.json, under the handles of the *)
(* processes that have it open.                                            *)
Publish(p) ==
    /\ handle[p] = "written" /\ tmp # Nothing
    /\ paused' = tmp
    /\ tmp' = Nothing
    /\ handle' = [q \in Proc |-> CASE q = p -> "none"
                                   [] handle[q] = "tmp" -> "state"
                                   [] handle[q] = "state" -> "gone"
                                   [] OTHER -> handle[q]]
    /\ view' = [view EXCEPT ![p] = Nothing]
    /\ Goto(p, After(p))
    /\ IF pc[p] \in {"resume", "reset"}
       THEN asked' = FALSE /\ blockedBy' = {}
       ELSE /\ asked' = (asked \/ (tmp = TRUE /\ pc[p] \in {"block", "pause"}))
            /\ blockedBy' = IF tmp = TRUE /\ pc[p] = "block" THEN blockedBy \cup ({p} \cap Loop)
                            ELSE blockedBy
    /\ UNCHANGED <<status, digest, outbox, hand, payload, cycles, staged, raced, failed>>

(* state.json cannot be parsed, or another process has renamed state.tmp.  *)
(* Inside of its try block the run loop goes on to record LOOP_ERROR;      *)
(* _complete is outside of it when it is called after an error.            *)
Unusable(p) ==
    \/ pc[p] \in Updates /\ view[p] = Nothing /\ paused \notin BOOLEAN
    \/ pc[p] \in {"check", "recheck"} /\ paused \notin BOOLEAN
    \/ handle[p] = "written" /\ tmp = Nothing

Escapes(p) == \/ p \notin Loop \/ pc[p] \in {"start", "error"}
              \/ pc[p] = "finish" /\ p \in failed

GiveUp(p, label) ==
    /\ Goto(p, label)
    /\ view' = [view EXCEPT ![p] = Nothing]
    /\ handle' = [handle EXCEPT ![p] = "none"]
    /\ failed' = failed \cup {p}
    /\ UNCHANGED <<status, paused, tmp, digest, outbox, hand, payload, cycles, staged, blockedBy,
                   asked, raced>>

StateFails(p) == Unusable(p) /\ GiveUp(p, IF Escapes(p) THEN "done" ELSE "error")

(* A process is stopped in the middle of a save.                           *)
Killed(p) == handle[p] # "none" /\ GiveUp(p, "done")

(* reset-state saves a fresh state without loading the old one.            *)
Reset(p) == /\ pc[p] = "decide"
            /\ view' = [view EXCEPT ![p] = FALSE]
            /\ Goto(p, "reset")
            /\ UNCHANGED <<status, paused, tmp, digest, outbox, handle, hand, payload, cycles,
                           history>>

Decide(p) == /\ pc[p] = "decide"
             /\ \/ Goto(p, "pause")
                \/ Goto(p, "resume")
             /\ UNCHANGED <<status, stateFile, digest, outbox, hand, payload, cycles, history>>

(***************************************************************************)
(* RunLoop.run                                                             *)
(***************************************************************************)

(* The top of a cycle; the runtime may be over at any time.                *)
CheckLimits(p) ==
    /\ pc[p] = "check" /\ paused \in BOOLEAN
    /\ \/ Goto(p, "finish")
       \/ ~paused /\ cycles[p] < MaxCycles /\ Goto(p, "cycle")
    /\ UNCHANGED <<status, stateFile, digest, outbox, hand, payload, cycles, history>>

(* A watcher writes the canonical digest file, and then enqueues a command *)
(* for it unless there is nothing to fix or its dedupe key is known.  The  *)
(* watchers of a run loop may be off, or dry.                              *)
WriteDigest(p) ==
    /\ pc[p] \in {"poll", "watch"}
    /\ \/ \E c \in Digest \cup {NoCommand} :
            /\ digest' = c
            /\ hand' = [hand EXCEPT ![p] = c]
            /\ Goto(p, "ingest")
       \/ /\ pc[p] = "poll"
          /\ Goto(p, "list")
          /\ UNCHANGED <<digest, hand>>
    /\ UNCHANGED <<status, stateFile, outbox, payload, cycles, history>>

Ingest(p) == /\ pc[p] = "ingest"
             /\ IF hand[p] # NoCommand /\ status[hand[p]] = "absent"
                THEN Become(hand[p], "pending") ELSE UNCHANGED status
             /\ hand' = [hand EXCEPT ![p] = NoCommand]
             /\ Goto(p, IF p \in Loop THEN "list" ELSE "done")
             /\ UNCHANGED <<stateFile, digest, outbox, payload, cycles, history>>

(* With --no-dispatch the loop leaves the pending commands alone.          *)
ListPending(p) == /\ pc[p] = "list"
                  /\ \/ Goto(p, "count")
                     \/ Pending # {} /\ Goto(p, "dispatch")
                  /\ UNCHANGED <<status, stateFile, digest, outbox, hand, payload, cycles, history>>

(* Mutants: the state is not looked at again; a cycle is not counted.      *)
RecheckNothing(p) ==
    /\ pc[p] = "recheck"
    /\ Goto(p, "count")
    /\ UNCHANGED <<status, stateFile, digest, outbox, hand, payload, cycles, history>>
CountNothing(p) ==
    /\ pc[p] = "count"
    /\ Goto(p, "check")
    /\ UNCHANGED <<status, stateFile, digest, outbox, hand, payload, cycles, history>>

(* The state is looked at again after a dispatch.                          *)
Recheck(p) == /\ pc[p] = "recheck" /\ paused \in BOOLEAN
              /\ IF paused
                 THEN Goto(p, "finish") /\ cycles' = [cycles EXCEPT ![p] = @ + 1]
                 ELSE Goto(p, "count") /\ UNCHANGED cycles
              /\ UNCHANGED <<status, stateFile, digest, outbox, hand, payload, history>>

(* The end of a cycle; the loop sleeps, unless it has reached a limit.     *)
Count(p) == /\ pc[p] = "count"
            /\ cycles' = [cycles EXCEPT ![p] = @ + 1]
            /\ \/ Goto(p, "finish")
               \/ cycles[p] + 1 < MaxCycles /\ Goto(p, "check")
            /\ UNCHANGED <<status, stateFile, digest, outbox, hand, payload, history>>

(***************************************************************************)
(* Dispatcher.prepare_next_local_agent_prompt                              *)
(***************************************************************************)

(* Where the caller of the Dispatcher goes on.                             *)
Return(p) == IF p \in Loop THEN "recheck" ELSE "done"

(* Mutant: the command is peeked at, not popped.                           *)
PopPeeks(p) == /\ pc[p] = "pop"
               /\ Pending # {} /\ Slot = {}
               /\ hand' = [hand EXCEPT ![p] = Best(Pending)]
               /\ Goto(p, "resolve")
               /\ UNCHANGED <<status, stateFile, digest, outbox, payload, cycles, history>>

(* consume: pop_next().                                                    *)
Pop(p) == /\ pc[p] = "pop"
          /\ IF Pending # {} /\ Slot = {}
             THEN /\ Become(Best(Pending), "in_progress")
                  /\ hand' = [hand EXCEPT ![p] = Best(Pending)]
                  /\ Goto(p, "resolve")
             ELSE /\ Goto(p, Return(p))
                  /\ UNCHANGED <<status, hand>>
          /\ UNCHANGED <<stateFile, digest, outbox, payload, cycles, history>>

(* Not consume: the command stays pending.                                 *)
Select(p) == /\ pc[p] = "select"
             /\ IF Pending # {}
                THEN /\ hand' = [hand EXCEPT ![p] = Best(Pending)]
                     /\ Goto(p, "resolve")
                ELSE Goto(p, "done") /\ UNCHANGED hand
             /\ UNCHANGED <<status, stateFile, digest, outbox, payload, cycles, history>>

(* What the prompt_path of a command leads to when it is read.             *)
Payload(c) == IF c \in Digest THEN digest ELSE c

(* SafetyGate.check_text on the prompt, then the command's own flag.       *)
Allowed(c, content) == content \notin Hot /\ c \notin NeedsApproval

Resolve(p) ==
    /\ pc[p] = "resolve"
    /\ hand[p] \notin Missing
    /\ payload' = [payload EXCEPT ![p] = Payload(hand[p])]
    /\ Goto(p, IF Allowed(hand[p], Payload(hand[p])) THEN "stage" ELSE "refuse")
    /\ UNCHANGED <<status, stateFile, digest, outbox, hand, cycles, history>>

(* Mutant: the prompt that is staged is read again.                        *)
StageReread(p) ==
    /\ pc[p] = "stage"
    /\ outbox' = Payload(hand[p])
    /\ staged' = staged \cup {<<p, hand[p], Payload(hand[p])>>}
    /\ Goto(p, IF p \in Manual THEN "confirm" ELSE Return(p))
    /\ UNCHANGED <<status, stateFile, digest, hand, payload, cycles, blockedBy, asked, raced, failed>>

Stage(p) == /\ pc[p] = "stage"
            /\ outbox' = payload[p]
            /\ staged' = staged \cup {<<p, hand[p], payload[p]>>}
            /\ Goto(p, IF p \in Manual THEN "confirm" ELSE Return(p))
            /\ UNCHANGED <<status, stateFile, digest, hand, payload, cycles,
                           blockedBy, asked, raced, failed>>

(* The decision request is written and the staged prompt removed; then     *)
(* safety_pause is set (block).                                            *)
Refuse(p) == /\ pc[p] = "refuse"
             /\ outbox' = NoCommand
             /\ Goto(p, "block")
             /\ UNCHANGED <<status, stateFile, digest, hand, payload, cycles, history>>

(* Mutant: the refused command stays where it is.                          *)
KeepSlot == UNCHANGED status

(* block_in_progress() names no command: it takes the one in the slot.     *)
BlockSlot == status' = [c \in Command |-> IF c \in Slot THEN "blocked" ELSE status[c]]

BlockInProgress(p) == /\ pc[p] = "block_queue"
                      /\ BlockSlot
                      /\ Goto(p, Return(p))
                      /\ UNCHANGED <<stateFile, digest, outbox, hand, payload, cycles, history>>

(***************************************************************************)
(* dispatch_local_agent_prompt: the owner confirms or declines the copy    *)
(* (or the activation of the app); a confirmed one is consumed by id.      *)
(***************************************************************************)
Confirm(p) == /\ pc[p] = "confirm"
              /\ Goto(p, "consume") \/ Goto(p, "done")
              /\ UNCHANGED <<status, stateFile, digest, outbox, hand, payload, cycles, history>>

(* Mutant: pop_by_id does not ask whether the slot is free.                *)
PopByIdUnchecked(p) ==
    /\ pc[p] = "consume"
    /\ IF status[hand[p]] = "pending" THEN Become(hand[p], "in_progress") ELSE UNCHANGED status
    /\ Goto(p, "done")
    /\ UNCHANGED <<stateFile, digest, outbox, hand, payload, cycles, history>>

PopById(p) == /\ pc[p] = "consume"
              /\ IF Slot = {} /\ status[hand[p]] = "pending"
                 THEN Become(hand[p], "in_progress") ELSE UNCHANGED status
              /\ Goto(p, "done")
              /\ UNCHANGED <<stateFile, digest, outbox, hand, payload, cycles, history>>

(***************************************************************************)
(* A payload cannot be read, a queue operation times out on the lock, a    *)
(* watcher cannot reach GitHub: the run loop records LOOP_ERROR, any other *)
(* process ends.                                                           *)
(***************************************************************************)
Raise(p) == /\ pc[p] \in {"poll", "watch", "ingest", "list", "pop", "select", "block_queue",
                          "consume", "resolve"}
            /\ pc[p] = "resolve" => hand[p] \in Missing
            /\ Goto(p, IF p \in Loop THEN "error" ELSE "done")
            /\ failed' = failed \cup {p}
            /\ UNCHANGED <<status, stateFile, digest, outbox, hand, payload, cycles,
                           staged, blockedBy, asked, raced>>

(* A watcher waits for gh without a timeout: it may never come back.       *)
Hang(p) == /\ pc[p] \in {"poll", "watch"}
           /\ Goto(p, "hung")
           /\ UNCHANGED <<status, stateFile, digest, outbox, hand, payload, cycles, history>>

(* The local agent's work ends, or the owner closes a command by hand.     *)
Complete(c) == /\ status[c] \in {"pending", "in_progress"}
               /\ Become(c, "completed")
               /\ UNCHANGED <<stateFile, digest, outbox, locals, history>>

Step(p) == \/ LoadState(p) \/ OpenTemp(p) \/ WriteTemp(p) \/ Publish(p) \/ StateFails(p)
           \/ Killed(p) \/ Reset(p) \/ Decide(p)
           \/ CheckLimits(p) \/ WriteDigest(p) \/ Ingest(p) \/ ListPending(p)
           \/ Recheck(p) \/ Count(p)
           \/ Pop(p) \/ Select(p) \/ Resolve(p) \/ Stage(p) \/ Refuse(p) \/ BlockInProgress(p)
           \/ Confirm(p) \/ PopById(p)
           \/ Raise(p)

(* Every process may have come to its end, or wait for gh.                 *)
Done == /\ \A p \in Proc : pc[p] \in {"done", "hung"}
        /\ UNCHANGED vars

Next == \/ \E p \in Proc : Step(p) \/ Hang(p)
        \/ \E c \in Command : Complete(c)
        \/ Done

Spec == Init /\ [][Next]_vars

(* A run loop goes on while it can: its sleeps and its waits for the queue *)
(* lock are bounded, and the one wait that is not, for gh, is Hang, which  *)
(* leaves it without a step.                                               *)
FairSpec == Spec /\ \A p \in Loop : WF_vars(Step(p))

(***************************************************************************)
(* Properties.                                                             *)
(***************************************************************************)

(* Every variable has its type; in_progress.json holds one command.        *)
TypeOK == /\ Cardinality(Slot) <= 1
          /\ status \in [Command -> {"absent", "pending", "in_progress", "completed", "blocked"}]
          /\ paused \in BOOLEAN \cup {Empty, Garbled}
          /\ tmp \in BOOLEAN \cup {Empty, Garbled, Nothing}
          /\ digest \in Digest \cup {NoCommand}
          /\ outbox \in Command \cup {NoCommand}
          /\ pc \in [Proc -> Updates \cup
                       {"check", "poll", "watch", "ingest", "list", "recheck", "count", "pop",
                        "select", "resolve", "stage", "refuse", "block_queue", "confirm",
                        "consume", "decide", "hung", "done"}]
          /\ view \in [Proc -> BOOLEAN \cup {Nothing}]
          /\ handle \in [Proc -> {"none", "tmp", "state", "gone", "written"}]
          /\ hand \in [Proc -> Command \cup {NoCommand}]
          /\ payload \in [Proc -> Command \cup {NoCommand}]
          /\ cycles \in [Proc -> Nat]
          /\ staged \subseteq Proc \X Command \X (Command \cup {NoCommand})
          /\ blockedBy \subseteq Loop
          /\ asked \in BOOLEAN /\ raced \in BOOLEAN
          /\ failed \subseteq Proc

(* Nothing that the gate would refuse, and no command that needs approval, *)
(* is ever staged, although watchers rewrite the digest file, also with a  *)
(* text that is hot, while dispatchers are at work: what is judged is what *)
(* is staged.  The approval is judged by the command, not by the text: a   *)
(* text that needs one is staged only for an older digest's command, whose *)
(* file the newer digest has replaced.                                     *)
NothingHotStaged ==
    /\ outbox \notin Hot
    /\ \A s \in staged :
           /\ s[3] \notin Hot /\ s[2] \notin NeedsApproval
           /\ s[3] \in NeedsApproval => {s[2], s[3]} \subseteq Digest

(* docs/06:32 "If Dispatcher blocks a queued command because the payload   *)
(* contains a hard-stop keyword or requires owner approval": no payload    *)
(* that requires it is staged.                                             *)
ApprovalCoversPayload == \A s \in staged : s[3] \notin NeedsApproval

(* A consuming dispatcher that got a command has it to itself: two never   *)
(* stage the same command, whichever processes pop concurrently.           *)
StagedByOneConsumer ==
    \A s, t \in staged : s[2] = t[2] /\ {s[1], t[1]} \cap Manual = {} => s[1] = t[1]

(* A dispatcher that blocks the command in the slot blocks the one it has  *)
(* judged, unless somebody else has closed that one meanwhile.             *)
BlocksItsOwn ==
    [][\A p \in Proc, c \in Command :
           pc[p] = "block_queue" /\ status[c] # "blocked" /\ status'[c] = "blocked" =>
               c = hand[p] \/ status[hand[p]] \in {"completed", "blocked"}]_vars

(* A consuming dispatch that has returned leaves its command in the slot   *)
(* only if the prompt was staged or a step raised.                         *)
NothingStranded ==
    \A p \in Dispatcher :
        pc[p] = "done" /\ hand[p] # NoCommand /\ status[hand[p]] = "in_progress" =>
            p \in failed \/ \E s \in staged : s[1] = p /\ s[2] = hand[p]

(* state.json can be read, and its loads do not raise, as long as no save  *)
(* was begun in the middle of another one, even if processes are stopped   *)
(* in the middle of theirs.                                                *)
UnreadableNeedsRace == paused \notin BOOLEAN => raced

(* docs/06:32 "Dispatcher ... sets safety_pause; the run loop then stops": *)
(* a loop whose own dispatch was blocked runs to its end, unless the owner *)
(* resumes; with a single run loop.                                        *)
StopsAfterOwnBlock ==
    \A p \in blockedBy : pc[p] \in {"block_queue", "recheck", "error", "finish", "done"}

(* A run loop ends, unless gh keeps one of its watchers waiting for ever:  *)
(* the limits of docs/06:34 are looked at between polls only.              *)
LoopEnds == \A p \in Loop : <>(pc[p] \in {"done", "hung"})

(* docs/06_SAFETY_AND_APPROVAL_GATES.md:30 "If safety_pause is true, it    *)
(* stops before polling": no cycle starts once a pause has been saved and  *)
(* nobody has resumed.                                                     *)
PauseStops ==
    [][\A p \in Loop : pc[p] = "check" /\ pc'[p] = "cycle" => ~asked]_vars
=============================================================================
