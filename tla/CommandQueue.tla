---------------------------- MODULE CommandQueue ----------------------------
(***************************************************************************)
(* The durable command queue of agent_bridge/core/command_queue.py.        *)
(*                                                                         *)
(* A command is a line of one of four JSONL files (pending, completed,     *)
(* failed, blocked) or the content of in_progress.json.  Every operation   *)
(* runs under the advisory lock queue.lock; while it holds the lock it     *)
(* reads files and rewrites them one after the other, and each rewrite is  *)
(* a plain write_text: a process that dies, or whose write raises, leaves  *)
(* the files as far as it had come and its lock is released.               *)
(*                                                                         *)
(* A file is the set of the commands its valid lines hold; "torn" holds    *)
(* the unparseable lines.  Reading a file copies its torn lines into the   *)
(* quarantine and skips them; rewriting it drops them.                     *)
(***************************************************************************)
EXTENDS Naturals, FiniteSets

CONSTANTS Command,      \* the command records (their ids are uuid4, hence distinct)
          Key,          \* dedupe keys
          Proc,         \* processes, each with a CommandQueue object
          keyOf,        \* the dedupe_key of a command
          rank,         \* position in the order (-priority, created_at, id)
          NoCommand,    \* Python's None for a command or a command id
          NoProc,       \* nobody holds the lock
          MaxFaults     \* bound on the crashes and failed writes of a behaviour

ASSUME CommandAssumption == NoCommand \notin Command /\ NoProc \notin Proc
ASSUME KeyAssumption == keyOf \in [Command -> Key]
ASSUME RankAssumption ==
    /\ rank \in [Command -> Nat]
    /\ \A c, d \in Command : rank[c] = rank[d] => c = d
ASSUME FaultsAssumption == MaxFaults \in Nat

Terminal == {"completed", "failed", "blocked"}
Status == {"pending", "in_progress"} \cup Terminal

VARIABLES store,        \* the valid records of each file
          torn,         \* unparseable lines: <<file, command they are a fragment of>>
          quarantine,   \* the commands with a record in malformed_commands.jsonl
          lock,         \* the holder of queue.lock
          pc,           \* where each process is in its operation
          hand,         \* the command a process holds in memory
          from,         \* the file _take_active_command takes it from
          to,           \* the file a mark_completed, _failed or _blocked appends to
          todo,         \* quarantined records a repair has still to enqueue
          accepted,     \* history: commands an enqueue or a repair reported as added
          deliveries,   \* history: how often pop handed out a command of each key
          faults        \* history: crashes and failed writes so far

files == <<store, torn, quarantine>>
locals == <<pc, hand, from, to, todo>>
history == <<accepted, deliveries, faults>>
vars == <<files, lock, locals, history>>

(***************************************************************************)
(* Reading.                                                                *)
(***************************************************************************)

(* The order in which the lookups by id and by dedupe key visit the files. *)
position == [s \in Status |->
    CASE s = "pending" -> 1 [] s = "in_progress" -> 2 [] s = "completed" -> 3
      [] s = "failed" -> 4 [] s = "blocked" -> 5]

Sharing(k) == {c \in Command : keyOf[c] = k}

(* Mutant: only the files of open commands are searched.                   *)
OpenKeyTaken(k) == \E s \in {"pending", "in_progress"} : store[s] \cap Sharing(k) # {}

KeyTaken(k) == \E s \in Status : store[s] \cap Sharing(k) # {}

(* The files a lookup of the commands S opens: up to the first hit.        *)
Scanned(S) == {s \in Status : \A t \in Status :
                    position[t] < position[s] => store[t] \cap S = {}}

(* Mutant: malformed lines are skipped silently.                           *)
ReadSilently(F) == UNCHANGED quarantine

(* Reading the files F quarantines their torn lines.                       *)
Read(F) == quarantine' = quarantine \cup {t[2] : t \in {u \in torn : u[1] \in F}}

(* sorted(pending, key=(-priority, created_at, id))[0]                     *)
Best(S) == CHOOSE c \in S : \A d \in S : rank[c] <= rank[d]

(***************************************************************************)
(* Writing.  Target and Content are the file a process is about to rewrite *)
(* and what it will hold; nobody else moves while the lock is held, so the *)
(* content computed from the earlier read is the one computed here.        *)
(***************************************************************************)

Writing == {"enqueue", "repair", "pop_pending", "pop_slot", "take", "append"}

Target(p) == CASE pc[p] \in {"enqueue", "repair", "pop_pending"} -> "pending"
               [] pc[p] = "pop_slot" -> "in_progress"
               [] pc[p] = "take" -> from[p]
               [] OTHER -> to[p]

Content(p) == CASE pc[p] \in {"enqueue", "repair"} -> store["pending"] \cup {hand[p]}
                [] pc[p] = "pop_pending" -> store["pending"] \ {hand[p]}
                [] pc[p] = "pop_slot" -> {hand[p]}
                [] pc[p] = "take" -> store[from[p]] \ {hand[p]}
                [] OTHER -> store[to[p]] \cup {hand[p]}

(* Mutant: the target file of a finish is overwritten, not extended.       *)
WriteOver(p) ==
    /\ store' = [store EXCEPT ![Target(p)] = IF pc[p] = "append" THEN {hand[p]} ELSE Content(p)]
    /\ torn' = {t \in torn : t[1] # Target(p)}

Write(p) == /\ store' = [store EXCEPT ![Target(p)] = Content(p)]
            /\ torn' = {t \in torn : t[1] # Target(p)}

(* write_text truncates first: what a crash leaves of the new content is   *)
(* some of its lines, never the last one, which an append adds, and at     *)
(* most one fragment of a further line.                                    *)
TearWrite(p) ==
    \E kept \in SUBSET (Content(p) \ {hand[p]}) :
        /\ kept # Content(p)
        /\ store' = [store EXCEPT ![Target(p)] = kept]
        /\ \E cut \in {{}} \cup {{c} : c \in Content(p) \ kept} :
               torn' = {t \in torn : t[1] # Target(p)} \cup {<<Target(p), c>> : c \in cut}

(***************************************************************************)
(* Initial state: an empty queue directory.                                *)
(***************************************************************************)
Init == /\ store = [s \in Status |-> {}]
        /\ torn = {}
        /\ quarantine = {}
        /\ lock = NoProc
        /\ pc = [p \in Proc |-> "idle"]
        /\ hand = [p \in Proc |-> NoCommand]
        /\ from = [p \in Proc |-> "pending"]
        /\ to = [p \in Proc |-> "completed"]
        /\ todo = [p \in Proc |-> {}]
        /\ accepted = {}
        /\ deliveries = [k \in Key |-> 0]
        /\ faults = 0

(***************************************************************************)
(* A process that calls an operation polls for the lock until a deadline;  *)
(* if it finds the lock taken it may find the deadline passed and raise    *)
(* QueueLockTimeoutError.  What it calls is of no consequence before it    *)
(* has the lock, so the choice is made then.                               *)
(***************************************************************************)
Call(p) == /\ pc[p] = "idle"
           /\ pc' = [pc EXCEPT ![p] = "waiting"]
           /\ UNCHANGED <<files, lock, hand, from, to, todo, history>>

(* Mutant: the polling loop has no deadline.                               *)
PollForever(p) == pc[p] = "waiting" /\ lock # NoProc /\ UNCHANGED vars

LockTimeout(p) == /\ pc[p] = "waiting"
                  /\ lock # NoProc
                  /\ pc' = [pc EXCEPT ![p] = "idle"]
                  /\ UNCHANGED <<files, lock, hand, from, to, todo, history>>

(***************************************************************************)
(* The first step of an operation takes the lock and does its reads.       *)
(***************************************************************************)
(* Mutant: the lock is not exclusive.                                      *)
AcquireShared(p) == pc[p] = "waiting" /\ lock' = p

Acquire(p) == /\ pc[p] = "waiting"
              /\ lock = NoProc
              /\ lock' = p

Goto(p, label) == pc' = [pc EXCEPT ![p] = label]

Hold(p, c) == hand' = [hand EXCEPT ![p] = c]

(* Mutant: an operation that found nothing to add writes all the same.     *)
WriteNothing(p) == Goto(p, "enqueue") /\ UNCHANGED <<hand, from, to>>

(* The operation ends without a write.                                     *)
NothingToDo(p) == Goto(p, "unlock") /\ UNCHANGED <<hand, from, to>>

Enqueue(p, c) ==
    /\ Acquire(p)
    /\ Read(Scanned(Sharing(keyOf[c])))
    /\ \/ /\ KeyTaken(keyOf[c])
          /\ NothingToDo(p)
       \/ /\ ~KeyTaken(keyOf[c])
          /\ Goto(p, "enqueue")
          /\ Hold(p, c)
          /\ UNCHANGED <<from, to>>
    /\ UNCHANGED <<store, torn, todo, history>>

(* _mark_in_progress_unlocked up to its first write.  The slot is free if  *)
(* in_progress.json is missing or malformed.                               *)
MarkInProgress(p, c) ==
    \/ /\ \/ store["in_progress"] # {}
          \/ c \notin store["pending"]
       /\ NothingToDo(p)
    \/ /\ store["in_progress"] = {}
       /\ c \in store["pending"]
       /\ Goto(p, "pop_pending")
       /\ Hold(p, c)
       /\ UNCHANGED <<from, to>>

PopNext(p) ==
    /\ Acquire(p)
    /\ \/ /\ store["pending"] = {}
          /\ Read({"pending"})
          /\ NothingToDo(p)
       \/ /\ store["pending"] # {}
          /\ Read({"pending", "in_progress"})
          /\ MarkInProgress(p, Best(store["pending"]))
    /\ UNCHANGED <<store, torn, todo, history>>

PopById(p, c) ==
    /\ Acquire(p)
    /\ Read(IF store["in_progress"] = {} THEN {"in_progress", "pending"} ELSE {"in_progress"})
    /\ MarkInProgress(p, c)
    /\ UNCHANGED <<store, torn, todo, history>>

(* mark_completed, mark_failed, mark_blocked: the reads of                 *)
(* _take_active_command.  Without an id the command taken is whatever is   *)
(* in progress; with an id it may also be a pending one.                   *)
Finish(p, c, s) ==
    /\ Acquire(p)
    /\ \/ \E d \in store["in_progress"] :
            /\ c \in {NoCommand, d}
            /\ Read({"in_progress"})
            /\ Goto(p, "take")
            /\ Hold(p, d)
            /\ from' = [from EXCEPT ![p] = "in_progress"]
            /\ to' = [to EXCEPT ![p] = s]
       \/ /\ c = NoCommand
          /\ store["in_progress"] = {}
          /\ Read({"in_progress"})
          /\ NothingToDo(p)
       \/ /\ c # NoCommand
          /\ c \notin store["in_progress"]
          /\ Read({"in_progress", "pending"})
          /\ \/ /\ c \in store["pending"]
                /\ Goto(p, "take")
                /\ Hold(p, c)
                /\ from' = [from EXCEPT ![p] = "pending"]
                /\ to' = [to EXCEPT ![p] = s]
             \/ /\ c \notin store["pending"]
                /\ NothingToDo(p)
    /\ UNCHANGED <<store, torn, todo, history>>

(* list_pending, peek_next, list_commands(status), list_commands().        *)
List(p, F) == /\ Acquire(p)
              /\ Read(F)
              /\ NothingToDo(p)
              /\ UNCHANGED <<store, torn, todo, history>>

(* get_by_id.                                                              *)
Lookup(p, c) == /\ Acquire(p)
                /\ Read(Scanned({c}))
                /\ NothingToDo(p)
                /\ UNCHANGED <<store, torn, todo, history>>

(* A repair without --apply reads the quarantine only.  With --apply it    *)
(* tries, one by one, the records whose raw line validates by now (an      *)
(* operator may have mended it); a record stays in the quarantine either   *)
(* way.                                                                    *)
Repair(p) == /\ Acquire(p)
             /\ \E S \in SUBSET quarantine : todo' = [todo EXCEPT ![p] = S]
             /\ Goto(p, "repair_next")
             /\ UNCHANGED <<files, hand, from, to, history>>

(***************************************************************************)
(* The later steps, each up to the next write.                             *)
(***************************************************************************)
EnqueueWrite(p) == /\ pc[p] = "enqueue"
                   /\ Write(p)
                   /\ Goto(p, "unlock")
                   /\ Hold(p, NoCommand)
                   /\ accepted' = accepted \cup {hand[p]}
                   /\ UNCHANGED <<quarantine, lock, from, to, todo, deliveries, faults>>

RepairNext(p) ==
    /\ pc[p] = "repair_next"
    /\ \/ \E c \in todo[p] :
            /\ Read(Scanned(Sharing(keyOf[c])))
            /\ todo' = [todo EXCEPT ![p] = @ \ {c}]
            /\ \/ /\ KeyTaken(keyOf[c])
                  /\ UNCHANGED <<pc, hand>>
               \/ /\ ~KeyTaken(keyOf[c])
                  /\ Goto(p, "repair")
                  /\ Hold(p, c)
       \/ /\ todo[p] = {}
          /\ Goto(p, "unlock")
          /\ UNCHANGED <<quarantine, hand, todo>>
    /\ UNCHANGED <<store, torn, lock, from, to, history>>

RepairWrite(p) == /\ pc[p] = "repair"
                  /\ Write(p)
                  /\ Goto(p, "repair_next")
                  /\ Hold(p, NoCommand)
                  /\ accepted' = accepted \cup {hand[p]}
                  /\ UNCHANGED <<quarantine, lock, from, to, todo, deliveries, faults>>

(* The pending file is rewritten without the command first ...             *)
PopWritePending(p) == /\ pc[p] = "pop_pending"
                      /\ Write(p)
                      /\ Goto(p, "pop_slot")
                      /\ UNCHANGED <<quarantine, lock, hand, from, to, todo, history>>

(* ... and only then in_progress.json is written; the caller gets the      *)
(* command.                                                                *)
PopWriteSlot(p) ==
    /\ pc[p] = "pop_slot"
    /\ Write(p)
    /\ Goto(p, "unlock")
    /\ Hold(p, NoCommand)
    /\ deliveries' = [deliveries EXCEPT ![keyOf[hand[p]]] = @ + 1]
    /\ UNCHANGED <<quarantine, lock, from, to, todo, accepted, faults>>

(* in_progress.json is unlinked, or pending rewritten without the command; *)
(* then the target file is read.                                           *)
FinishTake(p) == /\ pc[p] = "take"
                 /\ Write(p)
                 /\ Read({to[p]})
                 /\ Goto(p, "append")
                 /\ UNCHANGED <<lock, hand, from, to, todo, history>>

FinishAppend(p) == /\ pc[p] = "append"
                   /\ Write(p)
                   /\ Goto(p, "unlock")
                   /\ Hold(p, NoCommand)
                   /\ UNCHANGED <<quarantine, lock, from, to, todo, history>>

(* Back to the caller: the lock is released and the locals are gone.       *)
Leave(p) == /\ lock' = NoProc
            /\ pc' = [pc EXCEPT ![p] = "idle"]
            /\ hand' = [hand EXCEPT ![p] = NoCommand]
            /\ from' = [from EXCEPT ![p] = "pending"]
            /\ to' = [to EXCEPT ![p] = "completed"]
            /\ todo' = [todo EXCEPT ![p] = {}]

Release(p) == /\ pc[p] = "unlock"
              /\ Leave(p)
              /\ UNCHANGED <<files, history>>

(***************************************************************************)
(* Faults.  An exception runs the finally block of _locked, a crash makes  *)
(* the operating system drop the flock: the lock is free in both cases.    *)
(***************************************************************************)
Fault == faults < MaxFaults /\ faults' = faults + 1

(* Between two steps of the operation.                                     *)
Abort(p) == /\ lock = p
            /\ Fault
            /\ Leave(p)
            /\ UNCHANGED <<files, accepted, deliveries>>

(* In the middle of a write.  Unlinking in_progress.json is atomic.        *)
Tear(p) == /\ pc[p] \in Writing
           /\ ~(pc[p] = "take" /\ from[p] = "in_progress")
           /\ TearWrite(p)
           /\ Fault
           /\ Leave(p)
           /\ UNCHANGED <<quarantine, accepted, deliveries>>

(***************************************************************************)
(* Specification.                                                          *)
(***************************************************************************)
Begin(p) == \/ \E c \in Command : Enqueue(p, c) \/ PopById(p, c) \/ Lookup(p, c)
            \/ PopNext(p)
            \/ \E c \in Command \cup {NoCommand}, s \in Terminal : Finish(p, c, s)
            \/ \E F \in {{s} : s \in Status} \cup {Status} : List(p, F)
            \/ Repair(p)

Continue(p) == \/ EnqueueWrite(p)
               \/ RepairNext(p) \/ RepairWrite(p)
               \/ PopWritePending(p) \/ PopWriteSlot(p)
               \/ FinishTake(p) \/ FinishAppend(p)
               \/ Release(p)

Step(p) == LockTimeout(p) \/ Begin(p) \/ Continue(p)

Faults(p) == Abort(p) \/ Tear(p)

Next == \E p \in Proc : Call(p) \/ Step(p) \/ Faults(p)

Spec == Init /\ [][Next]_vars

(* An operation that was called runs: its polling loop and its file        *)
(* operations never wait for anything but the lock.                        *)
FairSpec == Spec /\ \A p \in Proc : WF_vars(Step(p))

(***************************************************************************)
(* Properties.                                                             *)
(***************************************************************************)

(* Every variable has its type.                                            *)
TypeOK == /\ store \in [Status -> SUBSET Command]
          /\ torn \subseteq Status \X Command
          /\ quarantine \subseteq Command
          /\ lock \in Proc \cup {NoProc}
          /\ pc \in [Proc -> {"idle", "waiting", "repair_next", "unlock"} \cup Writing]
          /\ hand \in [Proc -> Command \cup {NoCommand}]
          /\ from \in [Proc -> {"pending", "in_progress"}]
          /\ to \in [Proc -> Terminal]
          /\ todo \in [Proc -> SUBSET Command]
          /\ accepted \subseteq Command
          /\ deliveries \in [Key -> Nat]
          /\ faults \in Nat

(* A command that is out of every file for a moment: between the two       *)
(* writes of a pop or of a finish, in the memory of the lock holder.       *)
InTransit(p) == pc[p] \in {"pop_slot", "append"}

Filed == {c \in Command : \E s \in Status : c \in store[s]}

Carried == {hand[p] : p \in {q \in Proc : InTransit(q)}}

(* Dedupe: the records of all files, and the one on its way between two    *)
(* files, have different dedupe keys, and no record is in two files.  It   *)
(* is about the check-then-append of enqueue and repair racing with the    *)
(* two-write moves of other processes, and about crashes between them.     *)
KeysUnique ==
    /\ \A s, t \in Status : \A c \in store[s], d \in store[t] :
           keyOf[c] = keyOf[d] => c = d /\ s = t
    /\ \A s \in Status : \A c \in store[s], d \in Carried : keyOf[c] # keyOf[d]

(* At most one command is in progress, counting the one that a pop has     *)
(* taken out of the pending file and not yet written to in_progress.json,  *)
(* and the one that a finish has unlinked and not yet filed: pop refuses   *)
(* while another process is anywhere in the middle of a move.              *)
Active == store["in_progress"]
            \cup {hand[p] : p \in {q \in Proc : pc[q] = "pop_slot"}}
            \cup {hand[p] : p \in {q \in Proc : pc[q] = "append" /\ from[q] = "in_progress"}}

SingleSlot == \A c, d \in Active : c = d

(* Without a crash or a failed write no accepted command is ever lost: it  *)
(* is in a file or in the memory of the process that is moving it.         *)
NoLossWithoutFault ==
    faults = 0 => accepted \subseteq Filed \cup Carried

(* A dedupe key is handed out by pop at most once, plus once per fault:    *)
(* the files of finished commands keep their keys from being enqueued      *)
(* again, unless a fault lost one.                                         *)
DeliveryBound == \A k \in Key : deliveries[k] <= 1 + faults

(* A malformed line is never dropped by a rewrite before it has been       *)
(* copied to the quarantine, whichever operation does the rewrite.         *)
QuarantinedBeforeDropped == [][\A t \in torn \ torn' : t[2] \in quarantine']_vars

(* A called operation returns: nobody keeps the lock, and the polling      *)
(* loop ends.                                                              *)
OperationReturns == \A p \in Proc : pc[p] = "waiting" ~> pc[p] = "idle"

(* README.md:48 "Queue files are durable": a command that was accepted is  *)
(* on disk, as a record, as a quarantined or a malformed line, whenever    *)
(* no operation is under way.                                              *)
DurableHandoff ==
    lock = NoProc => accepted \subseteq Filed \cup quarantine \cup {t[2] : t \in torn}

(***************************************************************************)
(* What the queue promises, crashes included, is CommandLifecycle: a       *)
(* command on its way between two files still has the status it leaves.    *)
(***************************************************************************)
StatusOf(c) ==
    CASE \E s \in Status : c \in store[s] -> CHOOSE s \in Status : c \in store[s]
      [] \E p \in Proc : pc[p] = "pop_slot" /\ hand[p] = c -> "pending"
      [] \E p \in Proc : pc[p] = "append" /\ hand[p] = c ->
             from[CHOOSE p \in Proc : pc[p] = "append" /\ hand[p] = c]
      [] OTHER -> "absent"

Lifecycle == INSTANCE CommandLifecycle WITH status <- [c \in Command |-> StatusOf(c)]

(* Every step of the queue is one step of the lifecycle or none.           *)
ImplementsLifecycle == Lifecycle!Spec
=============================================================================
