-------------------------- MODULE ForegroundRunner --------------------------
(***************************************************************************)
(* The foreground runner (gui/foreground_bridge_runner.py, run-bridge)     *)
(* beside the external runners of ExternalRunner, in one workspace: it     *)
(* watches the same report and shares state.json and the file              *)
(* last_processed_report_hash with them, but not the lock.                 *)
(*                                                                         *)
(* A hash stands for the content.  Its own lock may be taken by another    *)
(* foreground runner, or be what a crashed one left.                       *)
(***************************************************************************)
EXTENDS ExternalRunner

CONSTANTS Unmarked,    \* contents without the trigger marker, if it is required
          FgRoundtrips,\* max_roundtrips of the foreground runner
          MaxLaunches  \* bound on its launches

ASSUME UnmarkedAssumption == Unmarked \subseteq Text
ASSUME LaunchesAssumption == MaxLaunches \in Nat /\ FgRoundtrips \in Nat \ {0}

VARIABLES fg,          \* the foreground runner
          trail        \* history: what became of the changes it saw

fgvars == <<vars, fg, trail>>

FgPhase == {"off", "existing", "top", "debounce", "compare", "marker", "lock", "read", "work",
            "release", "stopped"}

(* seen is last_seen_hash, change the hash the roundtrip is started for.   *)
FgInit == /\ fg = [pc |-> "off", late |-> FALSE, seen |-> NoText,
                   change |-> NoText, started |-> 0, ok |-> FALSE, blocked |-> FALSE]
          /\ trail = [launches |-> 0, asked |-> 0, runs |-> 0, writes |-> 0, overshoot |-> 0,
                      used |-> {}, dropped |-> {}, swapped |-> {}]

FgAt(label) == fg.pc = label
FgGoto(label) == fg' = [fg EXCEPT !.pc = label]
FgUnchanged == UNCHANGED <<vars, trail>>

(* What is dropped is not looked at again before the report changes; what  *)
(* is swapped started a roundtrip that read something else.                *)
FgDrops(content) == trail' = [trail EXCEPT !.dropped = @ \cup {content}]

FgWatching == fg.pc \notin {"off", "stopped"}

(* The report as it is at startup is the baseline, and no change.          *)
FgLaunch == /\ FgAt("off") /\ trail.launches < MaxLaunches
            /\ \E existing \in BOOLEAN :
                  /\ fg' = [fg EXCEPT !.seen = report.text, !.change = report.text, !.late = FALSE,
                                      !.started = 0,
                                      !.pc = IF existing /\ report.text # NoText THEN "existing"
                                             ELSE "top"]
                  /\ trail' = [trail EXCEPT !.launches = @ + 1,
                                            !.asked = IF existing THEN @ + 1 ELSE @,
                                            !.dropped = @ \cup {report.text}]
            /\ UNCHANGED vars

(* process_existing_trigger: neither the pause nor the runtime matters yet.*)
FgExisting == /\ FgAt("existing")
              /\ FgGoto(IF fg.change = processed \/ report.text \in Unmarked THEN "top" ELSE "lock")
              /\ FgUnchanged

(* Mutant: the pause is not looked at.                                     *)
FgPollOnly == /\ FgAt("top")
              /\ FgGoto(CASE fg.late -> "stopped"
                          [] ~fg.late /\ report.text \in {NoText, fg.seen} -> "top"
                          [] OTHER -> "debounce")
              /\ FgUnchanged

(* The top of the loop, and the poll.                                      *)
FgPoll == /\ FgAt("top")
          /\ FgGoto(CASE fg.late \/ paused -> "stopped"
                      [] ~(fg.late \/ paused) /\ report.text \in {NoText, fg.seen} -> "top"
                      [] OTHER -> "debounce")
          /\ FgUnchanged

(* Mutant: the content is not recorded as seen.                            *)
FgDebounceUnseen == /\ FgAt("debounce")
                    /\ fg' = [fg EXCEPT !.change = report.text,
                                        !.pc = IF report.text = NoText THEN "top" ELSE "compare"]
                    /\ FgUnchanged

(* The content after the debounce is the one that counts.  It is recorded  *)
(* as seen before anything is done about it.                               *)
FgDebounce == /\ FgAt("debounce")
              /\ fg' = [fg EXCEPT !.seen = report.text, !.change = report.text,
                                  !.pc = IF report.text = NoText THEN "top" ELSE "compare"]
              /\ FgUnchanged

FgCompare == /\ FgAt("compare")
             /\ IF fg.change = processed
                THEN FgGoto("top") /\ FgDrops(fg.change)
                ELSE FgGoto("marker") /\ UNCHANGED trail
             /\ UNCHANGED vars

(* The marker is looked for in the report as it is by now.                 *)
FgMarker == /\ FgAt("marker")
            /\ IF report.text \in Unmarked
               THEN FgGoto("top") /\ FgDrops(fg.change)
               ELSE FgGoto("lock") /\ UNCHANGED trail
            /\ UNCHANGED vars

FgLimitReached(n) == n >= FgRoundtrips

(* Mutant: a change that is skipped is marked as processed.                *)
FgLockMarking ==
    /\ FgAt("lock")
    /\ \/ /\ fg' = [fg EXCEPT !.pc = "read", !.started = @ + 1]
          /\ trail' = [trail EXCEPT !.runs = @ + 1, !.overshoot = @ + (IF paused THEN 1 ELSE 0)]
          /\ UNCHANGED processed
       \/ /\ FgGoto(IF FgLimitReached(fg.started) THEN "stopped" ELSE "top")
          /\ FgDrops(fg.change)
          /\ processed' = fg.change
    /\ UNCHANGED <<useHash, report, queue, markers, paused, held, locals, history>>

FgLock == /\ FgAt("lock")
          /\ \/ /\ fg' = [fg EXCEPT !.pc = "read", !.started = @ + 1]
                /\ trail' = [trail EXCEPT !.runs = @ + 1,
                                          !.overshoot = @ + (IF paused THEN 1 ELSE 0)]
             \/ /\ FgGoto(IF FgLimitReached(fg.started) THEN "stopped" ELSE "top")
                /\ FgDrops(fg.change)
          /\ UNCHANGED vars

(* The PM target cannot be resolved, and the roundtrip is over before it   *)
(* has begun; or it takes the report as it is by now for its prompt.       *)
FgRead == /\ FgAt("read")
          /\ \/ /\ fg' = [fg EXCEPT !.pc = "release", !.ok = FALSE, !.blocked = FALSE]
                /\ UNCHANGED trail
             \/ /\ FgGoto("work")
                /\ trail' = [trail EXCEPT !.used = @ \cup {report.text},
                                          !.swapped = @ \cup ({fg.change} \ {report.text})]
          /\ UNCHANGED vars

(* It may enqueue a command, which the external runners see as a change of *)
(* the queue; it completes or fails, and a safety block pauses the bridge. *)
FgWork == /\ FgAt("work")
          /\ \/ UNCHANGED <<queue, clock, causes>>
             \/ Change /\ queue' = clock'
          /\ \E ok, blocked \in BOOLEAN :
                /\ paused' = (paused \/ blocked)
                /\ fg' = [fg EXCEPT !.pc = "release", !.ok = ok /\ ~blocked, !.blocked = blocked]
          /\ UNCHANGED <<useHash, report, markers, processed, held, locals, seen, overlapped,
                         overshoot, runs, crashes, trail>>

(* Mutant: the report as it is by now is the new baseline.                 *)
FgFinishRebased ==
    /\ FgAt("release")
    /\ processed' = IF fg.ok THEN fg.change ELSE processed
    /\ fg' = [fg EXCEPT !.ok = FALSE, !.blocked = FALSE, !.seen = report.text,
                        !.pc = IF fg.blocked \/ FgLimitReached(fg.started) THEN "stopped" ELSE "top"]
    /\ trail' = IF fg.ok THEN trail ELSE [trail EXCEPT !.dropped = @ \cup {fg.change}]
    /\ UNCHANGED <<useHash, report, queue, markers, paused, held, locals, history>>

(* Only a completed roundtrip marks the content, the one that started it.  *)
FgFinish == /\ FgAt("release")
            /\ processed' = IF fg.ok THEN fg.change ELSE processed
            /\ fg' = [fg EXCEPT !.ok = FALSE, !.blocked = FALSE,
                                !.pc = IF fg.blocked \/ FgLimitReached(fg.started) THEN "stopped"
                                       ELSE "top"]
            /\ trail' = IF fg.ok THEN trail
                        ELSE [trail EXCEPT !.dropped = @ \cup {fg.change}]
            /\ UNCHANGED <<useHash, report, queue, markers, paused, held, locals, history>>

FgExpire == /\ FgWatching /\ ~fg.late
            /\ fg' = [fg EXCEPT !.late = TRUE]
            /\ FgUnchanged

(* Ctrl-C, or the terminal is closed; it may be launched again.            *)
FgInterrupt == /\ FgWatching
               /\ fg' = [fg EXCEPT !.pc = "off", !.ok = FALSE, !.blocked = FALSE]
               /\ FgUnchanged

FgLoop == \/ FgExisting \/ FgPoll \/ FgDebounce \/ FgCompare \/ FgMarker \/ FgLock \/ FgRead
          \/ FgWork \/ FgFinish

(* The others' steps, as the foreground runner's history sees them.        *)
Beside(step) == step /\ UNCHANGED <<useHash, fg>>

ReportRewritten(x) ==
    /\ Beside(WriteReport(x))
    /\ trail' = [trail EXCEPT !.writes = @ + 1]

Resumed == /\ Beside(Resume)
           /\ trail' = [trail EXCEPT !.overshoot = 0]

OthersAround == \/ \E x \in Text : ReportRewritten(x)
                \/ Resumed
                \/ /\ Beside(AppendToQueue \/ Pause \/ \E m \in Marker : Request(m))
                   /\ UNCHANGED trail

ExternalAround(r) == /\ Beside(Launch(r) \/ Loop(r) \/ Expire(r) \/ Crash(r))
                     /\ UNCHANGED trail

FgNext == \/ FgLaunch \/ FgLoop \/ FgExpire \/ FgInterrupt
          \/ OthersAround
          \/ \E r \in Runner : ExternalAround(r)

(* The workspace of a bridge that has worked before and has nothing to do. *)
RunnersInit == Init /\ queue = 1 /\ markers = {} /\ FgInit

RunnersSpec == RunnersInit /\ [][FgNext]_fgvars

-----------------------------------------------------------------------------
FgState == [pc : FgPhase, late : BOOLEAN, seen : Text \cup {NoText},
            change : Text \cup {NoText}, started : 0..FgRoundtrips,
            ok : BOOLEAN, blocked : BOOLEAN]

Trail == [launches : 0..MaxLaunches, asked : Nat, runs : Nat, writes : Nat, overshoot : Nat,
          used : SUBSET (Text \cup {NoText}), dropped : SUBSET (Text \cup {NoText}),
          swapped : SUBSET (Text \cup {NoText})]

(* The foreground runner and its history have their types.                 *)
FgTypeOK == fg \in FgState /\ trail \in Trail

(* docs/07_CLI_SPEC.md:752: only a report content that is new since the    *)
(* launch, or the existing one on request, starts a roundtrip.             *)
FgRunsHaveCauses == trail.runs <= trail.writes + trail.asked

(* Between a pause and the next resume each launch starts one roundtrip at *)
(* most: the one it had made up its mind about, or that for the report     *)
(* that was there, which it serves before it looks at the pause at all.    *)
FgPauseObeyed == trail.overshoot <= trail.launches

(* A content is marked as processed only if a roundtrip has read it, or    *)
(* was started for it and read what had been written since.                *)
ProcessedWasRead ==
    [][fg' # fg /\ processed' # processed => processed' \in trail.used \cup trail.swapped]_fgvars

(* The content that a poll takes for nothing new is one that a roundtrip   *)
(* read or was started for, or that was dropped: as the baseline, already  *)
(* processed, unmarked, for want of the lock, or because its roundtrip     *)
(* failed.                                                                 *)
SeenWasHandled ==
    FgAt("top") => fg.seen \in UNION {trail.used, trail.dropped, trail.swapped, {NoText}}
=============================================================================
