--------------------------- MODULE ExternalRunner ---------------------------
(***************************************************************************)
(* The polling loop of agent_bridge/gui/external_runner_daemon.py          *)
(* (run-external-gui-runner, run-iterm-ghost-runner): it watches a report, *)
(* the pending queue file and two marker files, and starts one bounded GUI *)
(* roundtrip for what it found.  Meanwhile the local agent rewrites the    *)
(* report, others append to the queue, create markers, pause and resume    *)
(* the bridge, and further runners may poll the same workspace.            *)
(*                                                                         *)
(* The lock file is taken for the exclusive lock that RunnerLock shows it  *)
(* to be as long as no runner misjudges it; what a crashed runner leaves   *)
(* of it may count as stale or not.  The roundtrip itself is reduced to    *)
(* what it does to the state the loop looks at.                            *)
(***************************************************************************)
EXTENDS Naturals, FiniteSets

CONSTANTS Runner,         \* the runner processes
          NoRunner,       \* nobody holds the lock
          Text,           \* contents of the report
          NoText,         \* the report, or the hash file, does not exist
          UseHash,        \* use_report_hash_guard, as it may be configured
          MaxRoundtrips,  \* max_roundtrips
          MaxChanges,     \* bound on the changes of files made by others
          MaxCrashes      \* bound on the crashes of a behaviour

ASSUME NamesAssumption == NoRunner \notin Runner /\ NoText \notin Text
ASSUME HashAssumption == UseHash \subseteq BOOLEAN
ASSUME BoundsAssumption ==
    MaxRoundtrips \in Nat \ {0} /\ MaxChanges \in Nat /\ MaxCrashes \in Nat

(* The two marker files, and the two watched files' changes.               *)
Marker == {"report_roundtrip", "queue_dispatch"}
Finding == Marker \cup {"report_changed", "queue_changed"}

VARIABLES useHash,      \* content hashes, or else mtimes: never changes
          report,       \* [text, mtime] of latest_agent_report.md
          queue,        \* mtime of pending_commands.jsonl, 0 if missing
          markers,      \* the marker files that exist
          processed,    \* the content whose hash last_processed_report_hash holds
          paused,       \* state.safety_pause
          held,         \* the creator of the lock file
          pc,           \* where each runner is
          late,         \* has the runner's max_runtime_seconds passed
          base,         \* the baselines of each runner: [report, queue]
          found,        \* the triggers of the current batch
          started,      \* roundtrips_started of each runner
          seen,         \* history: the report at launch, or at the last roundtrip of a runner
          overlapped,   \* history: was it rewritten while that roundtrip was under way
          overshoot,    \* history: roundtrips a runner started since the pause
          clock,        \* history: changes of files so far, the time stamp of each
          causes,       \* history: changes made by others than a roundtrip
          runs,         \* history: roundtrips started by all runners
          crashes       \* history: crashes so far

disk == <<report, queue, markers, processed, paused, held>>
locals == <<pc, late, base, found, started>>
history == <<seen, overlapped, overshoot, clock, causes, runs, crashes>>
vars == <<useHash, disk, locals, history>>

(* An old workspace, with or without a report and a queue file.            *)
Init == /\ useHash \in UseHash
        /\ \/ report = [text |-> NoText, mtime |-> 0]
           \/ \E x \in Text : report = [text |-> x, mtime |-> 1]
        /\ queue \in {0, 1}
        /\ markers \in SUBSET Marker
        /\ processed = NoText
        /\ paused = FALSE
        /\ held = NoRunner
        /\ pc = [r \in Runner |-> "off"]
        /\ late = [r \in Runner |-> FALSE]
        /\ base = [r \in Runner |-> [report |-> report, queue |-> queue]]
        /\ found = [r \in Runner |-> {}]
        /\ started = [r \in Runner |-> 0]
        /\ seen = [r \in Runner |-> report.text]
        /\ overlapped = [r \in Runner |-> FALSE]
        /\ overshoot = [r \in Runner |-> 0]
        /\ clock = 1
        /\ causes = Cardinality(markers)
        /\ runs = 0
        /\ crashes = 0

Goto(r, label) == pc' = [pc EXCEPT ![r] = label]

(* The phases in which a runner holds, or believes it holds, the lock.     *)
InRoundtrip(r) == pc[r] \in {"read", "work", "release"}

(* The phases after the roundtrip has looked at the report and before the  *)
(* loop has taken its new baseline.                                        *)
Blind(r) == pc[r] \in {"work", "release", "consume", "mark", "rebase"}

(***************************************************************************)
(* The loop.                                                               *)
(***************************************************************************)
(* Mutant: the first baseline is kept.                                     *)
BaselineOfStartup(r) == UNCHANGED base

Baseline(r) == base' = [base EXCEPT ![r] = [report |-> report, queue |-> queue]]

EndBatch(r) == found' = [found EXCEPT ![r] = {}]

(* The files as they are at startup do not trigger anything.               *)
Launch(r) == /\ pc[r] = "off"
             /\ Goto(r, "poll")
             /\ Baseline(r)
             /\ seen' = [seen EXCEPT ![r] = report.text]
             /\ overlapped' = [overlapped EXCEPT ![r] = FALSE]
             /\ UNCHANGED <<disk, late, found, started, overshoot, clock, causes, runs, crashes>>

(* Mutants: only the runtime, or only the pause, is looked at.             *)
CheckRuntime(r) == /\ pc[r] = "poll"
                   /\ Goto(r, IF late[r] THEN "stopped" ELSE "detect")
                   /\ UNCHANGED <<disk, late, base, found, started, history>>
CheckPause(r) == /\ pc[r] = "poll"
                 /\ Goto(r, IF paused THEN "stopped" ELSE "detect")
                 /\ UNCHANGED <<disk, late, base, found, started, history>>

(* The top of the loop: the runtime is over, or the bridge is paused.      *)
CheckLimits(r) == /\ pc[r] = "poll"
                  /\ Goto(r, IF late[r] \/ paused THEN "stopped" ELSE "detect")
                  /\ UNCHANGED <<disk, late, base, found, started, history>>

(* Mutant: a report without a baseline is not a change, hashes or not.     *)
ReportReplaced(r) ==
    /\ report.text \notin {NoText, processed, base[r].report.text}
    /\ base[r].report.text # NoText

(* _detect_triggers: a changed hash counts unless it is the baseline's or  *)
(* the last processed one; an mtime counts if there was one at baseline.   *)
ReportChanged(r) ==
    /\ report.text # NoText
    /\ IF useHash
       THEN report.text \notin {base[r].report.text, processed}
       ELSE base[r].report.text # NoText /\ report.mtime > base[r].report.mtime

QueueChanged(r) == base[r].queue # 0 /\ queue > base[r].queue

Triggers(r) == markers
                 \cup {f \in {"report_changed"} : ReportChanged(r)}
                 \cup {f \in {"queue_changed"} : QueueChanged(r)}

Detect(r) == /\ pc[r] = "detect"
             /\ found' = [found EXCEPT ![r] = Triggers(r)]
             /\ Goto(r, IF Triggers(r) = {} THEN "poll" ELSE "debounce")
             /\ UNCHANGED <<disk, late, base, started, history>>

(* After the debounce the runner tries the lock; if it is unavailable the  *)
(* batch is dropped, its triggers are not consumed, and polling goes on.   *)
Acquire(r) ==
    /\ pc[r] = "debounce"
    /\ \/ /\ held \notin {q \in Runner : InRoundtrip(q)}
          /\ held' = r
          /\ Goto(r, "read")
          /\ runs' = runs + 1
          /\ overshoot' = [overshoot EXCEPT ![r] = @ + (IF paused THEN 1 ELSE 0)]
          /\ UNCHANGED found
       \/ /\ held # NoRunner
          /\ Goto(r, "poll")
          /\ EndBatch(r)
          /\ UNCHANGED <<held, runs, overshoot>>
    /\ UNCHANGED <<report, queue, markers, processed, paused, late, base, started, seen,
                   overlapped, clock, causes, crashes>>

(* The roundtrip takes the report for its prompt, or gives up before that. *)
ReadReport(r) == /\ pc[r] = "read"
                 /\ seen' = [seen EXCEPT ![r] = report.text]
                 /\ overlapped' = [overlapped EXCEPT ![r] = FALSE]
                 /\ Goto(r, "work")
                 /\ UNCHANGED <<disk, late, base, found, started,
                                overshoot, clock, causes, runs, crashes>>

(* It may enqueue a command, and it may pause the bridge.                  *)
Work(r) == /\ pc[r] = "work"
           /\ \/ UNCHANGED <<queue, clock>>
              \/ /\ clock < MaxChanges
                 /\ clock' = clock + 1
                 /\ queue' = clock'
           /\ paused' \in {paused, TRUE}
           /\ Goto(r, "release")
           /\ UNCHANGED <<report, markers, processed, held, late, base, found, started,
                          seen, overlapped, overshoot, causes, runs, crashes>>

Release(r) == /\ pc[r] = "release"
              /\ held' = IF held = r THEN NoRunner ELSE held
              /\ Goto(r, "consume")
              /\ UNCHANGED <<report, queue, markers, processed, paused,
                             late, base, found, started, history>>

(* The markers of the batch are renamed, whether the roundtrip completed   *)
(* or failed.                                                              *)
Consume(r) == /\ pc[r] = "consume"
              /\ markers' = markers \ found[r]
              /\ Goto(r, "mark")
              /\ UNCHANGED <<report, queue, processed, paused, held,
                             late, base, found, started, history>>

(* _mark_report_hash_processed: the content of the report as it is now.    *)
Mark(r) ==
    /\ pc[r] = "mark"
    /\ processed' = IF /\ useHash
                       /\ found[r] \cap {"report_roundtrip", "report_changed"} # {}
                       /\ report.text # NoText
                    THEN report.text ELSE processed
    /\ Goto(r, "rebase")
    /\ UNCHANGED <<report, queue, markers, paused, held, late, base, found, started, history>>

LimitReached(n) == n >= MaxRoundtrips

Rebase(r) == /\ pc[r] = "rebase"
             /\ Baseline(r)
             /\ started' = [started EXCEPT ![r] = @ + 1]
             /\ Goto(r, IF LimitReached(started[r] + 1) THEN "stopped" ELSE "poll")
             /\ EndBatch(r)
             /\ UNCHANGED <<disk, late, history>>

(***************************************************************************)
(* The others.                                                             *)
(***************************************************************************)

(* A change by somebody else than a roundtrip, at a time stamp of its own. *)
Change == /\ clock < MaxChanges
          /\ clock' = clock + 1
          /\ causes' = causes + 1

WriteReport(x) == /\ Change
                  /\ report' = [text |-> x, mtime |-> clock']
                  /\ overlapped' = [r \in Runner |-> overlapped[r] \/ Blind(r)]
                  /\ UNCHANGED <<queue, markers, processed, paused, held, locals,
                                 seen, overshoot, runs, crashes>>

AppendToQueue == /\ Change
                 /\ queue' = clock'
                 /\ UNCHANGED <<report, markers, processed, paused, held, locals,
                                seen, overlapped, overshoot, runs, crashes>>

Request(m) == /\ m \notin markers
              /\ Change
              /\ markers' = markers \cup {m}
              /\ UNCHANGED <<report, queue, processed, paused, held, locals,
                             seen, overlapped, overshoot, runs, crashes>>

Pause == /\ ~paused
         /\ paused' = TRUE
         /\ UNCHANGED <<report, queue, markers, processed, held, locals, history>>

Resume == /\ paused
          /\ paused' = FALSE
          /\ overshoot' = [r \in Runner |-> 0]
          /\ UNCHANGED <<report, queue, markers, processed, held, locals,
                         seen, overlapped, clock, causes, runs, crashes>>

(* max_runtime_seconds have passed since the runner was launched.          *)
Expire(r) == /\ pc[r] \notin {"off", "stopped"}
             /\ ~late[r]
             /\ late' = [late EXCEPT ![r] = TRUE]
             /\ UNCHANGED <<disk, pc, base, found, started, history>>

(* The runner is killed; its lock file stays; it may be launched again.    *)
Crash(r) == /\ pc[r] \notin {"off", "stopped"}
            /\ crashes < MaxCrashes
            /\ crashes' = crashes + 1
            /\ Goto(r, "off")
            /\ late' = [late EXCEPT ![r] = FALSE]
            /\ started' = [started EXCEPT ![r] = 0]
            /\ EndBatch(r)
            /\ UNCHANGED <<disk, base, seen, overlapped, overshoot, clock, causes, runs>>

Loop(r) == \/ CheckLimits(r) \/ Detect(r) \/ Acquire(r) \/ ReadReport(r) \/ Work(r)
           \/ Release(r) \/ Consume(r) \/ Mark(r) \/ Rebase(r)

Others == \/ \E x \in Text : WriteReport(x)
          \/ AppendToQueue
          \/ \E m \in Marker : Request(m)
          \/ Pause \/ Resume

Next == /\ \/ \E r \in Runner : Launch(r) \/ Loop(r) \/ Expire(r) \/ Crash(r)
           \/ Others
        /\ UNCHANGED useHash

Spec == Init /\ [][Next]_vars

(* A launched runner keeps going, its roundtrips end (max_runtime_seconds  *)
(* of the roundtrip), and time passes.                                     *)
FairSpec == Spec /\ \A r \in Runner : /\ WF_vars(Loop(r) /\ UNCHANGED useHash)
                                       /\ WF_vars(Expire(r) /\ UNCHANGED useHash)

(***************************************************************************)
(* Properties.                                                             *)
(***************************************************************************)

(* Every variable has its type.                                            *)
TypeOK == /\ useHash \in BOOLEAN
          /\ report \in [text : Text \cup {NoText}, mtime : Nat]
          /\ queue \in Nat
          /\ markers \subseteq Marker
          /\ processed \in Text \cup {NoText}
          /\ paused \in BOOLEAN
          /\ held \in Runner \cup {NoRunner}
          /\ pc \in [Runner -> {"off", "poll", "detect", "debounce", "read", "work",
                                "release", "consume", "mark", "rebase", "stopped"}]
          /\ late \in [Runner -> BOOLEAN]
          /\ base \in [Runner -> [report : [text : Text \cup {NoText}, mtime : Nat], queue : Nat]]
          /\ found \in [Runner -> SUBSET Finding]
          /\ started \in [Runner -> Nat]
          /\ seen \in [Runner -> Text \cup {NoText}]
          /\ overlapped \in [Runner -> BOOLEAN]
          /\ overshoot \in [Runner -> Nat]
          /\ clock \in Nat /\ causes \in Nat /\ runs \in Nat /\ crashes \in Nat

(* README.md:490 "Each trigger causes at most one bounded report           *)
(* roundtrip": there are no more roundtrips than changes and markers made  *)
(* by others (the markers that are there at the start included),          *)
(* plus one for each crash that left a marker unconsumed.  In particular   *)
(* the commands a roundtrip enqueues do not trigger the next one.          *)
RunsHaveCauses == runs <= causes + crashes

(* A pause is obeyed: a runner starts at most one roundtrip, which it had  *)
(* already made up its mind about, between a pause and the next resume.    *)
PauseObeyed == \A r \in Runner : overshoot[r] <= 1

(* No run exceeds its max_roundtrips, the one under way included.          *)
RoundtripsBounded ==
    \A r \in Runner : started[r] + (IF InRoundtrip(r) THEN 1 ELSE 0) <= MaxRoundtrips

(* With content hashes, a poll that finds nothing overlooks a new report   *)
(* only if the report was rewritten while a roundtrip of the runner was    *)
(* under way, or if its content is marked as processed.                    *)
OverlookedNeedsOverlap ==
    [][useHash => \A r \in Runner : pc[r] = "detect" /\ pc'[r] = "poll" =>
           report.text \in {seen[r], processed} \/ overlapped[r]]_vars

(* A launched runner stops, or crashes.                                    *)
RunnerStops == \A r \in Runner : pc[r] # "off" ~> pc[r] \in {"stopped", "off"}
=============================================================================
