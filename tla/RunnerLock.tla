----------------------------- MODULE RunnerLock -----------------------------
(***************************************************************************)
(* ExternalGuiRunnerLock of agent_bridge/gui/external_runner_daemon.py:    *)
(* the lock file that keeps two runner processes from driving the GUI at   *)
(* the same time.  acquire() looks at the file, unlinks it if it is stale  *)
(* or unreadable, creates it with O_EXCL and only then writes its payload; *)
(* release() unlinks whatever file has that name.  Every one of these is a *)
(* system call of its own, and runners interleave between them.            *)
(***************************************************************************)
EXTENDS Naturals, FiniteSets

CONSTANTS Runner,       \* the runner processes
          NoFile,       \* the lock file does not exist
          Overrun,      \* may a live holder outlast stale_lock_seconds?
          MaxCrashes    \* bound on the crashes of a behaviour

ASSUME NoFileAssumption == NoFile \notin Runner
ASSUME OverrunAssumption == Overrun \in BOOLEAN
ASSUME CrashesAssumption == MaxCrashes \in Nat

VARIABLES creator,      \* who created the file that now has the name, or NoFile
          written,      \* does the file hold its payload
          old,          \* is its created_at_epoch older than stale_lock_seconds
          pc,           \* where each runner is
          wants,        \* the runners that have a trigger to work on
          robbed,       \* history: live runners whose file another runner unlinked
          condemned,    \* history: has any runner ever judged a lock file stale
          crashes       \* history: crashes so far

file == <<creator, written, old>>
history == <<robbed, condemned, crashes>>
vars == <<file, pc, wants, history>>

Init == /\ creator = NoFile
        /\ written = FALSE
        /\ old = FALSE
        /\ pc = [r \in Runner |-> "idle"]
        /\ wants = {}
        /\ robbed = {}
        /\ condemned = FALSE
        /\ crashes = 0

Goto(r, label) == pc' = [pc EXCEPT ![r] = label]

(* The runners that have created a file and neither released it nor died.  *)
Live == {r \in Runner : pc[r] \in {"write", "run"}}

Running == {r \in Runner : pc[r] = "run"}

(***************************************************************************)
(* acquire()                                                               *)
(***************************************************************************)

(* _detect_triggers() finds something to do.  A runner whose roundtrip did *)
(* not start for want of the lock does not consume its trigger.            *)
Trigger(r) == /\ pc[r] = "idle"
              /\ wants' = wants \cup {r}
              /\ UNCHANGED <<file, pc, history>>

(* path.exists()                                                           *)
Look(r) == /\ pc[r] = "idle"
           /\ r \in wants
           /\ Goto(r, IF creator = NoFile THEN "create" ELSE "judge")
           /\ UNCHANGED <<file, wants, history>>

(* Mutant: a file without a payload is left to its creator.                *)
StaleByAge == creator = NoFile \/ old

(* _is_stale(): a file that is gone, still empty, or too old is stale.     *)
Stale == creator = NoFile \/ ~written \/ old

Judge(r) ==
    /\ pc[r] = "judge"
    /\ Goto(r, IF Stale THEN "unlink" ELSE "create")
    /\ condemned' = (condemned \/ Stale)
    /\ UNCHANGED <<file, wants, robbed, crashes>>

(* Mutant: what was known of the old file is taken for the next one's.     *)
RemoveName == creator' = NoFile /\ UNCHANGED <<written, old>>

RemoveFile == creator' = NoFile /\ written' = FALSE /\ old' = FALSE

(* A runner that removes a file may be taking it from its live creator.    *)
Rob(r) == {creator} \cap (Live \ {r})

(* path.unlink() without missing_ok: if the file is gone by now the        *)
(* exception ends the runner, for acquire() is called outside any handler. *)
Unlink(r) == /\ pc[r] = "unlink"
             /\ \/ /\ creator = NoFile
                   /\ Goto(r, "dead")
                   /\ UNCHANGED <<file, robbed>>
                \/ /\ creator # NoFile
                   /\ RemoveFile
                   /\ Goto(r, "create")
                   /\ robbed' = robbed \cup Rob(r)
             /\ UNCHANGED <<wants, condemned, crashes>>

(* Mutant: the file is created without O_EXCL.                             *)
CreateShared(r) == /\ pc[r] = "create"
                   /\ creator' = r
                   /\ Goto(r, "write")
                   /\ UNCHANGED <<written, old, wants, history>>

(* os.open(O_CREAT | O_EXCL); FileExistsError means the lock is            *)
(* unavailable and the runner goes back to polling.                        *)
Create(r) == /\ pc[r] = "create"
             /\ \/ /\ creator # NoFile
                   /\ Goto(r, "idle")
                   /\ UNCHANGED creator
                \/ /\ creator = NoFile
                   /\ creator' = r
                   /\ Goto(r, "write")
             /\ UNCHANGED <<written, old, wants, history>>

(* The payload goes to the file that was created, which may have lost its  *)
(* name since; then the roundtrip starts.                                  *)
WritePayload(r) == /\ pc[r] = "write"
                   /\ written' = (written \/ creator = r)
                   /\ Goto(r, "run")
                   /\ UNCHANGED <<creator, old, wants, history>>

(***************************************************************************)
(* The roundtrip ends, well or badly.  release() is                        *)
(* path.unlink(missing_ok=True), whoever created the file.                 *)
(***************************************************************************)
Release(r) == /\ pc[r] = "run"
              /\ Goto(r, "idle")
              /\ RemoveFile
              /\ wants' = wants \ {r}
              /\ robbed' = (robbed \cup Rob(r)) \ {r}
              /\ UNCHANGED <<condemned, crashes>>

(***************************************************************************)
(* The environment.                                                        *)
(***************************************************************************)

(* A runner is killed at any point; its file stays.                        *)
Crash(r) == /\ pc[r] # "dead"
            /\ crashes < MaxCrashes
            /\ crashes' = crashes + 1
            /\ Goto(r, "dead")
            /\ robbed' = robbed \ {r}
            /\ UNCHANGED <<file, wants, condemned>>

(* Somebody starts the runner again.                                       *)
Restart(r) == /\ pc[r] = "dead"
              /\ Goto(r, "idle")
              /\ UNCHANGED <<file, wants, history>>

(* stale_lock_seconds pass.  A live holder's file gets old only if its     *)
(* roundtrip may take that long.                                           *)
Age == /\ creator # NoFile
       /\ written
       /\ ~old
       /\ creator \in Running => Overrun
       /\ old' = TRUE
       /\ UNCHANGED <<creator, written, pc, wants, history>>

Acquire(r) == Look(r) \/ Judge(r) \/ Unlink(r) \/ Create(r) \/ WritePayload(r)

Next == \/ \E r \in Runner : Trigger(r) \/ Acquire(r) \/ Release(r) \/ Crash(r) \/ Restart(r)
        \/ Age

Spec == Init /\ [][Next]_vars

(* A runner keeps polling, a roundtrip ends (max_runtime_seconds), and     *)
(* time passes.  Nobody has to restart a dead runner.                      *)
FairSpec == /\ Spec
            /\ \A r \in Runner : WF_vars(Acquire(r)) /\ WF_vars(Release(r))
            /\ WF_vars(Age)

(***************************************************************************)
(* Properties.                                                             *)
(***************************************************************************)

(* Every variable has its type; a missing file has no payload and no age.  *)
TypeOK == /\ creator \in Runner \cup {NoFile}
          /\ written \in BOOLEAN
          /\ old \in BOOLEAN
          /\ creator = NoFile => ~written /\ ~old
          /\ pc \in [Runner -> {"idle", "judge", "unlink", "create", "write", "run", "dead"}]
          /\ wants \subseteq Runner
          /\ robbed \subseteq Live
          /\ condemned \in BOOLEAN
          /\ crashes \in Nat

(* A runner from which nobody took the file owns the one with the name;    *)
(* so at most one runner in a roundtrip is not robbed, its file holds its  *)
(* payload for the others to judge, and its release removes no other's.    *)
HolderOwnsFile ==
    \A r \in Live \ robbed : creator = r /\ (pc[r] = "run" => written)

(* Overlapping GUI runs are never the fault of O_EXCL: as long as no       *)
(* runner has judged a lock file stale, one roundtrip is under way at a    *)
(* time, whatever crashed and however the runners interleave.              *)
OverlapNeedsVerdict == ~condemned => Cardinality(Live) <= 1

(* A lock file left behind by a crash, empty or with a payload, does not   *)
(* stop the work: if a runner has a trigger, some runner gets to run, or   *)
(* the runner itself has died.                                             *)
WorkGoesOn == \A r \in Runner : r \in wants ~> Running # {} \/ pc[r] = "dead"

(* README.md:490 "prevents overlapping GUI runs".                          *)
NoOverlap == Cardinality(Running) <= 1
=============================================================================
