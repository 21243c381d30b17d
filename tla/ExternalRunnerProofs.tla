------------------------ MODULE ExternalRunnerProofs ------------------------
(***************************************************************************)
(* Theorems about ExternalRunner for any runners, contents and limits,     *)
(* whichever of the two modes is configured.                               *)
(***************************************************************************)
EXTENDS ExternalRunner, FiniteSetTheorems, TLAPS

(* A runner that has started one roundtrip since the pause has passed its  *)
(* debounce: it comes to the top of its loop before it can start another,  *)
(* and stops there.                                                        *)
PauseInv == \A r \in Runner :
    /\ overshoot[r] \in {0, 1}
    /\ overshoot[r] = 1 => paused /\ pc[r] \notin {"detect", "debounce"}

(* The limit is looked at after a roundtrip, so a runner that still polls  *)
(* has a roundtrip left.                                                   *)
LimitInv == \A r \in Runner :
    /\ started[r] <= MaxRoundtrips
    /\ pc[r] # "stopped" => started[r] < MaxRoundtrips

(* Outside of a roundtrip the baseline is what the runner has seen last;   *)
(* inside, what it has seen is still in the report; else it was rewritten. *)
SeenInv == \A r \in Runner :
    /\ report.text = NoText => seen[r] = NoText
    /\ ~overlapped[r] /\ Blind(r) => report.text = seen[r]
    /\ ~overlapped[r] /\ ~Blind(r) /\ pc[r] # "off" => base[r].report.text = seen[r]

(* How many of the two markers are in a set.                               *)
Marks(S) == (IF "report_roundtrip" \in S THEN 1 ELSE 0) + (IF "queue_dispatch" \in S THEN 1 ELSE 0)

(* What has changed since the baseline.                                    *)
ReportNews(r) == IF report # base[r].report THEN 1 ELSE 0
QueueNews(r) == IF queue # base[r].queue THEN 1 ELSE 0

(* Time stamps are in the past, so that a change of a file shows.          *)
ClockInv ==
    /\ report.mtime <= clock /\ queue <= clock /\ 1 <= clock
    /\ \A r \in Runner : base[r].report.mtime <= clock /\ base[r].queue <= clock

(* Where only one runner polls: every roundtrip has used up a cause, and   *)
(* so have the markers that wait and the changes since its baseline.  The  *)
(* markers of a batch are paid for twice until they are consumed: a crash  *)
(* leaves them behind.                                                     *)
CauseInv == \A r \in Runner :
    LET spare == causes + crashes
    IN  /\ pc[r] = "stopped" => runs <= spare
        /\ pc[r] \in {"off", "mark", "rebase"} => runs + Marks(markers) <= spare
        /\ pc[r] \in {"poll", "detect", "debounce"} =>
               runs + Marks(markers) + ReportNews(r) + QueueNews(r) <= spare
        /\ pc[r] = "debounce" =>
               /\ found[r] # {} /\ found[r] \cap Marker \subseteq markers
               /\ "report_changed" \in found[r] => report # base[r].report
               /\ "queue_changed" \in found[r] => queue # base[r].queue
        /\ pc[r] \in {"read", "work", "release", "consume"} =>
               /\ runs + Marks(markers \ found[r]) <= spare
               /\ runs + Marks(markers) <= spare + 1

IInv == TypeOK /\ PauseInv /\ LimitInv /\ SeenInv

-----------------------------------------------------------------------------
(* The parts, each with the steps that can disturb it.                     *)

(* The history is named in one place; a step of a runner changes no other  *)
(* runner's phase.                                                         *)
LEMMA InitInv == ASSUME Init PROVE IInv
  <1> USE BoundsAssumption, HashAssumption DEF Init
  <1>1. /\ report \in [text : Text \cup {NoText}, mtime : Nat]
        /\ report.text \in Text \cup {NoText}
    OBVIOUS
  <1>2. Cardinality(markers) \in Nat
    <2>1. IsFiniteSet({"report_roundtrip"})
      BY FS_Singleton
    <2>2. IsFiniteSet({"report_roundtrip"} \cup {"queue_dispatch"})
      BY <2>1, FS_AddElement
    <2>3. Marker = {"report_roundtrip"} \cup {"queue_dispatch"}
      BY DEF Marker
    <2>4. IsFiniteSet(Marker)
      BY <2>2, <2>3
    <2>5. markers \in SUBSET Marker
      OBVIOUS
    <2>6. IsFiniteSet(markers)
      BY <2>4, <2>5, FS_Subset
    <2> QED BY <2>6, FS_CardinalityType
  <1>3. TypeOK
    <2>1. base \in [Runner -> [report : [text : Text \cup {NoText}, mtime : Nat], queue : Nat]]
      BY <1>1
    <2>2. seen \in [Runner -> Text \cup {NoText}]
      BY <1>1
    <2>3. useHash \in BOOLEAN /\ queue \in Nat /\ clock \in Nat /\ causes \in Nat
      BY <1>2
    <2>4. held \in Runner \cup {NoRunner} /\ processed \in Text \cup {NoText}
      OBVIOUS
    <2> QED BY <1>1, <2>1, <2>2, <2>3, <2>4 DEF TypeOK
  <1>4. PauseInv /\ LimitInv
    BY DEF PauseInv, LimitInv
  <1>5. SeenInv
    BY DEF SeenInv, Blind
  <1> QED BY <1>3, <1>4, <1>5 DEF IInv

LEMMA LoopTyped ==
    ASSUME TypeOK, NEW r \in Runner, Launch(r) \/ Loop(r), UNCHANGED useHash
    PROVE  TypeOK'
  <1> USE BoundsAssumption DEF TypeOK, Goto, disk, history
  <1>1. CASE Launch(r)
    BY <1>1 DEF Launch, Baseline
  <1>2. CASE CheckLimits(r)
    BY <1>2 DEF CheckLimits
  <1>3. CASE Detect(r)
    <2>1. Triggers(r) \subseteq Finding
      BY DEF Triggers, Finding
    <2> QED BY <1>3, <2>1 DEF Detect
  <1>4. CASE Acquire(r)
    <2>1. UNCHANGED <<report, queue, markers, processed, paused, late, base, started, seen,
                      overlapped, clock, causes, crashes>>
      BY <1>4 DEF Acquire
    <2>2. held' \in Runner \cup {NoRunner} /\ found' \in [Runner -> SUBSET Finding]
      BY <1>4 DEF Acquire, EndBatch
    <2>3. overshoot' \in [Runner -> Nat] /\ runs' \in Nat
      BY SMTT(30), <1>4 DEF Acquire
    <2>4. pc' \in [Runner -> {"off", "poll", "detect", "debounce", "read", "work",
                              "release", "consume", "mark", "rebase", "stopped"}]
      BY SMTT(30), <1>4 DEF Acquire
    <2> QED BY <2>1, <2>2, <2>3, <2>4
  <1>5. CASE ReadReport(r)
    BY <1>5 DEF ReadReport
  <1>6. CASE Work(r)
    <2>1. queue' \in Nat /\ clock' \in Nat
      BY <1>6 DEF Work
    <2>2. paused' \in BOOLEAN
      BY <1>6 DEF Work
    <2> QED BY <1>6, <2>1, <2>2 DEF Work
  <1>7. CASE Release(r)
    BY <1>7 DEF Release
  <1>8. CASE Consume(r)
    BY <1>8 DEF Consume
  <1>9. CASE Mark(r)
    BY <1>9 DEF Mark
  <1>10. CASE Rebase(r)
    BY <1>10 DEF Rebase, Baseline, EndBatch
  <1> QED BY <1>1, <1>2, <1>3, <1>4, <1>5, <1>6, <1>7, <1>8, <1>9, <1>10 DEF Loop

LEMMA OthersTyped ==
    ASSUME TypeOK, UNCHANGED useHash, Others \/ \E r \in Runner : Expire(r) \/ Crash(r)
    PROVE  TypeOK'
  <1> USE BoundsAssumption DEF TypeOK, Goto, Change, disk, locals, history
  <1>1. CASE \E x \in Text : WriteReport(x)
    BY <1>1 DEF WriteReport, Blind
  <1>2. CASE AppendToQueue
    BY <1>2 DEF AppendToQueue
  <1>3. CASE \E m \in Marker : Request(m)
    BY <1>3 DEF Request
  <1>4. CASE Pause \/ Resume
    <2>1. CASE Pause
      BY <2>1 DEF Pause
    <2>2. CASE Resume
      BY <2>2 DEF Resume
    <2> QED BY <1>4, <2>1, <2>2
  <1>5. CASE \E r \in Runner : Expire(r)
    BY <1>5 DEF Expire
  <1>6. CASE \E r \in Runner : Crash(r)
    BY <1>6 DEF Crash, EndBatch
  <1> QED BY <1>1, <1>2, <1>3, <1>4, <1>5, <1>6 DEF Others

LEMMA PauseStep == ASSUME TypeOK, PauseInv, Next PROVE PauseInv'
  <1> USE DEF TypeOK, PauseInv, Goto, disk, locals, history
  <1>1. ASSUME NEW r \in Runner, Launch(r) \/ CheckLimits(r) \/ Detect(r) PROVE PauseInv'
    BY <1>1 DEF Launch, CheckLimits, Detect
  <1>2. ASSUME NEW r \in Runner, Acquire(r) PROVE PauseInv'
    BY <1>2 DEF Acquire
  <1>3. ASSUME NEW r \in Runner, ReadReport(r) \/ Work(r) \/ Release(r) PROVE PauseInv'
    BY <1>3 DEF ReadReport, Work, Release
  <1>4. ASSUME NEW r \in Runner, Consume(r) \/ Mark(r) \/ Rebase(r) PROVE PauseInv'
    BY <1>4 DEF Consume, Mark, Rebase
  <1>5. ASSUME NEW r \in Runner, Expire(r) \/ Crash(r) PROVE PauseInv'
    BY <1>5 DEF Expire, Crash
  <1>6. ASSUME Others PROVE PauseInv'
    BY <1>6 DEF Others, WriteReport, AppendToQueue, Request, Pause, Resume
  <1> QED BY <1>1, <1>2, <1>3, <1>4, <1>5, <1>6 DEF Next, Loop

LEMMA LimitStep == ASSUME TypeOK, LimitInv, Next PROVE LimitInv'
  <1> USE BoundsAssumption DEF TypeOK, LimitInv, Goto, disk, locals, history
  <1>1. ASSUME NEW r \in Runner, Launch(r) \/ CheckLimits(r) \/ Detect(r) \/ Acquire(r)
        PROVE LimitInv'
    BY <1>1 DEF Launch, CheckLimits, Detect, Acquire
  <1>2. ASSUME NEW r \in Runner,
               ReadReport(r) \/ Work(r) \/ Release(r) \/ Consume(r) \/ Mark(r)
        PROVE LimitInv'
    BY <1>2 DEF ReadReport, Work, Release, Consume, Mark
  <1>3. ASSUME NEW r \in Runner, Rebase(r) PROVE LimitInv'
    BY <1>3 DEF Rebase, LimitReached
  <1>4. ASSUME NEW r \in Runner, Expire(r) \/ Crash(r) PROVE LimitInv'
    BY <1>4 DEF Expire, Crash
  <1>5. ASSUME Others PROVE LimitInv'
    BY <1>5 DEF Others, WriteReport, AppendToQueue, Request, Pause, Resume
  <1> QED BY <1>1, <1>2, <1>3, <1>4, <1>5 DEF Next, Loop

LEMMA SeenStep == ASSUME TypeOK, SeenInv, Next PROVE SeenInv'
  <1> USE DEF TypeOK, SeenInv, Blind, Goto, disk, locals, history
  <1>1. ASSUME NEW r \in Runner, Launch(r) PROVE SeenInv'
    BY <1>1 DEF Launch, Baseline
  <1>2. ASSUME NEW r \in Runner, CheckLimits(r) \/ Detect(r) \/ Acquire(r) PROVE SeenInv'
    BY <1>2 DEF CheckLimits, Detect, Acquire
  <1>3. ASSUME NEW r \in Runner, ReadReport(r) PROVE SeenInv'
    BY <1>3 DEF ReadReport
  <1>4. ASSUME NEW r \in Runner, Work(r) \/ Release(r) \/ Consume(r) \/ Mark(r) PROVE SeenInv'
    BY ZenonT(60), <1>4 DEF Work, Release, Consume, Mark
  <1>5. ASSUME NEW r \in Runner, Rebase(r) PROVE SeenInv'
    BY <1>5 DEF Rebase, Baseline
  <1>6. ASSUME NEW r \in Runner, Expire(r) \/ Crash(r) PROVE SeenInv'
    BY <1>6 DEF Expire, Crash
  <1>7. ASSUME NEW x \in Text, WriteReport(x) PROVE SeenInv'
    BY <1>7, NamesAssumption DEF WriteReport
  <1>8. ASSUME AppendToQueue \/ (\E m \in Marker : Request(m)) \/ Pause \/ Resume
        PROVE SeenInv'
    BY <1>8 DEF AppendToQueue, Request, Pause, Resume
  <1> QED BY <1>1, <1>2, <1>3, <1>4, <1>5, <1>6, <1>7, <1>8 DEF Next, Loop, Others

(* A step of the specification, or of one that contains it.                *)
LEMMA StepTyped == ASSUME TypeOK, Next PROVE TypeOK'
  BY LoopTyped, OthersTyped DEF Next

THEOREM RunnerInductive == Spec => []IInv
  <1>1. Init => IInv
    BY InitInv
  <1>2. IInv /\ [Next]_vars => IInv'
    <2> SUFFICES ASSUME IInv, [Next]_vars PROVE IInv'
      OBVIOUS
    <2>1. CASE Next
      BY <2>1, StepTyped, PauseStep, LimitStep, SeenStep DEF IInv
    <2>2. CASE UNCHANGED vars
      BY <2>2 DEF vars, disk, locals, history, IInv, TypeOK, PauseInv, LimitInv, SeenInv, Blind
    <2> QED BY <2>1, <2>2
  <1> QED BY <1>1, <1>2, PTL DEF Spec

-----------------------------------------------------------------------------
(* The runner's variables keep their types.                                *)
THEOREM RunnerTyped == Spec => []TypeOK
  <1>1. IInv => TypeOK
    BY DEF IInv
  <1> QED BY <1>1, RunnerInductive, PTL

(* A runner starts one roundtrip at most between a pause and the next      *)
(* resume, the one it had made up its mind about.                          *)
THEOREM RunnerObeysPause == Spec => []PauseObeyed
  <1>1. IInv => PauseObeyed
    BY DEF IInv, PauseInv, PauseObeyed
  <1> QED BY <1>1, RunnerInductive, PTL

(* No runner exceeds max_roundtrips, the roundtrip under way included.     *)
THEOREM RunnerObeysLimit == Spec => []RoundtripsBounded
  <1>1. ASSUME IInv, NEW r \in Runner
        PROVE  started[r] + (IF InRoundtrip(r) THEN 1 ELSE 0) <= MaxRoundtrips
    <2>1. started[r] \in Nat /\ started[r] <= MaxRoundtrips
      BY <1>1 DEF IInv, TypeOK, LimitInv
    <2>2. CASE InRoundtrip(r)
      BY <1>1, <2>1, <2>2, BoundsAssumption DEF IInv, TypeOK, LimitInv, InRoundtrip
    <2>3. CASE ~InRoundtrip(r)
      BY <2>1, <2>3, BoundsAssumption
    <2> QED BY <2>2, <2>3
  <1>2. IInv => RoundtripsBounded
    BY <1>1 DEF RoundtripsBounded
  <1> QED BY <1>2, RunnerInductive, PTL

(* With content hashes, a poll overlooks a report only if it was rewritten *)
(* during a roundtrip of that runner or is marked as processed.            *)
THEOREM OverlooksOnlyOverlap == Spec => OverlookedNeedsOverlap
  <1> DEFINE Poll(r) == pc[r] = "detect" /\ pc'[r] = "poll" =>
                            report.text \in {seen[r], processed} \/ overlapped[r]
  <1>1. ASSUME IInv, Next, useHash, NEW r \in Runner, pc[r] = "detect", pc'[r] = "poll",
               ~overlapped[r]
        PROVE  report.text \in {seen[r], processed}
    <2> USE <1>1
    <2>1. Detect(r)
      <3>1. ASSUME NEW q \in Runner, q # r,
                   Launch(q) \/ Loop(q) \/ Expire(q) \/ Crash(q)
            PROVE  FALSE
        BY <3>1 DEF Launch, Loop, CheckLimits, Detect, Acquire, ReadReport, Work, Release,
                    Consume, Mark, Rebase, Expire, Crash, Goto, IInv, TypeOK
      <3>2. ASSUME Launch(r) \/ Expire(r) \/ Crash(r) \/ (Loop(r) /\ ~Detect(r)) PROVE FALSE
        BY <3>2 DEF Launch, Loop, CheckLimits, Acquire, ReadReport, Work, Release,
                    Consume, Mark, Rebase, Expire, Crash, Goto, IInv, TypeOK
      <3>3. ASSUME Others PROVE FALSE
        BY <3>3 DEF Others, WriteReport, AppendToQueue, Request, Pause, Resume, locals
      <3> QED BY <3>1, <3>2, <3>3 DEF Next
    <2>2. ~ReportChanged(r)
      <3>1. Triggers(r) = {}
        BY <2>1 DEF Detect, Goto, IInv, TypeOK
      <3> QED BY <3>1 DEF Triggers
    <2>3. report.text \in {NoText, base[r].report.text, processed}
      BY <2>2 DEF ReportChanged
    <2> QED BY <2>3 DEF IInv, SeenInv, Blind
  <1>2. ASSUME IInv, [Next]_vars PROVE [useHash => \A r \in Runner : Poll(r)]_vars
    BY <1>1, <1>2
  <1>3. IInv /\ [Next]_vars => [useHash => \A r \in Runner : Poll(r)]_vars
    BY <1>2
  <1> QED BY <1>3, RunnerInductive, PTL DEF Spec, OverlookedNeedsOverlap
-----------------------------------------------------------------------------
(* Where one runner polls.                                                 *)
LEMMA MarksAre ==
    /\ \A S : Marks(S) \in 0..2
    /\ \A S, m \in Marker : m \notin S => Marks(S \cup {m}) = Marks(S) + 1
    /\ \A S, T : S \subseteq T => Marks(S) <= Marks(T)
    /\ \A S, T : T \cap S \cap Marker # {} => Marks(S \ T) < Marks(S)
  BY DEF Marks, Marker

LEMMA MarksCount == ASSUME NEW S \in SUBSET Marker PROVE Cardinality(S) = Marks(S)
  <1>1. S \in {{}, {"report_roundtrip"}, {"queue_dispatch"}, {"report_roundtrip", "queue_dispatch"}}
    BY DEF Marker
  <1>2. CASE S = {}
    BY <1>2, FS_EmptySet DEF Marks
  <1>3. Marks({"report_roundtrip"}) = 1 /\ Marks({"queue_dispatch"}) = 1
    BY DEF Marks
  <1>4. CASE S = {"report_roundtrip"} \/ S = {"queue_dispatch"}
    BY ONLY <1>3, <1>4, FS_Singleton
  <1>5. CASE S = {"report_roundtrip", "queue_dispatch"}
    <2>1. /\ IsFiniteSet({"report_roundtrip"}) /\ Cardinality({"report_roundtrip"}) = 1
          /\ S = {"report_roundtrip"} \cup {"queue_dispatch"}
      BY <1>5, FS_Singleton
    <2>2. Cardinality(S) = 2
      BY <2>1, FS_AddElement
    <2> QED BY <1>5, <2>2 DEF Marks
  <1> QED BY <1>1, <1>2, <1>4, <1>5

LEMMA ClockStep == ASSUME TypeOK, ClockInv, Next PROVE ClockInv'
  <1> USE DEF TypeOK, ClockInv, Goto, disk, locals, history
  <1>0. ASSUME NEW r \in Runner, CheckLimits(r) \/ Detect(r) \/ Acquire(r) PROVE ClockInv'
    BY <1>0 DEF CheckLimits, Detect, Acquire
  <1>1. ASSUME NEW r \in Runner, Launch(r) PROVE ClockInv'
    BY <1>1 DEF Launch, Baseline
  <1>2. ASSUME NEW r \in Runner, ReadReport(r) \/ Release(r) \/ Consume(r) \/ Mark(r)
        PROVE ClockInv'
    BY <1>2 DEF ReadReport, Release, Consume, Mark
  <1>3. ASSUME NEW r \in Runner, Work(r) PROVE ClockInv'
    BY <1>3 DEF Work
  <1>4. ASSUME NEW r \in Runner, Rebase(r) PROVE ClockInv'
    BY <1>4 DEF Rebase, Baseline
  <1>5. ASSUME NEW r \in Runner, Expire(r) \/ Crash(r) PROVE ClockInv'
    BY <1>5 DEF Expire, Crash
  <1>6. ASSUME NEW x \in Text, WriteReport(x) PROVE ClockInv'
    BY <1>6 DEF WriteReport, Change
  <1>7. ASSUME AppendToQueue \/ (\E m \in Marker : Request(m)) \/ Pause \/ Resume
        PROVE ClockInv'
    BY <1>7 DEF AppendToQueue, Request, Change, Pause, Resume
  <1> QED BY <1>0, <1>1, <1>2, <1>3, <1>4, <1>5, <1>6, <1>7 DEF Next, Loop, Others

(* A batch is found for what it has been paid for.                         *)
LEMMA CauseDetect ==
    ASSUME TypeOK, ClockInv, CauseInv, NEW r \in Runner, Runner = {r}, Detect(r)
    PROVE  CauseInv'
  <1> USE DEF TypeOK, CauseInv, Goto, disk, history
  <1>1. /\ pc[r] = "detect" /\ pc' = [pc EXCEPT ![r] = IF Triggers(r) = {} THEN "poll" ELSE "debounce"]
        /\ found' = [found EXCEPT ![r] = Triggers(r)]
        /\ UNCHANGED <<markers, report, queue, base, causes, crashes, runs>>
    BY DEF Detect
  <1>2. /\ Triggers(r) \cap Marker = markers
        /\ "report_changed" \in Triggers(r) => ReportChanged(r)
        /\ "queue_changed" \in Triggers(r) => QueueChanged(r)
    BY DEF Triggers, Marker
  <1>3. /\ ReportChanged(r) => report # base[r].report
        /\ QueueChanged(r) => queue # base[r].queue
    BY DEF ReportChanged, QueueChanged
  <1>4. ReportNews(r)' = ReportNews(r) /\ QueueNews(r)' = QueueNews(r)
    BY <1>1 DEF ReportNews, QueueNews
  <1>5. found'[r] = Triggers(r)
    BY <1>1
  <1>6. Marks(markers) \in Nat
    BY MarksAre
  <1> QED BY <1>1, <1>2, <1>3, <1>4, <1>5, <1>6

LEMMA CauseAcquire ==
    ASSUME TypeOK, CauseInv, NEW r \in Runner, Runner = {r}, Acquire(r)
    PROVE  CauseInv'
  <1> USE DEF TypeOK, CauseInv, Goto
  <1>1. /\ pc[r] = "debounce" /\ found[r] # {} /\ found[r] \subseteq Finding
        /\ UNCHANGED <<markers, report, queue, base, causes, crashes>>
    BY DEF Acquire
  <1>2. /\ Marks(markers) \in Nat /\ Marks(markers \ found[r]) \in Nat
        /\ Marks(markers \ found[r]) <= Marks(markers)
        /\ found[r] \cap Marker # {} => Marks(markers \ found[r]) < Marks(markers)
    BY <1>1, MarksAre
  <1>3. ReportNews(r)' = ReportNews(r) /\ QueueNews(r)' = QueueNews(r)
    BY <1>1 DEF ReportNews, QueueNews
  <1>4. CASE pc' = [pc EXCEPT ![r] = "read"] /\ runs' = runs + 1 /\ UNCHANGED found
    <2>1. runs + Marks(markers) <= causes + crashes
      BY <1>1, <1>2 DEF ReportNews, QueueNews
    <2>2. runs + 1 + Marks(markers \ found[r]) <= causes + crashes
      <3>1. CASE found[r] \cap Marker # {}
        BY <1>2, <2>1, <3>1
      <3>2. CASE found[r] \cap Marker = {}
        <4>1. "report_changed" \in found[r] \/ "queue_changed" \in found[r]
          BY <1>1, <3>2 DEF Finding
        <4>2. ReportNews(r) + QueueNews(r) >= 1
          BY <1>1, <4>1 DEF ReportNews, QueueNews
        <4> QED BY <1>1, <1>2, <4>2 DEF ReportNews, QueueNews
      <3> QED BY <3>1, <3>2
    <2> QED BY <1>1, <1>2, <1>4, <2>1, <2>2
  <1>5. CASE pc' = [pc EXCEPT ![r] = "poll"] /\ runs' = runs
    BY <1>1, <1>2, <1>3, <1>5
  <1> QED BY <1>4, <1>5 DEF Acquire

LEMMA CauseLoop ==
    ASSUME TypeOK, CauseInv, NEW r \in Runner, Runner = {r},
           Launch(r) \/ (Loop(r) /\ ~Detect(r) /\ ~Acquire(r)) \/ Expire(r) \/ Crash(r)
    PROVE  CauseInv'
  <1> USE DEF TypeOK, CauseInv, Goto, disk, history
  <1>0. /\ Marks(markers) \in Nat /\ Marks(markers \ found[r]) \in Nat
        /\ ReportNews(r) \in Nat /\ QueueNews(r) \in Nat
    BY MarksAre DEF ReportNews, QueueNews
  <1>1. CASE Launch(r) \/ Rebase(r)
    <2>1. base'[r] = [report |-> report', queue |-> queue']
      BY <1>1 DEF Launch, Rebase, Baseline
    <2>2. ReportNews(r)' = 0 /\ QueueNews(r)' = 0
      BY <2>1 DEF ReportNews, QueueNews
    <2> QED BY <1>0, <1>1, <2>2 DEF Launch, Rebase
  <1>2. CASE CheckLimits(r)
    BY <1>0, <1>2 DEF CheckLimits, ReportNews, QueueNews
  <1>3. CASE ReadReport(r) \/ Work(r) \/ Release(r)
    BY <1>0, <1>3 DEF ReadReport, Work, Release
  <1>4. CASE Consume(r)
    BY <1>0, <1>4 DEF Consume
  <1>5. CASE Mark(r)
    BY <1>0, <1>5 DEF Mark
  <1>6. CASE Expire(r)
    BY <1>0, <1>6 DEF Expire, ReportNews, QueueNews
  <1>7. CASE Crash(r)
    BY <1>0, <1>7 DEF Crash
  <1> QED BY <1>1, <1>2, <1>3, <1>4, <1>5, <1>6, <1>7 DEF Loop

LEMMA CauseOthers ==
    ASSUME TypeOK, ClockInv, CauseInv, NEW r \in Runner, Runner = {r}, Others
    PROVE  CauseInv'
  <1> USE DEF TypeOK, CauseInv, ClockInv, disk, locals, history
  <1>0. /\ Marks(markers) \in Nat /\ Marks(markers \ found[r]) \in Nat
        /\ Marks(markers \ found[r]) <= Marks(markers)
        /\ ReportNews(r) \in {0, 1} /\ QueueNews(r) \in {0, 1}
        /\ ReportNews(r)' \in {0, 1} /\ QueueNews(r)' \in {0, 1}
    BY MarksAre DEF ReportNews, QueueNews
  <1>1. ASSUME NEW x \in Text, WriteReport(x) PROVE CauseInv'
    <2>1. /\ causes' = causes + 1 /\ report'.mtime = clock + 1
          /\ UNCHANGED <<markers, queue, pc, base, found, runs, crashes>>
      BY <1>1 DEF WriteReport, Change
    <2>2. report' # base[r].report
      BY <2>1
    <2>3. QueueNews(r)' = QueueNews(r)
      BY <2>1 DEF QueueNews
    <2> QED BY <1>0, <2>1, <2>2, <2>3
  <1>2. ASSUME AppendToQueue PROVE CauseInv'
    <2>1. /\ causes' = causes + 1 /\ queue' = clock + 1
          /\ UNCHANGED <<markers, report, pc, base, found, runs, crashes>>
      BY <1>2 DEF AppendToQueue, Change
    <2>2. queue' # base[r].queue
      BY <2>1
    <2>3. ReportNews(r)' = ReportNews(r)
      BY <2>1 DEF ReportNews
    <2> QED BY <1>0, <2>1, <2>2, <2>3
  <1>3. ASSUME NEW m \in Marker, Request(m) PROVE CauseInv'
    <2>1. /\ causes' = causes + 1 /\ m \notin markers /\ markers' = markers \cup {m}
          /\ UNCHANGED <<report, queue, pc, base, found, runs, crashes>>
      BY <1>3 DEF Request, Change
    <2>2. /\ Marks(markers') = Marks(markers) + 1
          /\ Marks(markers' \ found[r]) <= Marks(markers \ found[r]) + 1
          /\ Marks(markers' \ found[r]) \in Nat
      BY <2>1 DEF Marks, Marker
    <2>3. ReportNews(r)' = ReportNews(r) /\ QueueNews(r)' = QueueNews(r)
      BY <2>1 DEF ReportNews, QueueNews
    <2> QED BY <1>0, <2>1, <2>2, <2>3
  <1>4. ASSUME Pause \/ Resume PROVE CauseInv'
    <2>1. UNCHANGED <<markers, report, queue, pc, base, found, causes, runs, crashes>>
      BY <1>4 DEF Pause, Resume
    <2>2. ReportNews(r)' = ReportNews(r) /\ QueueNews(r)' = QueueNews(r)
      BY <2>1 DEF ReportNews, QueueNews
    <2> QED BY <2>1, <2>2
  <1> QED BY <1>1, <1>2, <1>3, <1>4 DEF Others

(* One runner starts a roundtrip for each change or marker of others at    *)
(* most, and one more for each crash: what its own roundtrips enqueue does *)
(* not trigger it again, whichever the contents, limits and modes.  With   *)
(* two runners the enqueues of the one do trigger the other.               *)
THEOREM RunsOfOneHaveCauses ==
    ASSUME NEW only, Runner = {only}
    PROVE  Spec => []RunsHaveCauses
  <1> DEFINE CInv == TypeOK /\ ClockInv /\ CauseInv
  <1>1. Init => CInv
    <2> SUFFICES ASSUME Init PROVE CInv
      OBVIOUS
    <2>1. TypeOK
      BY InitInv DEF IInv
    <2>2. ClockInv
      BY DEF ClockInv, Init
    <2>3. CauseInv
      BY MarksCount, MarksAre DEF CauseInv, Init
    <2> QED BY <2>1, <2>2, <2>3
  <1>2. CInv /\ [Next]_vars => CInv'
    <2> SUFFICES ASSUME CInv, [Next]_vars PROVE CInv'
      OBVIOUS
    <2>1. CASE Next
      <3>1. CauseInv'
        BY <2>1, CauseDetect, CauseAcquire, CauseLoop, CauseOthers DEF Next
      <3> QED BY <2>1, <3>1, StepTyped, ClockStep
    <2>2. CASE UNCHANGED vars
      BY <2>2 DEF vars, disk, locals, history, TypeOK, ClockInv, CauseInv, ReportNews, QueueNews
    <2> QED BY <2>1, <2>2
  <1>3. CInv => RunsHaveCauses
    <2> SUFFICES ASSUME CInv PROVE RunsHaveCauses
      OBVIOUS
    <2>1. /\ Marks(markers) \in Nat /\ Marks(markers \ found[only]) \in Nat
          /\ ReportNews(only) \in Nat /\ QueueNews(only) \in Nat
      BY MarksAre DEF ReportNews, QueueNews
    <2> QED BY <2>1 DEF TypeOK, CauseInv, RunsHaveCauses
  <1> HIDE DEF CInv
  <1> QED BY <1>1, <1>2, <1>3, PTL DEF Spec
=============================================================================
