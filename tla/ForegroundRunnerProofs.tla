----------------------- MODULE ForegroundRunnerProofs -----------------------
(***************************************************************************)
(* Theorems about ForegroundRunner, beside any external runners, for any   *)
(* contents, launches and limits.                                          *)
(***************************************************************************)
EXTENDS ForegroundRunner, ExternalRunnerProofs

(* The phases that lead to a roundtrip without another look at the pause.  *)
Armed == {"existing", "debounce", "compare", "marker", "lock"}
Working == {"read", "work", "release"}

FgLimitInv == fg.pc \notin Working \cup {"off", "stopped"} => fg.started < FgRoundtrips

(* What a launch may still do in spite of a pause is paid for by that      *)
(* launch; between pauses nothing is owed.                                 *)
FgPauseInv ==
    /\ ~paused => trail.overshoot = 0
    /\ fg.pc # "off" => trail.launches >= 1
    /\ trail.overshoot + (IF fg.pc \in Armed THEN 1 ELSE 0) <= trail.launches

(* Each started roundtrip uses up a cause; so does the one that is about   *)
(* to start, and a report that differs from what was seen is one to spare. *)
FgCauseInv ==
    LET spare == trail.writes + trail.asked
        news == report.text # fg.seen
    IN  /\ trail.runs <= spare
        /\ fg.pc \in Working \cup {"top"} /\ news => trail.runs + 1 <= spare
        /\ fg.pc \in Armed => trail.runs + 1 <= spare
        /\ fg.pc \in Armed \ {"debounce"} /\ news => trail.runs + 2 <= spare

(* What has been seen is what the next roundtrip is for, or else has been  *)
(* dealt with.                                                             *)
Handled == UNION {trail.used, trail.dropped, trail.swapped, {NoText}}

FgSeenInv ==
    /\ fg.pc \in {"existing", "top", "debounce", "work"} => fg.seen \in Handled
    /\ fg.pc \in {"existing", "compare", "marker", "lock"} \cup Working => fg.seen = fg.change
    /\ fg.pc = "work" \/ (fg.pc = "release" /\ fg.ok) =>
           fg.change \in trail.used \cup trail.swapped

FgParts == FgLimitInv /\ FgPauseInv /\ FgCauseInv /\ FgSeenInv

FgIInv == TypeOK /\ FgTypeOK /\ FgParts

-----------------------------------------------------------------------------
LEMMA FgInitInv == ASSUME RunnersInit PROVE FgIInv
  <1>1. TypeOK
    BY InitInv DEF RunnersInit, IInv
  <1>2. FgTypeOK /\ FgParts
    BY <1>1, LaunchesAssumption
       DEF RunnersInit, FgInit, FgTypeOK, FgState, Trail, FgParts, FgLimitInv, FgPauseInv,
           FgCauseInv, FgSeenInv, FgPhase, Armed, Working, TypeOK
  <1> QED BY <1>1, <1>2 DEF FgIInv

(* What the others do, as far as the foreground runner can tell.           *)
Quiet == /\ UNCHANGED <<report, trail>>
         /\ paused' \in {paused, TRUE}
Rewritten == /\ trail' = [trail EXCEPT !.writes = @ + 1]
             /\ UNCHANGED paused
Unpaused == /\ trail' = [trail EXCEPT !.overshoot = 0]
            /\ UNCHANGED report
            /\ paused' = FALSE

LEMMA Outside ==
    ASSUME TypeOK, OthersAround \/ \E r \in Runner : ExternalAround(r)
    PROVE  TypeOK' /\ UNCHANGED fg /\ (Quiet \/ Rewritten \/ Unpaused)
  <1> USE DEF Beside
  <1>1. CASE \E x \in Text : ReportRewritten(x)
    <2>1. Others /\ UNCHANGED useHash
      BY <1>1 DEF ReportRewritten, Others
    <2> QED BY <1>1, <2>1, OthersTyped DEF ReportRewritten, WriteReport, Rewritten
  <1>2. CASE Resumed
    <2>1. Others /\ UNCHANGED useHash
      BY <1>2 DEF Resumed, Others
    <2> QED BY <1>2, <2>1, OthersTyped DEF Resumed, Resume, Unpaused
  <1>3. CASE /\ Beside(AppendToQueue \/ Pause \/ \E m \in Marker : Request(m))
             /\ UNCHANGED trail
    <2>1. Others /\ UNCHANGED useHash
      BY <1>3 DEF Others
    <2> QED BY <1>3, <2>1, OthersTyped DEF AppendToQueue, Pause, Request, Quiet, TypeOK
  <1>4. ASSUME NEW r \in Runner, ExternalAround(r)
        PROVE  TypeOK' /\ UNCHANGED fg /\ Quiet
    <2>1. TypeOK' /\ UNCHANGED <<useHash, fg, trail>>
      BY <1>4, LoopTyped, OthersTyped DEF ExternalAround
    <2>2. UNCHANGED report /\ paused' \in {paused, TRUE}
      BY <1>4 DEF ExternalAround, Launch, Loop, CheckLimits, Detect, Acquire, ReadReport, Work,
                  Release, Consume, Mark, Rebase, Expire, Crash, disk, TypeOK
    <2> QED BY <2>1, <2>2 DEF Quiet
  <1> QED BY <1>1, <1>2, <1>3, <1>4 DEF OthersAround

LEMMA OutsideStep ==
    ASSUME FgIInv, OthersAround \/ \E r \in Runner : ExternalAround(r) PROVE FgIInv'
  <1>1. TypeOK' /\ UNCHANGED fg /\ (Quiet \/ Rewritten \/ Unpaused)
    BY Outside DEF FgIInv
  <1> USE DEF FgIInv, FgTypeOK, FgState, Trail, FgParts, FgLimitInv, FgPauseInv, FgCauseInv,
              FgSeenInv, Handled, Armed, Working
  <1>2. CASE Quiet
    <2>1. UNCHANGED <<fg, trail, report>>
      BY <1>1, <1>2 DEF Quiet
    <2>2. paused' => trail'.overshoot = trail.overshoot
      BY <2>1
    <2>3. ~paused' => trail.overshoot = 0
      BY <1>2 DEF Quiet
    <2>4. FgPauseInv'
      BY <2>1, <2>3
    <2> QED BY <1>1, <2>1, <2>4
  <1>3. CASE Rewritten
    BY <1>1, <1>3 DEF Rewritten
  <1>4. CASE Unpaused
    BY SMTT(30), <1>1, <1>4 DEF Unpaused
  <1> QED BY <1>1, <1>2, <1>3, <1>4

(* The runner's own steps leave the workspace as it is, but for FgWork and *)
(* FgFinish.                                                               *)
FgStep == FgLoop \/ FgLaunch \/ FgExpire \/ FgInterrupt

LEMMA FgStepTyped == ASSUME TypeOK, FgTypeOK, FgStep PROVE TypeOK'
  <1>1. CASE UNCHANGED vars
    BY <1>1 DEF vars, disk, locals, history, TypeOK
  <1>2. CASE FgWork
    BY <1>2, BoundsAssumption DEF FgWork, Change, TypeOK, locals
  <1>3. CASE FgFinish
    BY <1>3 DEF FgFinish, TypeOK, FgTypeOK, FgState, Trail, locals, history
  <1> QED BY <1>1, <1>2, <1>3
             DEF FgStep, FgLoop, FgLaunch, FgExisting, FgPoll, FgDebounce, FgCompare, FgMarker,
                 FgLock, FgRead, FgExpire, FgInterrupt, FgUnchanged

(* One lemma for each part, with one step for each action.                 *)
LEMMA DropsTyped ==
    ASSUME trail \in Trail, NEW c \in Text \cup {NoText}, FgDrops(c)
    PROVE  trail' \in Trail
  <1>1. trail.dropped \cup {c} \in SUBSET (Text \cup {NoText})
    BY DEF Trail
  <1> QED BY <1>1 DEF Trail, FgDrops

LEMMA FgTrailStep == ASSUME FgIInv, FgStep PROVE trail' \in Trail
  <1>1. report.text \in Text \cup {NoText} /\ fg \in FgState /\ trail \in Trail
    BY DEF FgIInv, FgTypeOK, TypeOK
  <1>2. fg.change \in Text \cup {NoText}
    BY <1>1 DEF FgState
  <1>3. CASE FgLaunch
    <2>1. PICK existing \in BOOLEAN :
              trail' = [trail EXCEPT !.launches = @ + 1,
                                     !.asked = IF existing THEN @ + 1 ELSE @,
                                     !.dropped = @ \cup {report.text}]
      BY <1>3 DEF FgLaunch
    <2>2. trail.dropped \cup {report.text} \in SUBSET (Text \cup {NoText})
      BY <1>1 DEF Trail
    <2>3. trail.launches + 1 \in 0..MaxLaunches
      BY <1>1, <1>3, LaunchesAssumption DEF FgLaunch, Trail
    <2>4. (IF existing THEN trail.asked + 1 ELSE trail.asked) \in Nat
      BY <1>1 DEF Trail
    <2> QED BY <1>1, <2>1, <2>2, <2>3, <2>4 DEF Trail
  <1>4. CASE FgCompare \/ FgMarker
    BY <1>1, <1>2, <1>4, DropsTyped DEF FgCompare, FgMarker
  <1>5. CASE FgLock
    <2>1. CASE trail' = [trail EXCEPT !.runs = @ + 1,
                                      !.overshoot = @ + (IF paused THEN 1 ELSE 0)]
      <3>1. /\ trail.runs + 1 \in Nat
            /\ trail.overshoot + (IF paused THEN 1 ELSE 0) \in Nat
        BY <1>1 DEF Trail
      <3> QED BY <1>1, <2>1, <3>1 DEF Trail
    <2> QED BY <1>1, <1>2, <1>5, <2>1, DropsTyped DEF FgLock
  <1>6. CASE FgRead
    <2>1. /\ trail.used \cup {report.text} \in SUBSET (Text \cup {NoText})
          /\ trail.swapped \cup ({fg.change} \ {report.text}) \in SUBSET (Text \cup {NoText})
      BY <1>1, <1>2 DEF Trail
    <2>2. CASE UNCHANGED trail
      BY <1>1, <2>2
    <2> QED BY <1>1, <1>6, <2>1, <2>2 DEF FgRead, Trail
  <1>7. CASE FgFinish
    <2>1. UNCHANGED trail \/ FgDrops(fg.change)
      BY <1>7 DEF FgFinish, FgDrops
    <2> QED BY <1>1, <1>2, <2>1, DropsTyped
  <1>8. CASE UNCHANGED trail
    BY <1>1, <1>8
  <1> QED BY <1>3, <1>4, <1>5, <1>6, <1>7, <1>8
             DEF FgStep, FgLoop, FgExisting, FgPoll, FgDebounce, FgWork, FgExpire, FgInterrupt,
                 FgUnchanged

LEMMA FgStateStep == ASSUME FgIInv, FgStep PROVE fg' \in FgState
  <1>1. report.text \in Text \cup {NoText} /\ fg \in FgState /\ FgLimitInv
    BY DEF FgIInv, FgTypeOK, FgParts, TypeOK
  <1>2. CASE FgLaunch
    <2>1. PICK existing \in BOOLEAN :
              fg' = [fg EXCEPT !.seen = report.text, !.change = report.text, !.late = FALSE,
                               !.started = 0,
                               !.pc = IF existing /\ report.text # NoText THEN "existing"
                                      ELSE "top"]
      BY <1>2 DEF FgLaunch
    <2>2. 0 \in 0..FgRoundtrips
      BY LaunchesAssumption
    <2>3. (IF existing /\ report.text # NoText THEN "existing" ELSE "top") \in FgPhase
      BY DEF FgPhase
    <2> QED BY <1>1, <2>1, <2>2, <2>3 DEF FgState
  <1>3. CASE FgLock
    <2>1. fg.started + 1 \in 0..FgRoundtrips
      BY <1>1, <1>3, LaunchesAssumption DEF FgLock, FgLimitInv, Working, FgState, FgAt
    <2>2. CASE fg' = [fg EXCEPT !.pc = "read", !.started = @ + 1]
      BY <1>1, <2>1, <2>2 DEF FgState, FgPhase
    <2>3. CASE FgGoto(IF FgLimitReached(fg.started) THEN "stopped" ELSE "top")
      BY <1>1, <2>3 DEF FgState, FgPhase, FgGoto
    <2> QED BY <1>3, <2>2, <2>3 DEF FgLock
  <1>4. CASE FgExisting \/ FgPoll \/ FgDebounce
    BY <1>1, <1>4 DEF FgExisting, FgPoll, FgDebounce, FgState, FgPhase, FgGoto
  <1>5. CASE FgCompare \/ FgMarker
    <2>1. \E label \in {"top", "marker", "lock"} : FgGoto(label)
      BY <1>5 DEF FgCompare, FgMarker
    <2> QED BY <1>1, <2>1 DEF FgState, FgPhase, FgGoto
  <1>6. CASE FgRead \/ FgWork
    BY <1>1, <1>6 DEF FgRead, FgGoto, FgWork, FgState, FgPhase
  <1>7. CASE FgFinish \/ FgExpire \/ FgInterrupt
    BY <1>1, <1>7 DEF FgFinish, FgExpire, FgInterrupt, FgState, FgPhase
  <1> QED BY <1>2, <1>3, <1>4, <1>5, <1>6, <1>7 DEF FgStep, FgLoop

LEMMA FgLimitStep == ASSUME FgIInv, FgStep PROVE FgLimitInv'
  <1> USE LaunchesAssumption DEF FgIInv, FgTypeOK, FgState, Trail, TypeOK, FgAt, FgGoto, FgDrops, FgUnchanged,
          FgPhase, FgWatching, vars, disk, FgParts, FgLimitInv, FgLimitReached, Working
  <1>1. CASE FgLaunch
    BY <1>1 DEF FgLaunch
  <1>2. CASE FgExisting
    BY <1>2 DEF FgExisting
  <1>3. CASE FgPoll
    BY <1>3 DEF FgPoll
  <1>4. CASE FgDebounce
    BY <1>4 DEF FgDebounce
  <1>5. CASE FgCompare
    BY ZenonT(60), <1>5 DEF FgCompare
  <1>6. CASE FgMarker
    BY ZenonT(60), <1>6 DEF FgMarker
  <1>7. CASE FgLock
    BY ZenonT(60), <1>7 DEF FgLock
  <1>8. CASE FgRead
    <2>1. fg'.pc \in {"work", "release"}
      BY <1>8 DEF FgRead
    <2> QED BY <2>1 DEF FgLimitInv, Working
  <1>9. CASE FgWork
    BY <1>9 DEF FgWork
  <1>10. CASE FgFinish
    BY <1>10 DEF FgFinish
  <1>11. CASE FgExpire
    BY <1>11 DEF FgExpire
  <1>12. CASE FgInterrupt
    BY <1>12 DEF FgInterrupt
  <1> QED BY <1>1, <1>2, <1>3, <1>4, <1>5, <1>6, <1>7, <1>8, <1>9, <1>10, <1>11, <1>12
             DEF FgStep, FgLoop

LEMMA FgPauseStep == ASSUME FgIInv, FgStep PROVE FgPauseInv'
  <1> USE DEF FgIInv, FgTypeOK, FgState, Trail, TypeOK, FgAt, FgGoto, FgDrops, FgUnchanged,
          FgPhase, FgWatching, vars, disk, FgParts, FgPauseInv, Armed
  <1>1. CASE FgLaunch
    BY <1>1 DEF FgLaunch
  <1>2. CASE FgExisting
    BY <1>2 DEF FgExisting
  <1>3. CASE FgPoll
    BY <1>3 DEF FgPoll
  <1>4. CASE FgDebounce
    BY <1>4 DEF FgDebounce
  <1>5. CASE FgCompare
    <2>1. CASE fg.change = processed
      BY <1>5, <2>1 DEF FgCompare
    <2>2. CASE fg.change # processed
      BY <1>5, <2>2 DEF FgCompare
    <2> QED BY <2>1, <2>2
  <1>6. CASE FgMarker
    <2>1. CASE report.text \in Unmarked
      BY <1>6, <2>1 DEF FgMarker
    <2>2. CASE report.text \notin Unmarked
      BY <1>6, <2>2 DEF FgMarker
    <2> QED BY <2>1, <2>2
  <1>7. CASE FgLock
    <2>1. /\ fg.pc = "lock"
          /\ UNCHANGED vars
      BY <1>7 DEF FgLock
    <2>2. CASE /\ fg' = [fg EXCEPT !.pc = "read", !.started = @ + 1]
               /\ trail' = [trail EXCEPT !.runs = @ + 1,
                                         !.overshoot = @ + (IF paused THEN 1 ELSE 0)]
      <3>1. fg'.pc = "read" /\ fg'.seen = fg.seen
        BY <2>2
      <3>2. /\ trail'.runs = trail.runs + 1
            /\ trail'.overshoot = IF paused THEN trail.overshoot + 1 ELSE trail.overshoot
            /\ UNCHANGED <<trail.writes, trail.asked, trail.launches>>
        BY <2>2
      <3> QED BY <2>1, <3>1, <3>2
    <2>3. CASE /\ FgGoto(IF FgLimitReached(fg.started) THEN "stopped" ELSE "top")
               /\ FgDrops(fg.change)
      BY <2>1, <2>3
    <2> QED BY <1>7, <2>2, <2>3 DEF FgLock
  <1>8. CASE FgRead
    BY <1>8 DEF FgRead
  <1>9. CASE FgWork
    BY <1>9 DEF FgWork
  <1>10. CASE FgFinish
    BY <1>10 DEF FgFinish
  <1>11. CASE FgExpire
    BY <1>11 DEF FgExpire
  <1>12. CASE FgInterrupt
    BY <1>12 DEF FgInterrupt
  <1> QED BY <1>1, <1>2, <1>3, <1>4, <1>5, <1>6, <1>7, <1>8, <1>9, <1>10, <1>11, <1>12
             DEF FgStep, FgLoop

LEMMA FgCauseStep == ASSUME FgIInv, FgStep PROVE FgCauseInv'
  <1> USE DEF FgIInv, FgTypeOK, FgState, Trail, TypeOK, FgAt, FgGoto, FgDrops, FgUnchanged,
          FgPhase, FgWatching, vars, disk, FgParts, FgCauseInv, Armed, Working
  <1>1. CASE FgLaunch
    BY <1>1 DEF FgLaunch
  <1>2. CASE FgExisting
    BY <1>2 DEF FgExisting
  <1>3. CASE FgPoll
    BY <1>3 DEF FgPoll
  <1>4. CASE FgDebounce
    BY <1>4 DEF FgDebounce
  <1>5. CASE FgCompare
    <2>1. /\ fg.pc = "compare" /\ fg'.pc \in {"top", "lock", "marker"}
          /\ fg'.started = fg.started /\ fg'.seen = fg.seen
          /\ trail'.runs = trail.runs /\ UNCHANGED vars
      BY <1>5 DEF FgCompare
    <2> QED BY <1>5, <2>1 DEF FgCompare
  <1>6. CASE FgMarker
    <2>1. CASE report.text \in Unmarked
      BY <1>6, <2>1 DEF FgMarker
    <2>2. CASE report.text \notin Unmarked
      BY <1>6, <2>2 DEF FgMarker
    <2> QED BY <2>1, <2>2
  <1>7. CASE FgLock
    <2>1. /\ fg.pc = "lock"
          /\ UNCHANGED vars
      BY <1>7 DEF FgLock
    <2>2. CASE /\ fg' = [fg EXCEPT !.pc = "read", !.started = @ + 1]
               /\ trail' = [trail EXCEPT !.runs = @ + 1,
                                         !.overshoot = @ + (IF paused THEN 1 ELSE 0)]
      <3>1. fg'.pc = "read" /\ fg'.seen = fg.seen
        BY <2>2
      <3>2. /\ trail'.runs = trail.runs + 1
            /\ trail'.overshoot = IF paused THEN trail.overshoot + 1 ELSE trail.overshoot
            /\ UNCHANGED <<trail.writes, trail.asked, trail.launches>>
        BY <2>2
      <3> QED BY <2>1, <3>1, <3>2
    <2>3. CASE /\ FgGoto(IF FgLimitReached(fg.started) THEN "stopped" ELSE "top")
               /\ FgDrops(fg.change)
      BY <2>1, <2>3
    <2> QED BY <1>7, <2>2, <2>3 DEF FgLock
  <1>8. CASE FgRead
    <2>1. fg.pc = "read" /\ UNCHANGED vars /\ fg'.pc \in {"work", "release"}
      BY <1>8 DEF FgRead
    <2>2. UNCHANGED <<fg.seen, fg.change, fg.started>>
      BY <1>8 DEF FgRead
    <2>3. UNCHANGED <<trail.runs, trail.writes, trail.asked>>
      BY <1>8 DEF FgRead
    <2> QED BY <2>1, <2>2, <2>3
  <1>9. CASE FgWork
    BY <1>9 DEF FgWork
  <1>10. CASE FgFinish
    BY <1>10 DEF FgFinish
  <1>11. CASE FgExpire
    BY <1>11 DEF FgExpire
  <1>12. CASE FgInterrupt
    BY <1>12 DEF FgInterrupt
  <1> QED BY <1>1, <1>2, <1>3, <1>4, <1>5, <1>6, <1>7, <1>8, <1>9, <1>10, <1>11, <1>12
             DEF FgStep, FgLoop

LEMMA FgSeenStep == ASSUME FgIInv, FgStep PROVE FgSeenInv'
  <1> USE DEF FgIInv, FgTypeOK, FgState, Trail, TypeOK, FgAt, FgGoto, FgDrops, FgUnchanged,
          FgPhase, FgWatching, vars, disk, FgParts, FgSeenInv, Handled, Working
  <1>1. CASE FgLaunch
    BY <1>1 DEF FgLaunch
  <1>2. CASE FgExisting
    BY <1>2 DEF FgExisting
  <1>3. CASE FgPoll
    BY <1>3 DEF FgPoll
  <1>4. CASE FgDebounce
    BY <1>4 DEF FgDebounce
  <1>5. CASE FgCompare
    BY <1>5 DEF FgCompare
  <1>6. CASE FgMarker
    BY <1>6 DEF FgMarker
  <1>7. CASE FgLock
    <2>1. /\ fg.pc = "lock" /\ fg'.pc \in {"read", "top", "stopped"}
          /\ fg'.seen = fg.seen /\ fg'.change = fg.change
      BY <1>7 DEF FgLock
    <2>2. fg'.pc \in {"top", "stopped"} => trail'.dropped = trail.dropped \cup {fg.change}
      BY <1>7 DEF FgLock
    <2>3. trail'.used = trail.used /\ trail'.swapped = trail.swapped
      BY <1>7 DEF FgLock
    <2>4. fg.seen = fg.change
      BY <2>1
    <2>5. fg'.pc \in {"top", "stopped"} => fg'.seen \in Handled'
      BY <2>1, <2>2, <2>4 DEF Handled
    <2> QED BY ONLY <2>1, <2>4, <2>5 DEF FgSeenInv, Working
  <1>8. CASE FgRead
    <2>1. fg.pc = "read" /\ UNCHANGED vars /\ fg'.pc \in {"work", "release"}
      BY <1>8 DEF FgRead
    <2>2. UNCHANGED <<fg.seen, fg.change, fg.started>>
      BY <1>8 DEF FgRead
    <2>3. CASE fg' = [fg EXCEPT !.pc = "release", !.ok = FALSE, !.blocked = FALSE]
      <3>1. fg'.pc = "release" /\ fg'.ok = FALSE
        BY <2>3
      <3> QED BY ONLY <2>1, <2>2, <3>1, FgSeenInv DEF FgSeenInv, Working
    <2>4. CASE /\ FgGoto("work")
               /\ trail' = [trail EXCEPT !.used = @ \cup {report.text},
                                         !.swapped = @ \cup ({fg.change} \ {report.text})]
      <3>1. /\ trail'.used = trail.used \cup {report.text}
            /\ trail'.swapped = trail.swapped \cup ({fg.change} \ {report.text})
        BY <2>4
      <3>2. fg'.pc = "work" /\ fg'.change \in trail'.used \cup trail'.swapped
        BY <2>2, <2>4, <3>1
      <3>3. fg'.seen = fg'.change
        BY <2>1, <2>2
      <3>4. fg'.seen \in Handled'
        BY <3>2, <3>3 DEF Handled
      <3> QED BY ONLY <3>2, <3>3, <3>4 DEF FgSeenInv, Working
    <2> QED BY <1>8, <2>3, <2>4 DEF FgRead
  <1>9. CASE FgWork
    BY <1>9 DEF FgWork
  <1>10. CASE FgFinish
    BY <1>10 DEF FgFinish
  <1>11. CASE FgExpire
    BY <1>11 DEF FgExpire
  <1>12. CASE FgInterrupt
    BY <1>12 DEF FgInterrupt
  <1> QED BY <1>1, <1>2, <1>3, <1>4, <1>5, <1>6, <1>7, <1>8, <1>9, <1>10, <1>11, <1>12
             DEF FgStep, FgLoop

THEOREM ForegroundInductive == RunnersSpec => []FgIInv
  <1>1. RunnersInit => FgIInv
    BY FgInitInv
  <1>2. FgIInv /\ [FgNext]_fgvars => FgIInv'
    <2> SUFFICES ASSUME FgIInv, [FgNext]_fgvars PROVE FgIInv'
      OBVIOUS
    <2>1. CASE FgStep
      <3>1. TypeOK'
        BY <2>1, FgStepTyped DEF FgIInv
      <3>2. (FgTypeOK /\ FgParts)'
        BY <2>1, FgTrailStep, FgStateStep, FgLimitStep, FgPauseStep, FgCauseStep, FgSeenStep
           DEF FgTypeOK, FgParts
      <3> QED BY <3>1, <3>2 DEF FgIInv
    <2>2. CASE OthersAround \/ \E r \in Runner : ExternalAround(r)
      BY <2>2, OutsideStep
    <2>3. CASE UNCHANGED fgvars
      BY <2>3 DEF fgvars, vars, disk, locals, history, FgIInv, TypeOK, FgTypeOK, FgParts,
                  FgLimitInv, FgPauseInv, FgCauseInv, FgSeenInv, Handled
    <2> QED BY <2>1, <2>2, <2>3 DEF FgNext, FgStep
  <1> QED BY <1>1, <1>2, PTL DEF RunnersSpec

-----------------------------------------------------------------------------
(* The foreground runner's variables keep their types, its limit included. *)
THEOREM ForegroundTyped == RunnersSpec => []FgTypeOK
  <1>1. FgIInv => FgTypeOK
    BY DEF FgIInv
  <1> QED BY <1>1, ForegroundInductive, PTL

(* Only a report that is new since the launch, or the existing one on      *)
(* request, starts a roundtrip.                                            *)
THEOREM ForegroundHasCauses == RunnersSpec => []FgRunsHaveCauses
  <1>1. FgIInv => FgRunsHaveCauses
    BY DEF FgIInv, FgParts, FgCauseInv, FgRunsHaveCauses
  <1> QED BY <1>1, ForegroundInductive, PTL

(* Each launch starts one roundtrip at most in spite of a pause.           *)
THEOREM ForegroundObeysPause == RunnersSpec => []FgPauseObeyed
  <1>1. FgIInv => FgPauseObeyed
    BY DEF FgIInv, FgTypeOK, FgState, Trail, FgParts, FgPauseInv, FgPauseObeyed, Armed
  <1> QED BY <1>1, ForegroundInductive, PTL

(* A content that a poll takes for nothing new has been dealt with.        *)
THEOREM ForegroundForgetsNothing == RunnersSpec => []SeenWasHandled
  <1>1. FgIInv => SeenWasHandled
    BY DEF FgIInv, FgParts, FgSeenInv, SeenWasHandled, Handled, FgAt
  <1> QED BY <1>1, ForegroundInductive, PTL

(* A content is marked as processed only if a roundtrip has read it or was *)
(* started for it.                                                         *)
THEOREM ForegroundMarksWhatItRead == RunnersSpec => ProcessedWasRead
  <1>1. ASSUME FgIInv, FgNext, fg' # fg, processed' # processed
        PROVE  processed' \in trail.used \cup trail.swapped
    <2>1. ~(OthersAround \/ \E r \in Runner : ExternalAround(r))
      BY SMTT(30), <1>1, Outside DEF FgIInv
    <2>2. FgFinish
      BY <1>1, <2>1
         DEF FgNext, FgLoop, FgLaunch, FgExisting, FgPoll, FgDebounce, FgCompare, FgMarker,
             FgLock, FgRead, FgWork, FgExpire, FgInterrupt, FgUnchanged, vars, disk
    <2> QED BY <1>1, <2>2 DEF FgFinish, FgAt, FgIInv, FgParts, FgSeenInv
  <1>2. FgIInv /\ [FgNext]_fgvars =>
            [fg' # fg /\ processed' # processed =>
                 processed' \in trail.used \cup trail.swapped]_fgvars
    BY <1>1
  <1> QED BY <1>2, ForegroundInductive, PTL DEF RunnersSpec, ProcessedWasRead
=============================================================================
