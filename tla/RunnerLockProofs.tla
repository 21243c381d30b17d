-------------------------- MODULE RunnerLockProofs --------------------------
(***************************************************************************)
(* Theorems about RunnerLock for any set of runners, with any number of    *)
(* crashes and with holders that may overrun stale_lock_seconds.           *)
(***************************************************************************)
EXTENDS RunnerLock, FiniteSetTheorems, TLAPS

(* The inductive invariant: types, ownership, and the two facts that tie   *)
(* a robbery to a verdict.  A robbery starts with a runner at "unlink" and *)
(* goes on with releases of robbed runners; before the first verdict there *)
(* is neither.                                                             *)
NoVerdictNoRobbery ==
    ~condemned => robbed = {} /\ \A r \in Runner : pc[r] # "unlink"

IInv == TypeOK /\ HolderOwnsFile /\ NoVerdictNoRobbery

(* Trigger(r) or a stutter changes nothing that the invariant is about.    *)
LEMMA Idle ==
    ASSUME IInv, UNCHANGED <<file, pc, history>>, wants' \subseteq Runner
    PROVE  IInv'
  BY DEF IInv, TypeOK, HolderOwnsFile, NoVerdictNoRobbery, Live, file, history

LEMMA LookStep == ASSUME IInv, NEW r \in Runner, Look(r) PROVE IInv'
  <1> USE DEF Look, Goto, IInv, TypeOK, Live, file, history
  <1>1. Live' = Live
    OBVIOUS
  <1>2. TypeOK'
    BY <1>1
  <1>3. HolderOwnsFile'
    BY <1>1 DEF HolderOwnsFile
  <1>4. NoVerdictNoRobbery'
    BY DEF NoVerdictNoRobbery
  <1> QED BY <1>2, <1>3, <1>4

LEMMA JudgeStep == ASSUME IInv, NEW r \in Runner, Judge(r) PROVE IInv'
  <1> USE DEF Judge, Stale, Goto, IInv, TypeOK, Live, file
  <1>1. Live' = Live
    OBVIOUS
  <1>2. TypeOK'
    BY <1>1
  <1>3. HolderOwnsFile'
    BY <1>1 DEF HolderOwnsFile
  <1>4. NoVerdictNoRobbery'
    BY DEF NoVerdictNoRobbery
  <1> QED BY <1>2, <1>3, <1>4

(* A runner that loses its file is live and is recorded as robbed.         *)
LEMMA UnlinkStep == ASSUME IInv, NEW r \in Runner, Unlink(r) PROVE IInv'
  <1> USE DEF Unlink, Goto, IInv, TypeOK, Live, file
  <1>1. Live' = Live
    OBVIOUS
  <1>2. TypeOK'
    <2>1. CASE creator = NoFile
      BY <1>1, <2>1
    <2>2. CASE creator # NoFile
      <3>1. RemoveFile /\ robbed' \subseteq Live
        BY <2>2 DEF Rob
      <3> QED BY <1>1, <2>2, <3>1 DEF RemoveFile
    <2> QED BY <2>1, <2>2
  <1>3. HolderOwnsFile'
    BY <1>1 DEF HolderOwnsFile, RemoveFile, Rob
  <1>4. NoVerdictNoRobbery'
    BY DEF NoVerdictNoRobbery
  <1> QED BY <1>2, <1>3, <1>4

(* O_EXCL: a file is created only while there is none, hence no live       *)
(* runner that still owns one.                                             *)
LEMMA CreateStep == ASSUME IInv, NEW r \in Runner, Create(r) PROVE IInv'
  <1> USE NoFileAssumption DEF Create, Goto, IInv, TypeOK, Live, history
  <1>1. TypeOK'
    OBVIOUS
  <1>2. HolderOwnsFile'
    BY DEF HolderOwnsFile
  <1>3. NoVerdictNoRobbery'
    BY DEF NoVerdictNoRobbery
  <1> QED BY <1>1, <1>2, <1>3

LEMMA WriteStep == ASSUME IInv, NEW r \in Runner, WritePayload(r) PROVE IInv'
  <1> USE NoFileAssumption DEF WritePayload, Goto, IInv, TypeOK, Live, history
  <1>1. Live' = Live
    OBVIOUS
  <1>2. TypeOK'
    <2>1. written' \in BOOLEAN /\ (creator' = NoFile => ~written' /\ ~old')
      OBVIOUS
    <2> QED BY <1>1, <2>1
  <1>3. HolderOwnsFile'
    BY <1>1 DEF HolderOwnsFile
  <1>4. NoVerdictNoRobbery'
    BY DEF NoVerdictNoRobbery
  <1> QED BY <1>2, <1>3, <1>4

(* A runner that was not robbed removes its own file; only a robbed one    *)
(* can take another's.                                                     *)
LEMMA ReleaseStep == ASSUME IInv, NEW r \in Runner, Release(r) PROVE IInv'
  <1> USE NoFileAssumption DEF Release, Goto, IInv, TypeOK, Live, RemoveFile
  <1>1. Live' = Live \ {r} /\ r \in Live
    OBVIOUS
  <1>2. TypeOK'
    BY <1>1 DEF Rob
  <1>3. HolderOwnsFile'
    BY <1>1 DEF HolderOwnsFile, Rob
  <1>4. NoVerdictNoRobbery'
    BY <1>1 DEF NoVerdictNoRobbery, HolderOwnsFile, Rob
  <1> QED BY <1>2, <1>3, <1>4

LEMMA CrashStep == ASSUME IInv, NEW r \in Runner, Crash(r) PROVE IInv'
  <1> USE DEF Crash, Goto, IInv, TypeOK, Live, file
  <1>1. Live' = Live \ {r}
    OBVIOUS
  <1>2. TypeOK'
    BY <1>1
  <1>3. HolderOwnsFile'
    BY <1>1 DEF HolderOwnsFile
  <1>4. NoVerdictNoRobbery'
    BY DEF NoVerdictNoRobbery
  <1> QED BY <1>2, <1>3, <1>4

LEMMA RestartStep == ASSUME IInv, NEW r \in Runner, Restart(r) PROVE IInv'
  <1> USE DEF Restart, Goto, IInv, TypeOK, Live, file, history
  <1>1. Live' = Live
    OBVIOUS
  <1>2. TypeOK'
    BY <1>1
  <1>3. HolderOwnsFile'
    BY <1>1 DEF HolderOwnsFile
  <1>4. NoVerdictNoRobbery'
    BY DEF NoVerdictNoRobbery
  <1> QED BY <1>2, <1>3, <1>4

LEMMA AgeStep == ASSUME IInv, Age PROVE IInv'
  BY DEF Age, IInv, TypeOK, HolderOwnsFile, NoVerdictNoRobbery, Live, history

(* The invariant is inductive.                                             *)
THEOREM LockInductive == Spec => []IInv
  <1>1. ASSUME Init PROVE IInv
    <2> USE <1>1 DEF Init
    <2>1. Live = {}
      BY DEF Live
    <2>2. TypeOK
      BY DEF TypeOK
    <2>3. HolderOwnsFile
      BY <2>1 DEF HolderOwnsFile
    <2>4. NoVerdictNoRobbery
      BY DEF NoVerdictNoRobbery
    <2> QED BY <2>2, <2>3, <2>4 DEF IInv
  <1>2. IInv /\ [Next]_vars => IInv'
    <2> SUFFICES ASSUME IInv, [Next]_vars PROVE IInv'
      OBVIOUS
    <2>1. CASE Age
      BY <2>1, AgeStep
    <2>2. CASE UNCHANGED vars
      BY <2>2, Idle DEF vars, IInv, TypeOK
    <2>3. ASSUME NEW r \in Runner, Trigger(r) PROVE IInv'
      BY <2>3, Idle DEF Trigger, IInv, TypeOK
    <2>4. ASSUME NEW r \in Runner, Acquire(r) PROVE IInv'
      BY <2>4, LookStep, JudgeStep, UnlinkStep, CreateStep, WriteStep DEF Acquire
    <2>5. ASSUME NEW r \in Runner, Release(r) \/ Crash(r) \/ Restart(r) PROVE IInv'
      BY <2>5, ReleaseStep, CrashStep, RestartStep
    <2> QED BY <2>1, <2>2, <2>3, <2>4, <2>5 DEF Next
  <1> QED BY <1>1, <1>2, PTL DEF Spec

(* Type correctness of the lock.                                           *)
THEOREM LockTyped == Spec => []TypeOK
  <1>1. IInv => TypeOK
    BY DEF IInv
  <1> QED BY <1>1, LockInductive, PTL

(* A runner whose file nobody took owns the file with the lock's name.     *)
THEOREM HolderOwns == Spec => []HolderOwnsFile
  <1>1. IInv => HolderOwnsFile
    BY DEF IInv
  <1> QED BY <1>1, LockInductive, PTL

(* Until some runner judges a lock file stale, the lock is exclusive.      *)
THEOREM ExclusiveUntilVerdict == Spec => []OverlapNeedsVerdict
  <1>1. ASSUME IInv PROVE OverlapNeedsVerdict
    <2> SUFFICES ASSUME ~condemned PROVE Cardinality(Live) <= 1
      BY DEF OverlapNeedsVerdict
    <2>1. \A r \in Live : r = creator
      BY <1>1 DEF IInv, HolderOwnsFile, NoVerdictNoRobbery
    <2>2. CASE Live = {}
      BY <2>2, FS_EmptySet
    <2>3. CASE Live = {creator}
      <3>1. Cardinality({creator}) = 1
        BY FS_Singleton
      <3> QED BY <2>3, <3>1
    <2>4. Live = {} \/ Live = {creator}
      BY <2>1
    <2> QED BY <2>2, <2>3, <2>4
  <1>2. IInv => OverlapNeedsVerdict
    BY <1>1
  <1> QED BY <1>2, LockInductive, PTL
=============================================================================
