---------------------------- MODULE RunLoopProofs ----------------------------
(***************************************************************************)
(* Theorems about RunLoop for any commands, payloads, processes, casts and *)
(* numbers of cycles.                                                      *)
(***************************************************************************)
EXTENDS RunLoop, FiniteSetTheorems, WellFoundedInduction, TLAPS

Labels == Updates \cup {"check", "poll", "watch", "ingest", "list", "recheck", "count", "pop",
                        "select", "resolve", "stage", "refuse", "block_queue", "confirm",
                        "consume", "decide", "hung", "done"}

Consumer == Loop \cup Dispatcher

Typed == /\ status \in [Command -> {"absent", "pending", "in_progress", "completed", "blocked"}]
         /\ paused \in BOOLEAN \cup {Empty, Garbled}
         /\ tmp \in BOOLEAN \cup {Empty, Garbled, Nothing}
         /\ asked \in BOOLEAN /\ raced \in BOOLEAN
         /\ digest \in Digest \cup {NoCommand}
         /\ outbox \in Command \cup {NoCommand}
         /\ pc \in [Proc -> Labels]
         /\ view \in [Proc -> BOOLEAN \cup {Nothing}]
         /\ handle \in [Proc -> {"none", "tmp", "state", "gone", "written"}]
         /\ hand \in [Proc -> Command \cup {NoCommand}]
         /\ payload \in [Proc -> Command \cup {NoCommand}]
         /\ cycles \in [Proc -> Nat]
         /\ staged \subseteq Proc \X Command \X (Command \cup {NoCommand})
         /\ blockedBy \subseteq Loop
         /\ failed \subseteq Proc

OneInSlot == \A c, d \in Slot : c = d

(* Each program keeps to its own steps, and works on a command whenever it *)
(* is past the step that chooses one.                                      *)
Working == {"resolve", "stage", "refuse", "confirm", "consume"}

PhaseInv ==
    /\ \A p \in Loop : pc[p] \notin {"select", "confirm", "consume", "watch", "decide", "pause",
                                     "resume", "reset"}
    /\ \A p \in Dispatcher :
           pc[p] \in {"pop", "resolve", "stage", "refuse", "block", "block_queue", "done"}
    /\ \A p \in Manual : pc[p] \in Working \cup {"select", "block", "done"}
    /\ \A p \in Watcher : pc[p] \in {"watch", "ingest", "hung", "done"}
    /\ \A p \in Owner : pc[p] \in {"decide", "pause", "resume", "reset", "done"}
    /\ \A p \in Proc : pc[p] \in Working => hand[p] \in Command

(* A process that saves has loaded a state to save.                        *)
SaveInv == \A p \in Proc : /\ view[p] # Nothing => pc[p] \in Updates
                           /\ handle[p] # "none" => view[p] # Nothing

(* As long as no save was begun in the middle of another, the one process  *)
(* that saves has the temporary file to itself.                            *)
RaceInv ==
    ~raced => /\ paused \in BOOLEAN
              /\ \A p, q \in Proc : handle[p] # "none" /\ handle[q] # "none" => p = q
              /\ \A p \in Proc : /\ handle[p] \in {"none", "tmp", "written"}
                                 /\ handle[p] = "tmp" => tmp = Empty
                                 /\ handle[p] = "written" => tmp \in BOOLEAN

(* What is about to be staged, is staged, or was: the gate let it pass.    *)
GateInv ==
    /\ \A p \in Proc : pc[p] = "stage" =>
           /\ payload[p] \notin Hot /\ hand[p] \notin NeedsApproval
           /\ payload[p] \in NeedsApproval => {hand[p], payload[p]} \subseteq Digest
    /\ NothingHotStaged

(* A command that has been popped, blocked or closed: never pending again. *)
Claimed(c) == status[c] \in {"in_progress", "completed", "blocked"}

(* A consumer has claimed what it works on, nobody else can claim it       *)
(* again, and so nobody else ever stages it.                               *)
Holds(p) == pc[p] \in {"resolve", "stage"}
Judges(p) == pc[p] \in {"resolve", "stage", "refuse", "block", "block_queue"}

OwnerInv ==
    /\ \A p \in Consumer : Judges(p) => hand[p] \in Command /\ Claimed(hand[p])
    /\ \A p, q \in Consumer : Holds(p) /\ Holds(q) /\ hand[p] = hand[q] => p = q
    /\ \A s \in staged : s[1] \in Consumer \cup Manual
    /\ \A s \in staged : s[1] \in Consumer => Claimed(s[2])
    /\ \A s \in staged, p \in Consumer : s[1] \in Consumer /\ Holds(p) => s[2] # hand[p]
    /\ \A s, t \in staged : s[1] \in Consumer /\ t[1] \in Consumer /\ s[2] = t[2] => s[1] = t[1]

(* A dispatcher takes one command, which does not come back to the slot.   *)
StrandInv ==
    \A p \in Dispatcher :
        /\ pc[p] = "pop" => hand[p] = NoCommand
        /\ hand[p] # NoCommand => Claimed(hand[p])
        /\ pc[p] = "done" /\ hand[p] # NoCommand /\ status[hand[p]] = "in_progress" =>
               p \in failed \/ \E s \in staged : s[1] = p /\ s[2] = hand[p]

(* Where one run loop is there at most: until somebody resumes, what its   *)
(* own dispatch has saved is neither in state.json nor in state.tmp        *)
(* replaced by an unpaused state, and the loop loads none.                 *)
LoneInv ==
    /\ \A p, q \in Loop : pc[p] # "done" /\ pc[q] # "done" => p = q
    /\ blockedBy # {} => paused # FALSE /\ tmp # FALSE
    /\ \A p \in blockedBy : /\ pc[p] \in {"block_queue", "recheck", "error", "finish", "done"}
                           /\ view[p] # FALSE
                           /\ \A q \in Loop \ {p} : pc[q] = "done"

IInv == Typed /\ OneInSlot /\ PhaseInv /\ SaveInv /\ RaceInv /\ GateInv /\ OwnerInv /\ StrandInv

-----------------------------------------------------------------------------
(* The first of the pending commands exists and is one of them: the ranks  *)
(* are natural numbers.                                                    *)
LEMMA BestIsThere == ASSUME NEW S \in SUBSET Command, S # {} PROVE Best(S) \in S
  <1> DEFINE T == {rank[c] : c \in S}
             R == {p \in Nat \X Nat : p[1] < p[2]}
  <1>1. IsWellFoundedOn(R, Nat)
    BY NatLessThanWellFounded, Zenon DEF OpToRel
  <1>2. T \subseteq Nat /\ T # {}
    BY RankAssumption
  <1>3. PICK n \in T : \A m \in T : <<m, n>> \notin R
    <2> HIDE DEF R, T
    <2> QED BY <1>1, <1>2, WFMin
  <1>4. PICK c \in S : rank[c] = n
    OBVIOUS
  <1>5. ASSUME NEW d \in S PROVE rank[c] <= rank[d]
    <2>1. rank[d] \in T /\ rank[d] \in Nat /\ rank[c] \in Nat
      BY RankAssumption
    <2>2. <<rank[d], rank[c]>> \notin R
      BY <1>3, <1>4, <2>1
    <2>3. ~(rank[d] < rank[c])
      BY <2>1, <2>2
    <2> QED BY <2>1, <2>3
  <1>6. \E x \in S : \A d \in S : rank[x] <= rank[d]
    BY <1>5
  <1> QED BY <1>6, Zenon DEF Best

LEMMA BestIsPending ==
    Pending # {} => Best(Pending) \in Command /\ status[Best(Pending)] = "pending"
  <1>1. Pending \in SUBSET Command
    BY DEF Pending
  <1> QED BY <1>1, BestIsThere DEF Pending

LEMMA InitInv == ASSUME Init PROVE IInv
  <1>1. PICK cast \in Casts : pc = [p \in Proc |-> IF p \in cast THEN FirstStep(p) ELSE "done"]
    BY DEF Init
  <1>2. /\ \A p \in Proc : pc[p] \in {FirstStep(p), "done"}
        /\ \A p \in Proc : FirstStep(p) \in Labels
    BY <1>1 DEF FirstStep, Labels, Updates
  <1>3. Typed
    <2>1. pc \in [Proc -> Labels]
      BY <1>1, <1>2, Zenon DEF Labels
    <2>2. status \in [Command -> {"absent", "pending", "in_progress", "completed", "blocked"}]
      BY DEF Init
    <2> QED BY <2>1, <2>2 DEF Init, Typed
  <1>4. OneInSlot /\ GateInv
    BY <1>1, CommandAssumption DEF Init, OneInSlot, Slot, GateInv, NothingHotStaged, FirstStep
  <1>5. SaveInv /\ RaceInv
    BY DEF Init, SaveInv, RaceInv
  <1>6. PhaseInv /\ OwnerInv /\ StrandInv
    BY <1>2, ProgramsAreDisjoint
       DEF Init, PhaseInv, Working, OwnerInv, StrandInv, FirstStep, Holds, Judges, Consumer, Proc
  <1> QED BY <1>3, <1>4, <1>5, <1>6 DEF IInv

-----------------------------------------------------------------------------
(* The types.                                                              *)
LEMMA SavedIsKnown ==
    ASSUME Typed, SaveInv, NEW p \in Proc, handle[p] # "none" PROVE Saved(p) \in BOOLEAN
  BY DEF Typed, SaveInv, Saved

(* What the steps of a save, and its failures, do to the rest.             *)
Saves(p) == OpenTemp(p) \/ WriteTemp(p) \/ Publish(p) \/ StateFails(p) \/ Killed(p)

LEMMA SaveMoves ==
    ASSUME Typed, SaveInv, NEW p \in Proc, Saves(p)
    PROVE  /\ UNCHANGED <<status, digest, outbox, hand, payload, cycles, staged>>
           /\ failed \subseteq failed'
           /\ pc' = [pc EXCEPT ![p] = pc'[p]]
           /\ \/ pc'[p] = pc[p]
              \/ /\ pc[p] \in Updates \cup {"check", "recheck"}
                 /\ \/ pc'[p] = "done" /\ p \in failed'
                    \/ pc'[p] = "error" /\ p \in Loop
                    \/ pc'[p] = After(p) /\ pc[p] \in Updates
  <1> USE DEF Typed, SaveInv, Goto
  <1>1. CASE OpenTemp(p)
    BY <1>1 DEF OpenTemp
  <1>2. CASE WriteTemp(p)
    BY <1>2 DEF WriteTemp
  <1>3. CASE Publish(p)
    BY <1>3 DEF Publish
  <1>4. CASE StateFails(p)
    BY <1>4 DEF StateFails, GiveUp, Unusable, Escapes
  <1>5. CASE Killed(p)
    BY <1>5 DEF Killed, GiveUp
  <1> QED BY <1>1, <1>2, <1>3, <1>4, <1>5 DEF Saves

(* A save keeps to its files, and to its own turn.                         *)
LEMMA SaveStep ==
    ASSUME Typed, SaveInv, RaceInv, NEW p \in Proc, Step(p) PROVE (SaveInv /\ RaceInv)'
  <1> USE DEF Typed, SaveInv, RaceInv, Goto
  <1>1. CASE LoadState(p)
    BY <1>1, ContentsAssumption DEF LoadState, history
  <1>2. CASE OpenTemp(p)
    BY ZenonT(60), <1>2 DEF OpenTemp
  <1>3. CASE WriteTemp(p)
    BY <1>3, SavedIsKnown DEF WriteTemp, Overwritten
  <1>4. CASE Publish(p)
    <2>1. SaveInv'
      BY <1>4 DEF Publish
    <2>2. RaceInv'
      BY <1>4 DEF Publish
    <2> QED BY <2>1, <2>2
  <1>5. CASE StateFails(p) \/ Killed(p)
    BY <1>5 DEF StateFails, Killed, GiveUp
  <1>6. CASE Reset(p)
    BY <1>6, ContentsAssumption DEF Reset, Updates, history
  <1>7. CASE Decide(p) \/ CheckLimits(p) \/ WriteDigest(p) \/ Ingest(p) \/ ListPending(p)
               \/ Recheck(p) \/ Count(p) \/ Pop(p) \/ Select(p)
    BY <1>7 DEF Decide, CheckLimits, WriteDigest, Ingest, ListPending, Recheck, Count, Pop,
                Select, stateFile, history, Updates
  <1>8. CASE Resolve(p) \/ Stage(p) \/ Refuse(p) \/ BlockInProgress(p) \/ Confirm(p)
               \/ PopById(p) \/ Raise(p)
    BY <1>8 DEF Resolve, Stage, Refuse, BlockInProgress, Confirm, PopById, Raise, stateFile,
                history, Updates
  <1> QED BY <1>1, <1>2, <1>3, <1>4, <1>5, <1>6, <1>7, <1>8 DEF Step

LEMMA TypedStep ==
    ASSUME Typed, PhaseInv, SaveInv, NEW p \in Proc, Step(p) PROVE Typed'
  <1> USE DEF Typed, Goto, stateFile, history
  <1>1. CASE LoadState(p)
    BY <1>1 DEF LoadState
  <1>2. CASE OpenTemp(p)
    BY <1>2 DEF OpenTemp
  <1>3. CASE WriteTemp(p)
    <2>1. Saved(p) \in BOOLEAN
      BY <1>3, SavedIsKnown DEF WriteTemp
    <2> QED BY <1>3, <2>1 DEF WriteTemp, Overwritten
  <1>4. CASE Publish(p)
    <2>1. After(p) \in Labels
      BY DEF After, Labels, Updates
    <2>2. blockedBy' \subseteq Loop /\ asked' \in BOOLEAN
      BY <1>4 DEF Publish
    <2>3. paused' \in BOOLEAN \cup {Empty, Garbled}
      BY <1>4 DEF Publish
    <2>4. handle' \in [Proc -> {"none", "tmp", "state", "gone", "written"}]
      BY <1>4 DEF Publish
    <2> QED BY <1>4, <2>1, <2>2, <2>3, <2>4 DEF Publish
  <1>5. CASE StateFails(p) \/ Killed(p)
    BY <1>5 DEF StateFails, Killed, GiveUp, Labels, Updates
  <1>6. CASE Reset(p)
    BY <1>6 DEF Reset, Labels, Updates
  <1>7. CASE Decide(p) \/ CheckLimits(p) \/ ListPending(p) \/ Confirm(p)
    BY <1>7 DEF Decide, CheckLimits, ListPending, Confirm, Labels, Updates
  <1>8. CASE WriteDigest(p)
    BY <1>8, CommandAssumption DEF WriteDigest, Labels
  <1>9. CASE Ingest(p)
    BY <1>9 DEF Ingest, Become, Labels
  <1>10. CASE Recheck(p) \/ Count(p)
    BY <1>10 DEF Recheck, Count, Labels, Updates
  <1>11. CASE Pop(p)
    BY <1>11, BestIsPending DEF Pop, Become, Return, Labels
  <1>12. CASE Select(p)
    BY <1>12, BestIsPending DEF Select, Labels
  <1>13. CASE Resolve(p)
    BY <1>13, CommandAssumption DEF Resolve, Payload, Labels
  <1>14. CASE Stage(p)
    <2>1. hand[p] \in Command
      BY <1>14 DEF Stage, PhaseInv, Working
    <2> QED BY <1>14, <2>1 DEF Stage, Return, Labels
  <1>15. CASE Refuse(p)
    BY <1>15 DEF Refuse, Labels, Updates
  <1>16. CASE BlockInProgress(p)
    BY <1>16 DEF BlockInProgress, BlockSlot, Return, Labels
  <1>17. CASE PopById(p)
    BY <1>17 DEF PopById, Become, Labels
  <1>18. CASE Raise(p)
    BY <1>18 DEF Raise, Labels, Updates
  <1> QED BY <1>1, <1>2, <1>3, <1>4, <1>5, <1>6, <1>7, <1>8, <1>9, <1>10, <1>11, <1>12, <1>13,
             <1>14, <1>15, <1>16, <1>17, <1>18 DEF Step

LEMMA CompleteStep == ASSUME IInv, NEW c \in Command, Complete(c) PROVE IInv'
  <1> USE DEF IInv, Typed, Complete, Become, stateFile, locals, history
  <1>1. (Typed /\ OneInSlot /\ SaveInv /\ RaceInv)'
    BY DEF OneInSlot, Slot, SaveInv, RaceInv
  <1>2. (PhaseInv /\ GateInv)'
    BY DEF PhaseInv, GateInv, NothingHotStaged
  <1>3. OwnerInv'
    BY DEF OwnerInv, Claimed, Holds, Judges, Consumer, Proc
  <1>4. StrandInv'
    BY DEF StrandInv, Claimed
  <1> QED BY <1>1, <1>2, <1>3, <1>4

LEMMA HangStep == ASSUME IInv, NEW p \in Proc, Hang(p) PROVE IInv'
  <1> USE DEF IInv, Typed, Hang, Goto, stateFile, history
  <1>1. Typed'
    BY DEF Labels
  <1>2. (OneInSlot /\ SaveInv /\ RaceInv)'
    BY DEF OneInSlot, Slot, SaveInv, RaceInv, Updates
  <1>3. (PhaseInv /\ GateInv)'
    BY ProgramsAreDisjoint DEF PhaseInv, Working, GateInv, NothingHotStaged, Proc
  <1>4. OwnerInv'
    BY DEF OwnerInv, Claimed, Holds, Judges, Consumer, Proc
  <1>5. StrandInv'
    BY DEF StrandInv, Claimed, Proc
  <1> QED BY <1>1, <1>2, <1>3, <1>4, <1>5

(* The slot: a claimed command is never claimed again.                     *)
LEMMA SlotStep ==
    ASSUME IInv, NEW p \in Proc, Step(p)
    PROVE  /\ OneInSlot'
           /\ \A c \in Command : Claimed(c) =>
                  /\ Claimed(c)'
                  /\ status'[c] = "in_progress" => status[c] = "in_progress"
  <1> USE DEF IInv, Typed, OneInSlot, Slot, Claimed, Become
  <1>1. CASE UNCHANGED status
    BY <1>1
  <1>2. CASE Ingest(p)
    BY <1>2 DEF Ingest
  <1>3. CASE Pop(p)
    BY <1>3, BestIsPending DEF Pop
  <1>4. CASE PopById(p)
    BY <1>4 DEF PopById, PhaseInv, Working
  <1>5. CASE BlockInProgress(p)
    BY <1>5 DEF BlockInProgress, BlockSlot
  <1>6. CASE Saves(p)
    BY <1>1, <1>6, SaveMoves
  <1> QED BY <1>1, <1>2, <1>3, <1>4, <1>5, <1>6
             DEF Step, Saves, LoadState, Reset, Decide, CheckLimits, WriteDigest, ListPending,
                 Recheck, Count, Select, Resolve, Stage, Refuse, Confirm, Raise, history

LEMMA PhaseStep == ASSUME IInv, NEW p \in Proc, Step(p) PROVE PhaseInv'
  <1> USE ProgramsAreDisjoint DEF IInv, Typed, PhaseInv, Working, Goto, Proc
  <1>1. CASE LoadState(p) \/ Reset(p) \/ Decide(p) \/ CheckLimits(p) \/ ListPending(p)
    BY <1>1 DEF LoadState, Reset, Decide, CheckLimits, ListPending
  <1>2. CASE Saves(p)
    BY <1>2, SaveMoves DEF After, Updates
  <1>3. CASE WriteDigest(p) \/ Ingest(p)
    BY <1>3 DEF WriteDigest, Ingest
  <1>4. CASE Recheck(p) \/ Count(p) \/ Confirm(p)
    BY <1>4 DEF Recheck, Count, Confirm
  <1>5. CASE Pop(p) \/ Select(p)
    BY <1>5, BestIsPending DEF Pop, Select, Return
  <1>6. CASE Resolve(p) \/ Stage(p) \/ Refuse(p)
    BY <1>6 DEF Resolve, Stage, Refuse, Return
  <1>7. CASE BlockInProgress(p) \/ PopById(p) \/ Raise(p)
    BY <1>7 DEF BlockInProgress, PopById, Raise, Return
  <1> QED BY <1>1, <1>2, <1>3, <1>4, <1>5, <1>6, <1>7 DEF Step, Saves

LEMMA GateStep == ASSUME IInv, NEW p \in Proc, Step(p) PROVE GateInv'
  <1> USE DEF IInv, Typed, GateInv, NothingHotStaged, Goto
  <1>1. CASE LoadState(p) \/ Saves(p) \/ Reset(p) \/ Decide(p)
    BY <1>1, SaveMoves DEF LoadState, Reset, Decide, After, history
  <1>2. CASE CheckLimits(p) \/ WriteDigest(p) \/ Ingest(p) \/ ListPending(p) \/ Recheck(p)
               \/ Count(p)
    BY <1>2 DEF CheckLimits, WriteDigest, Ingest, ListPending, Recheck, Count, history
  <1>3. CASE Pop(p) \/ Select(p) \/ Confirm(p) \/ PopById(p)
    BY <1>3 DEF Pop, Select, Confirm, PopById, Return, history
  <1>4. CASE Resolve(p)
    <2>1. Payload(hand[p]) \in NeedsApproval /\ hand[p] \notin NeedsApproval =>
              {hand[p], Payload(hand[p])} \subseteq Digest
      BY CommandAssumption DEF Payload
    <2> QED BY <1>4, <2>1 DEF Resolve, Allowed, history
  <1>5. CASE Stage(p)
    BY <1>5 DEF Stage, Return
  <1>6. CASE Refuse(p)
    BY <1>6, CommandAssumption DEF Refuse, history
  <1>7. CASE BlockInProgress(p) \/ Raise(p)
    BY <1>7 DEF BlockInProgress, Raise, Return, history
  <1> QED BY <1>1, <1>2, <1>3, <1>4, <1>5, <1>6, <1>7 DEF Step, Saves

LEMMA OwnerStep == ASSUME IInv, NEW p \in Proc, Step(p) PROVE OwnerInv'
  <1>1. \A c \in Command : Claimed(c) => Claimed(c)'
    BY SlotStep
  <1> USE <1>1 DEF IInv, Typed, OwnerInv, Holds, Judges, Consumer, Goto, Proc
  <1>2. CASE LoadState(p) \/ Saves(p) \/ Reset(p) \/ Decide(p)
    BY <1>2, SaveMoves DEF LoadState, Reset, Decide, After, Updates, history
  <1>3. CASE CheckLimits(p) \/ WriteDigest(p) \/ Ingest(p) \/ ListPending(p) \/ Recheck(p)
               \/ Count(p)
    BY <1>3 DEF CheckLimits, WriteDigest, Ingest, ListPending, Recheck, Count, history
  <1>4. CASE Pop(p)
    <2>1. CASE Pending # {} /\ Slot = {}
      <3>1. PICK c \in Command : c = Best(Pending) /\ status[c] = "pending"
        BY <2>1, BestIsPending
      <3>2. status' = [status EXCEPT ![c] = "in_progress"]
        BY <1>4, <2>1, <3>1 DEF Pop, Become
      <3>3. /\ hand' = [hand EXCEPT ![p] = c]
            /\ pc' = [pc EXCEPT ![p] = "resolve"]
            /\ UNCHANGED staged
        BY <1>4, <2>1, <3>1 DEF Pop, history
      <3>4. ~Claimed(c) /\ Claimed(c)'
        BY <3>1, <3>2 DEF Claimed
      <3> QED BY <3>1, <3>3, <3>4
    <2>2. CASE ~(Pending # {} /\ Slot = {})
      BY <1>4, <2>2 DEF Pop, Return, history
    <2> QED BY <2>1, <2>2
  <1>5. CASE Select(p)
    BY <1>5, ProgramsAreDisjoint DEF Select, PhaseInv, history
  <1>6. CASE Resolve(p) \/ Refuse(p)
    BY <1>6 DEF Resolve, Refuse, history
  <1>7. CASE Stage(p)
    <2>1. /\ staged' = staged \cup {<<p, hand[p], payload[p]>>}
          /\ pc[p] = "stage" /\ UNCHANGED hand
          /\ pc' = [pc EXCEPT ![p] = pc'[p]] /\ pc'[p] \in {"confirm", "recheck", "done"}
      BY <1>7 DEF Stage, Return
    <2>2. p \in Consumer \cup Manual
      BY <2>1, ProgramsAreDisjoint DEF PhaseInv
    <2> QED BY <2>1, <2>2
  <1>8. CASE Confirm(p) \/ PopById(p) \/ BlockInProgress(p) \/ Raise(p)
    BY <1>8 DEF Confirm, PopById, BlockInProgress, Raise, Return, history
  <1> QED BY <1>2, <1>3, <1>4, <1>5, <1>6, <1>7, <1>8 DEF Step, Saves

LEMMA StrandStep == ASSUME IInv, NEW p \in Proc, Step(p) PROVE StrandInv'
  <1>1. \A c \in Command : Claimed(c) =>
            Claimed(c)' /\ (status'[c] = "in_progress" => status[c] = "in_progress")
    BY SlotStep
  <1> USE <1>1 DEF IInv, Typed, StrandInv, Goto, Proc
  <1>2. CASE p \notin Dispatcher
    <2>1. \A q \in Dispatcher : pc'[q] = pc[q] /\ hand'[q] = hand[q]
      BY <1>2, SaveMoves
         DEF Step, Saves, LoadState, Reset, Decide, CheckLimits, WriteDigest, Ingest, ListPending,
             Recheck, Count, Pop, Select, Resolve, Stage, Refuse, BlockInProgress,
             Confirm, PopById, Raise
    <2>2. staged \subseteq staged' /\ failed \subseteq failed'
      BY SaveMoves
         DEF Step, Saves, LoadState, Reset, Decide, CheckLimits, WriteDigest, Ingest, ListPending,
             Recheck, Count, Pop, Select, Resolve, Stage, Refuse, BlockInProgress,
             Confirm, PopById, Raise, history
    <2> QED BY <2>1, <2>2
  <1>3. CASE p \in Dispatcher /\ Pop(p)
    BY <1>3, BestIsPending, CommandAssumption DEF Pop, Return, Become, Claimed, history
  <1>4. CASE p \in Dispatcher /\ (LoadState(p) \/ Saves(p))
    BY <1>4, ProgramsAreDisjoint, SaveMoves DEF LoadState, After, Updates, PhaseInv, history
  <1>5. CASE p \in Dispatcher /\ (Resolve(p) \/ Refuse(p) \/ Raise(p))
    BY <1>5, ProgramsAreDisjoint DEF Resolve, Refuse, Raise, PhaseInv, history
  <1>6. CASE p \in Dispatcher /\ Stage(p)
    <2>1. /\ <<p, hand[p], payload[p]>> \in staged'
          /\ UNCHANGED <<hand, status, failed>>
          /\ staged \subseteq staged'
      BY <1>6 DEF Stage
    <2>2. pc' = [pc EXCEPT ![p] = "done"]
      BY <1>6, ProgramsAreDisjoint DEF Stage, Return
    <2>3. \E s \in staged' : s[1] = p /\ s[2] = hand[p]
      BY <2>1
    <2> QED BY <1>6, <2>1, <2>2, <2>3
  <1>7. CASE p \in Dispatcher /\ BlockInProgress(p)
    BY <1>7, ProgramsAreDisjoint DEF BlockInProgress, BlockSlot, Slot, Return, history
  <1>8. CASE p \in Dispatcher /\ ~(Pop(p) \/ LoadState(p) \/ Saves(p) \/ Resolve(p)
               \/ Refuse(p) \/ Raise(p) \/ Stage(p) \/ BlockInProgress(p))
    BY <1>8 DEF PhaseInv, Step, Saves, Reset, Decide, CheckLimits, WriteDigest, Ingest, ListPending,
                Recheck, Count, Select, Confirm, PopById
  <1> QED BY <1>2, <1>3, <1>4, <1>5, <1>6, <1>7, <1>8

THEOREM RunLoopInductive == Spec => []IInv
  <1>1. Init => IInv
    BY InitInv
  <1>2. IInv /\ [Next]_vars => IInv'
    <2> SUFFICES ASSUME IInv, [Next]_vars PROVE IInv'
      OBVIOUS
    <2>1. ASSUME NEW p \in Proc, Step(p) PROVE IInv'
      BY <2>1, TypedStep, SaveStep, SlotStep, PhaseStep, GateStep, OwnerStep, StrandStep DEF IInv
    <2>2. ASSUME NEW c \in Command, Complete(c) PROVE IInv'
      BY <2>2, CompleteStep
    <2>3. CASE UNCHANGED vars
      BY <2>3 DEF vars, stateFile, locals, history, IInv, Typed, OneInSlot, Slot, PhaseInv, GateInv,
                  NothingHotStaged, SaveInv, RaceInv, OwnerInv, StrandInv, Claimed, Holds, Judges
    <2>4. ASSUME NEW p \in Proc, Hang(p) PROVE IInv'
      BY <2>4, HangStep
    <2> QED BY <2>1, <2>2, <2>3, <2>4 DEF Next, Done
  <1> QED BY <1>1, <1>2, PTL DEF Spec

-----------------------------------------------------------------------------
(* The bridge's variables keep their types, and in_progress.json never     *)
(* holds two commands.                                                     *)
THEOREM RunLoopTyped == Spec => []TypeOK
  <1>1. ASSUME IInv PROVE Cardinality(Slot) <= 1
    <2>1. CASE Slot = {}
      BY <2>1, FS_EmptySet
    <2>2. CASE Slot # {}
      <3>1. PICK c \in Slot : Slot = {c}
        BY <1>1, <2>2 DEF IInv, OneInSlot
      <3> QED BY <3>1, FS_Singleton
    <2> QED BY <2>1, <2>2
  <1>2. IInv => TypeOK
    BY <1>1 DEF IInv, Typed, TypeOK, Labels
  <1> QED BY <1>2, RunLoopInductive, PTL

(* Nothing the gate refuses is staged, by whichever dispatchers, whatever  *)
(* the digest file is replaced by under their hands; a digest that needs   *)
(* approval is staged only for an older one's command.                     *)
THEOREM GateHolds == Spec => []NothingHotStaged
  <1>1. IInv => NothingHotStaged
    BY DEF IInv, GateInv
  <1> QED BY <1>1, RunLoopInductive, PTL

(* No two consuming dispatchers stage the same command.                    *)
THEOREM ConsumersDoNotShare == Spec => []StagedByOneConsumer
  <1>1. IInv => StagedByOneConsumer
    BY DEF IInv, OwnerInv, StagedByOneConsumer
  <1> QED BY <1>1, RunLoopInductive, PTL

(* The state can be read as long as no two saves overlap.                  *)
THEOREM ReadableUnlessRaced == Spec => []UnreadableNeedsRace
  <1>1. IInv => UnreadableNeedsRace
    BY DEF IInv, RaceInv, UnreadableNeedsRace
  <1> QED BY <1>1, RunLoopInductive, PTL

(* A consuming dispatch does not leave its command in the slot unnoticed.  *)
THEOREM NothingIsStranded == Spec => []NothingStranded
  <1>1. IInv => NothingStranded
    BY DEF IInv, StrandInv, NothingStranded
  <1> QED BY <1>1, RunLoopInductive, PTL

(* Blocking the slot blocks the judged command, or finds it closed.        *)
THEOREM DispatchersBlockTheirOwn == Spec => BlocksItsOwn
  <1>1. ASSUME IInv, Next, NEW p \in Proc, NEW c \in Command,
               pc[p] = "block_queue", status[c] # "blocked", status'[c] = "blocked"
        PROVE  c = hand[p] \/ status[hand[p]] \in {"completed", "blocked"}
    <2>1. c \in Slot
      <3>1. ASSUME NEW q \in Proc, Step(q) PROVE c \in Slot
        BY <1>1, <3>1, SaveMoves
           DEF Step, Saves, LoadState, Reset, Decide, CheckLimits, WriteDigest, Ingest, ListPending,
               Recheck, Count, Pop, Select, Resolve, Stage, Refuse, Confirm, PopById,
               Raise, BlockInProgress, BlockSlot, Become, IInv, Typed
      <3>2. ASSUME NEW d \in Command, Complete(d) PROVE FALSE
        BY <1>1, <3>2 DEF Complete, Become, IInv, Typed
      <3>3. CASE Done
        BY <1>1, <3>3 DEF Done, vars
      <3>4. ASSUME NEW q \in Proc, Hang(q) PROVE FALSE
        BY <1>1, <3>4 DEF Hang
      <3> QED BY <1>1, <3>1, <3>2, <3>3, <3>4 DEF Next
    <2>2. p \in Consumer
      BY <1>1 DEF IInv, PhaseInv, Working, Consumer, Proc
    <2>3. hand[p] \in Command /\ Claimed(hand[p])
      BY <1>1, <2>2 DEF IInv, OwnerInv, Judges
    <2> QED BY <1>1, <2>1, <2>3 DEF IInv, OneInSlot, Slot, Claimed
  <1>2. IInv /\ [Next]_vars =>
            [\A p \in Proc, c \in Command :
                 pc[p] = "block_queue" /\ status[c] # "blocked" /\ status'[c] = "blocked" =>
                     c = hand[p] \/ status[hand[p]] \in {"completed", "blocked"}]_vars
    BY <1>1
  <1> QED BY <1>2, RunLoopInductive, PTL DEF Spec, BlocksItsOwn

-----------------------------------------------------------------------------
(* A loop of which the dispatch has paused the bridge.                     *)
Held == {"block_queue", "recheck", "error", "finish", "done"}

(* What a process other than an owner who resumes saves while the bridge   *)
(* is paused by a loop's own dispatch is a pause.                          *)
LEMMA SavesPause ==
    ASSUME IInv, LoneInv, blockedBy # {}, NEW p \in Proc, handle[p] # "none",
           pc[p] \notin {"resume", "reset"}
    PROVE  Saved(p) = TRUE
  <1>1. view[p] # Nothing /\ pc[p] \in Updates
    BY DEF IInv, SaveInv
  <1>2. CASE p \in Loop
    <2>1. PICK q \in blockedBy : TRUE
      OBVIOUS
    <2>2. p = q
      BY <1>1, <1>2, <2>1 DEF LoneInv, Updates
    <2>3. view[p] # FALSE /\ view[p] \in BOOLEAN
      BY <1>1, <2>2 DEF LoneInv, IInv, Typed
    <2> QED BY <2>3, <1>1, <1>2 DEF Saved, IInv, PhaseInv
  <1>3. CASE p \notin Loop
    BY <1>1, <1>3 DEF Saved, IInv, PhaseInv, Working, Updates, Proc
  <1> QED BY <1>2, <1>3

(* No loop comes back from its end.                                        *)
LEMMA OneLiveLoop ==
    ASSUME IInv, LoneInv, NEW p \in Proc, Step(p)
    PROVE  /\ \A q \in Proc : pc[q] = "done" => pc'[q] = "done"
           /\ \A q, r \in Loop : pc'[q] # "done" /\ pc'[r] # "done" => q = r
  <1>1. /\ pc[p] # "done"
        /\ \A q \in Proc : q # p => pc'[q] = pc[q]
    BY SaveMoves
       DEF IInv, Typed, SaveInv, Updates, Goto, OpenTemp, WriteTemp, Publish, StateFails, GiveUp,
           Unusable, Killed,
           Step, Saves, LoadState, Reset, Decide, CheckLimits, WriteDigest, Ingest, ListPending,
           Recheck, Count, Pop, Select, Resolve, Stage, Refuse, BlockInProgress, Confirm, PopById,
           Raise
  <1>2. \A q \in Proc : pc[q] = "done" => pc'[q] = "done"
    BY <1>1
  <1> QED BY <1>2 DEF LoneInv, Proc

LEMMA LoneStep == ASSUME IInv, LoneInv, NEW p \in Proc, Step(p) PROVE LoneInv'
  <1>1. /\ \A q \in Proc : pc[q] = "done" => pc'[q] = "done"
        /\ \A q, r \in Loop : pc'[q] # "done" /\ pc'[r] # "done" => q = r
    BY OneLiveLoop
  <1>2. ASSUME /\ blockedBy' # {} => paused' # FALSE /\ tmp' # FALSE
               /\ \A q \in blockedBy' : /\ pc'[q] \in Held /\ view'[q] # FALSE
                                        /\ \A r \in Loop \ {q} : pc'[r] = "done"
        PROVE  LoneInv'
    BY <1>1, <1>2 DEF LoneInv, Held
  <1> USE ContentsAssumption DEF IInv, Typed, Goto, Proc, Held
  <1>3. CASE LoadState(p)
    BY <1>1, <1>2, <1>3 DEF LoadState, LoneInv, history
  <1>4. CASE OpenTemp(p)
    BY <1>1, <1>2, <1>4 DEF OpenTemp, LoneInv
  <1>5. CASE WriteTemp(p)
    <2>1. CASE pc[p] \in {"resume", "reset"} \/ blockedBy = {}
      BY <1>1, <1>2, <1>5, <2>1 DEF WriteTemp
    <2>2. CASE pc[p] \notin {"resume", "reset"} /\ blockedBy # {}
      <3>1. Saved(p) = TRUE
        BY <1>5, <2>2, SavesPause DEF WriteTemp
      <3>2. paused' # FALSE /\ tmp' # FALSE
        BY <1>5, <2>2, <3>1 DEF WriteTemp, Overwritten, LoneInv
      <3> QED BY <1>1, <1>2, <1>5, <2>2, <3>2 DEF WriteTemp, LoneInv
    <2> QED BY <2>1, <2>2
  <1>6. CASE Publish(p)
    <2>1. pc[p] \in Updates
      BY <1>6 DEF Publish, SaveInv
    <2>2. CASE blockedBy' = {}
      BY <1>1, <1>2, <2>2
    <2>3. CASE blockedBy' # {} /\ p \in blockedBy' /\ p \notin blockedBy
      <3>1. pc[p] = "block" /\ tmp = TRUE /\ p \in Loop
        BY <1>6, <2>3 DEF Publish
      <3>2. pc' = [pc EXCEPT ![p] = "block_queue"]
        BY <1>6, <3>1, ProgramsAreDisjoint DEF Publish, After
      <3>3. \A r \in Loop \ {p} : pc'[r] = "done"
        BY <1>1, <3>1, <3>2
      <3>4. blockedBy' = {p}
        BY ZenonT(60), <1>6, <3>1, <3>2, <3>3 DEF Publish, LoneInv
      <3> QED BY <1>1, <1>2, <1>6, <3>1, <3>2, <3>3, <3>4 DEF Publish
    <2>4. CASE blockedBy' # {} /\ (p \in blockedBy \/ p \notin blockedBy')
      <3>1. blockedBy' = blockedBy
        <4>1. pc[p] \notin {"resume", "reset"}
          BY <1>6, <2>4 DEF Publish
        <4>2. blockedBy' = IF tmp = TRUE /\ pc[p] = "block" THEN blockedBy \cup ({p} \cap Loop)
                          ELSE blockedBy
          BY <1>6, <4>1 DEF Publish
        <4>3. blockedBy \subseteq blockedBy' /\ blockedBy' \subseteq blockedBy \cup {p}
          BY <4>2
        <4> QED BY <2>4, <4>3
      <3>2. \A q \in blockedBy' : pc'[q] \in Held
        BY <1>6, <2>1, <2>4, <3>1 DEF Publish, LoneInv, After, Updates
      <3> QED BY ZenonT(60), <1>1, <1>2, <1>6, <2>4, <3>1, <3>2 DEF Publish, LoneInv
    <2> QED BY <2>2, <2>3, <2>4
  <1>7. CASE StateFails(p) \/ Killed(p)
    <2>1. PICK label \in {"done", "error"} : GiveUp(p, label)
      BY <1>7 DEF StateFails, Killed
    <2>2. /\ UNCHANGED <<paused, tmp, blockedBy>>
          /\ pc' = [pc EXCEPT ![p] = label] /\ view' = [view EXCEPT ![p] = Nothing]
      BY <2>1 DEF GiveUp
    <2> QED BY <1>1, <1>2, <2>1, <2>2 DEF LoneInv
  <1>8. CASE Reset(p)
    <2>1. p \notin Loop
      BY <1>8 DEF Reset, PhaseInv
    <2> QED BY <1>1, <1>2, <1>8, <2>1 DEF Reset, LoneInv, history
  <1>9. CASE Recheck(p)
    <2>1. /\ UNCHANGED <<paused, tmp, view, blockedBy>>
          /\ pc' = [pc EXCEPT ![p] = IF paused = TRUE THEN "finish" ELSE "count"]
          /\ paused \in BOOLEAN
      BY <1>9 DEF Recheck, history, stateFile
    <2>2. blockedBy # {} => paused = TRUE
      BY <2>1 DEF LoneInv
    <2> QED BY <1>1, <1>2, <2>1, <2>2 DEF LoneInv
  <1>10. CASE BlockInProgress(p) \/ Raise(p)
    <2>1. /\ UNCHANGED <<paused, tmp, view, blockedBy>>
          /\ pc' = [pc EXCEPT ![p] = pc'[p]] /\ pc'[p] \in {"recheck", "error", "done"}
      BY <1>10 DEF BlockInProgress, Raise, Return, history, stateFile
    <2> QED BY <1>1, <1>2, <2>1 DEF LoneInv
  <1>11. CASE Decide(p) \/ CheckLimits(p) \/ WriteDigest(p) \/ Ingest(p) \/ ListPending(p)
               \/ Count(p) \/ Pop(p) \/ Select(p) \/ Resolve(p) \/ Stage(p) \/ Refuse(p)
               \/ Confirm(p) \/ PopById(p)
    <2>1. pc[p] \notin Held
      BY <1>11 DEF Decide, CheckLimits, WriteDigest, Ingest, ListPending, Count, Pop, Select,
                  Resolve, Stage, Refuse, Confirm, PopById
    <2>2. /\ UNCHANGED <<paused, tmp, view, blockedBy>>
          /\ \A q \in Proc : q # p => pc'[q] = pc[q]
      BY <1>11 DEF Decide, CheckLimits, WriteDigest, Ingest, ListPending, Count, Pop, Select,
                  Resolve, Stage, Refuse, Confirm, PopById, history, stateFile
    <2>3. p \notin blockedBy
      BY <2>1 DEF LoneInv
    <2>4. \A q \in blockedBy : q \in Proc /\ q # p /\ pc'[q] = pc[q]
      BY <2>2, <2>3
    <2>5. \A q \in blockedBy : \A r \in Loop \ {q} : pc'[r] = "done"
      BY <1>1, <2>4 DEF LoneInv
    <2> QED BY <1>2, <2>2, <2>4, <2>5 DEF LoneInv
  <1> QED BY <1>3, <1>4, <1>5, <1>6, <1>7, <1>8, <1>9, <1>10, <1>11 DEF Step

(* Where a cast has one run loop at most, a loop whose own dispatch paused *)
(* the bridge runs to its end unless somebody resumes: whoever else saves  *)
(* the state, stages or pauses meanwhile, and however the saves overlap.   *)
THEOREM OwnBlockStopsLoop ==
    ASSUME \A cast \in Casts : \A p, q \in cast \cap Loop : p = q
    PROVE  Spec => []StopsAfterOwnBlock
  <1>1. ASSUME Init PROVE LoneInv
    <2>1. PICK cast \in Casts : pc = [p \in Proc |-> IF p \in cast THEN FirstStep(p) ELSE "done"]
      BY <1>1 DEF Init
    <2>2. \A p \in Loop : pc[p] # "done" => p \in cast
      BY <2>1 DEF Proc
    <2> QED BY <1>1, <2>2 DEF Init, LoneInv
  <1>2. IInv /\ LoneInv /\ [Next]_vars => LoneInv'
    <2> SUFFICES ASSUME IInv, LoneInv, [Next]_vars PROVE LoneInv'
      OBVIOUS
    <2>1. ASSUME NEW p \in Proc, Step(p) PROVE LoneInv'
      BY <2>1, LoneStep
    <2>2. ASSUME NEW c \in Command, Complete(c) PROVE LoneInv'
      BY <2>2 DEF Complete, stateFile, locals, history, LoneInv
    <2>3. CASE UNCHANGED vars
      BY <2>3 DEF vars, stateFile, locals, history, LoneInv
    <2>4. ASSUME NEW p \in Proc, Hang(p) PROVE LoneInv'
      BY <2>4, ContentsAssumption DEF Hang, Goto, stateFile, history, LoneInv, IInv, Typed, Proc
    <2> QED BY <2>1, <2>2, <2>3, <2>4 DEF Next, Done
  <1>3. LoneInv => StopsAfterOwnBlock
    BY DEF LoneInv, StopsAfterOwnBlock
  <1> QED BY <1>1, <1>2, <1>3, RunLoopInductive, PTL DEF Spec
=============================================================================
