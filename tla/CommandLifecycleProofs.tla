----------------------- MODULE CommandLifecycleProofs -----------------------
(***************************************************************************)
(* CommandQueue implements CommandLifecycle, and drops no malformed line   *)
(* before it is in the quarantine: for any commands, keys, processes and   *)
(* number of faults.                                                       *)
(***************************************************************************)
EXTENDS CommandQueueProofs

USE CommandAssumption DEF Status, Terminal, Writing

(* Where a command is tells its status.                                    *)
Described ==
    \A c \in Command :
        /\ \A s \in Status : c \in store[s] => StatusOf(c) = s
        /\ \A p \in Proc :
              /\ pc[p] = "pop_slot" /\ hand[p] = c => StatusOf(c) = "pending"
              /\ pc[p] = "append" /\ hand[p] = c => StatusOf(c) = from[p]
        /\ ~Placed(c) => StatusOf(c) = "absent"

LEMMA StatusKnown == IInv => Described
<1> SUFFICES ASSUME IInv, NEW c \in Command
             PROVE  /\ \A s \in Status : c \in store[s] => StatusOf(c) = s
                    /\ \A p \in Proc :
                          /\ pc[p] = "pop_slot" /\ hand[p] = c => StatusOf(c) = "pending"
                          /\ pc[p] = "append" /\ hand[p] = c => StatusOf(c) = from[p]
                    /\ ~Placed(c) => StatusOf(c) = "absent"
  BY DEF Described
<1> DEFINE isFiled == \E s \in Status : c \in store[s]
           isPopped == \E p \in Proc : pc[p] = "pop_slot" /\ hand[p] = c
           isTaken == \E p \in Proc : pc[p] = "append" /\ hand[p] = c
           file == CHOOSE s \in Status : c \in store[s]
           taker == CHOOSE p \in Proc : pc[p] = "append" /\ hand[p] = c
<1>1. StatusOf(c) = CASE isFiled -> file
                      [] isPopped -> "pending"
                      [] isTaken -> from[taker]
                      [] OTHER -> "absent"
  BY DEF StatusOf
<1>2. ASSUME NEW p \in Proc, InTransit(p), hand[p] = c
      PROVE  /\ ~isFiled
             /\ \A q \in Proc : InTransit(q) => q = p
  <2>1. KeyFree(keyOf[c])
    BY <1>2 DEF IInv, PhaseInv, Phase, InTransit
  <2>2. \A q \in Proc : InTransit(q) => lock = q
    BY DEF IInv, LockInv, InTransit, Critical, Writing
  <2>3. QED
    BY <1>2, <2>1, <2>2 DEF KeyFree
<1>3. ASSUME NEW s \in Status, c \in store[s] PROVE StatusOf(c) = s
  <2>1. isFiled /\ ~isPopped /\ ~isTaken
    BY <1>2, <1>3 DEF InTransit
  <2>2. \A t \in Status : c \in store[t] => t = s
    BY <1>3 DEF IInv, FilesUnique
  <2>3. file = s
    BY <1>3, <2>2
  <2> HIDE DEF isFiled, isPopped, isTaken, file, taker
  <2>4. QED
    BY <1>1, <2>1, <2>3
<1>4. ASSUME NEW p \in Proc, pc[p] = "pop_slot", hand[p] = c PROVE StatusOf(c) = "pending"
  <2>1. ~isFiled /\ isPopped /\ ~isTaken
    BY <1>2, <1>4 DEF InTransit
  <2> HIDE DEF isFiled, isPopped, isTaken, file, taker
  <2>2. QED
    BY <1>1, <2>1
<1>5. ASSUME NEW p \in Proc, pc[p] = "append", hand[p] = c PROVE StatusOf(c) = from[p]
  <2>1. ~isFiled /\ ~isPopped /\ isTaken
    BY <1>2, <1>5 DEF InTransit
  <2>2. \A q \in Proc : pc[q] = "append" => q = p
    BY <1>2, <1>5 DEF InTransit
  <2>3. taker = p
    BY <1>5, <2>2
  <2> HIDE DEF isFiled, isPopped, isTaken, file, taker
  <2>4. QED
    BY <1>1, <2>1, <2>3
<1>6. ASSUME ~Placed(c) PROVE StatusOf(c) = "absent"
  <2>1. ~isFiled /\ ~isPopped /\ ~isTaken
    BY <1>6 DEF Placed, InTransit
  <2> HIDE DEF isFiled, isPopped, isTaken, file, taker
  <2>2. QED
    BY <1>1, <2>1
<1>7. QED
  BY <1>3, <1>4, <1>5, <1>6

LEMMA StatusKnownNext == IInv' => Described'
BY StatusKnown, PTL

(* A step that leaves the files alone and carries nothing between them     *)
(* changes no status.                                                      *)
LEMMA QuietStatus ==
    ASSUME IInv, IInv', NEW p \in Proc, OthersSame(p), UNCHANGED store,
           ~InTransit(p), ~InTransit(p)', NEW c \in Command
    PROVE  StatusOf(c)' = StatusOf(c)
<1>1. Described /\ Described'
  BY StatusKnown, StatusKnownNext
<1>2. ASSUME NEW s \in Status, c \in store[s] PROVE StatusOf(c)' = StatusOf(c)
  BY <1>1, <1>2 DEF Described
<1>3. ASSUME NEW q \in Proc, InTransit(q), hand[q] = c PROVE StatusOf(c)' = StatusOf(c)
  <2>1. pc'[q] = pc[q] /\ hand'[q] = hand[q] /\ from'[q] = from[q]
    BY <1>3 DEF OthersSame
  <2>2. QED
    BY <1>1, <1>3, <2>1 DEF Described, InTransit
<1>4. CASE ~Placed(c)
  <2>1. ~Placed(c)'
    BY <1>4 DEF Placed, InTransit, OthersSame
  <2>2. QED
    BY <1>1, <1>4, <2>1 DEF Described
<1>5. QED
  BY <1>2, <1>3, <1>4 DEF Placed

(* Of a write only the command in hand can get another status.             *)
LEMMA OtherStatus ==
    ASSUME IInv, IInv', NEW p \in Proc, pc[p] \in Writing, OthersSame(p), NEW c \in Command,
           c # hand[p], hand'[p] \in {hand[p], NoCommand},
           \A s \in Status : c \in store'[s] <=> c \in store[s]
    PROVE  StatusOf(c)' = StatusOf(c)
<1>1. Described /\ Described'
  BY StatusKnown, StatusKnownNext
<1>2. ASSUME NEW s \in Status, c \in store[s] PROVE StatusOf(c)' = StatusOf(c)
  BY <1>1, <1>2 DEF Described
<1>3. CASE \A s \in Status : c \notin store[s]
  <2>1. ~Placed(c)
    BY <1>3, WriterAlone DEF Placed, InTransit, Critical, Writing
  <2>2. ~Placed(c)'
    BY <1>3, WriterAlone, CommandAssumption
       DEF Placed, InTransit, Critical, Writing, OthersSame
  <2>3. QED
    BY <1>1, <2>1, <2>2 DEF Described
<1>4. QED
  BY <1>2, <1>3

Statuses == [c \in Command |-> StatusOf(c)]

LEMMA StatusesType == ASSUME IInv PROVE Statuses \in [Command -> {"absent"} \cup Status]
<1>1. ASSUME NEW c \in Command PROVE StatusOf(c) \in {"absent"} \cup Status
  BY StatusKnown DEF Described, Placed, InTransit, IInv, TypeInv, TypeOK, Status
<1>2. QED
  BY <1>1 DEF Statuses

(* The others' statuses after a write, whichever file gains or loses the   *)
(* command in hand.                                                        *)
LEMMA WriteStatuses ==
    ASSUME IInv, IInv', NEW p \in Proc, pc[p] \in Writing, Write(p), OthersSame(p),
           hand'[p] \in {hand[p], NoCommand},
           NEW c \in Command, c = hand[p], NEW s, StatusOf(c)' = s
    PROVE  Statuses' = [Statuses EXCEPT ![c] = s]
<1>1. \A d \in Command \ {c} : \A t \in Status : d \in store'[t] <=> d \in store[t]
  BY WriteEffect DEF Grows, Writing, Status, Terminal, IInv, TypeInv, TypeOK
<1>2. \A d \in Command \ {c} : StatusOf(d)' = StatusOf(d)
  BY <1>1, OtherStatus
<1>3. QED
  BY <1>2 DEF Statuses

(* The slot is empty while a pop is about to fill it, and a key is free    *)
(* while its command is about to be enqueued.                              *)
LEMMA AddMaps ==
    ASSUME IInv, IInv', NEW p \in Proc, EnqueueWrite(p) \/ RepairWrite(p)
    PROVE  \E c \in Command : Lifecycle!Enqueue(c)
<1>1. pc[p] \in {"enqueue", "repair"} /\ Write(p) /\ UNCHANGED <<deliveries, faults>>
  BY DEF EnqueueWrite, RepairWrite
<1>2. OthersSame(p) /\ hand'[p] = NoCommand
  BY DEF EnqueueWrite, RepairWrite, Goto, Hold, OthersSame, IInv, TypeInv, TypeOK
<1>3. PICK c \in Command : c = hand[p]
  BY <1>1, WriterAlone DEF Writing
<1>4. KeyFree(keyOf[c]) /\ \A q \in Proc : ~InTransit(q)
  BY <1>1, <1>3, WriterAlone DEF Writing, Phase, InTransit, Critical
<1>5. \A d \in Command : keyOf[d] = keyOf[c] => StatusOf(d) = "absent"
  BY <1>4, StatusKnown DEF Described, Placed, KeyFree
<1>6. c \in store'["pending"]
  BY <1>1, <1>3, WriteEffect DEF Writing, Grows, Status, IInv, TypeInv, TypeOK
<1>7. StatusOf(c)' = "pending"
  BY <1>6, StatusKnownNext DEF Described, Status
<1>8. Statuses' = [Statuses EXCEPT ![c] = "pending"]
  BY <1>1, <1>2, <1>3, <1>7, WriteStatuses DEF Writing
<1>9. QED
  BY <1>1, <1>5, <1>8 DEF Lifecycle!Enqueue, Statuses

LEMMA PopPendingMaps ==
    ASSUME IInv, IInv', NEW p \in Proc, PopWritePending(p)
    PROVE  Statuses' = Statuses /\ UNCHANGED <<deliveries, faults>>
<1>1. pc[p] = "pop_pending" /\ Write(p) /\ UNCHANGED <<deliveries, faults>>
  BY DEF PopWritePending, history
<1>2. OthersSame(p) /\ hand'[p] = hand[p] /\ pc'[p] = "pop_slot"
  BY DEF PopWritePending, Goto, OthersSame, IInv, TypeInv, TypeOK
<1>3. PICK c \in Command : c = hand[p]
  BY <1>1, WriterAlone DEF Writing
<1>4. StatusOf(c) = "pending"
  BY <1>1, <1>3, WriterAlone, StatusKnown DEF Writing, Phase, Described, Status
<1>5. StatusOf(c)' = "pending"
  BY <1>2, <1>3, StatusKnownNext DEF Described
<1>6. Statuses' = [Statuses EXCEPT ![c] = "pending"]
  BY <1>1, <1>2, <1>3, <1>5, WriteStatuses DEF Writing
<1>7. QED
  BY <1>1, <1>4, <1>6 DEF Statuses

LEMMA PopSlotMaps ==
    ASSUME IInv, IInv', NEW p \in Proc, PopWriteSlot(p)
    PROVE  \E c \in Command : Lifecycle!Pop(c)
<1>1. pc[p] = "pop_slot" /\ Write(p)
  BY DEF PopWriteSlot
<1>2. OthersSame(p) /\ hand'[p] = NoCommand
  BY DEF PopWriteSlot, Goto, Hold, OthersSame, IInv, TypeInv, TypeOK
<1>3. PICK c \in Command : c = hand[p]
  BY <1>1, WriterAlone DEF Writing
<1>4. /\ deliveries' = [deliveries EXCEPT ![keyOf[c]] = @ + 1]
      /\ faults' = faults
  BY <1>3 DEF PopWriteSlot
<1>5. StatusOf(c) = "pending"
  BY <1>1, <1>3, StatusKnown DEF Described
<1>6. \A d \in Command : StatusOf(d) # "in_progress"
  <2>1. /\ store["in_progress"] = {}
        /\ \A q \in Proc : InTransit(q) => q = p
    BY <1>1, WriterAlone DEF Writing, Phase, InTransit, Critical
  <2>2. ASSUME NEW d \in Command, NEW s \in Status, d \in store[s]
        PROVE  StatusOf(d) # "in_progress"
    BY <2>1, <2>2, StatusKnown DEF Described
  <2>3. ASSUME NEW d \in Command, \A s \in Status : d \notin store[s], d # c
        PROVE  StatusOf(d) = "absent"
    BY <2>1, <2>3, <1>3, StatusKnown DEF Described, Placed
  <2>4. QED
    BY <2>2, <2>3, <1>5
<1>7. c \in store'["in_progress"]
  BY <1>1, <1>3, WriteEffect DEF Writing, Grows, Status, IInv, TypeInv, TypeOK
<1>8. StatusOf(c)' = "in_progress"
  BY <1>7, StatusKnownNext DEF Described, Status
<1>9. Statuses' = [Statuses EXCEPT ![c] = "in_progress"]
  BY <1>1, <1>2, <1>3, <1>8, WriteStatuses DEF Writing
<1>10. QED
  BY <1>4, <1>5, <1>6, <1>9 DEF Lifecycle!Pop, Statuses

LEMMA FinishTakeMaps ==
    ASSUME IInv, IInv', NEW p \in Proc, FinishTake(p)
    PROVE  Statuses' = Statuses /\ UNCHANGED <<deliveries, faults>>
<1>1. pc[p] = "take" /\ Write(p) /\ UNCHANGED <<deliveries, faults>>
  BY DEF FinishTake, history
<1>2. OthersSame(p) /\ hand'[p] = hand[p] /\ pc'[p] = "append" /\ from'[p] = from[p]
  BY DEF FinishTake, Goto, OthersSame, IInv, TypeInv, TypeOK
<1>3. PICK c \in Command, s \in {"pending", "in_progress"} : c = hand[p] /\ s = from[p]
  BY <1>1, WriterAlone DEF Writing, IInv, TypeInv, TypeOK
<1>4. StatusOf(c) = s
  BY <1>1, <1>3, WriterAlone, StatusKnown DEF Writing, Phase, Described, Status
<1>5. StatusOf(c)' = s
  BY <1>2, <1>3, StatusKnownNext DEF Described
<1>6. Statuses' = [Statuses EXCEPT ![c] = s]
  BY <1>1, <1>2, <1>3, <1>5, WriteStatuses DEF Writing
<1>7. QED
  BY <1>1, <1>4, <1>6 DEF Statuses

LEMMA FinishAppendMaps ==
    ASSUME IInv, IInv', NEW p \in Proc, FinishAppend(p)
    PROVE  \E c \in Command, s \in Terminal : Lifecycle!Finish(c, s)
<1>1. pc[p] = "append" /\ Write(p) /\ UNCHANGED <<deliveries, faults>>
  BY DEF FinishAppend, history
<1>2. OthersSame(p) /\ hand'[p] = NoCommand
  BY DEF FinishAppend, Goto, Hold, OthersSame, IInv, TypeInv, TypeOK
<1>3. PICK c \in Command, s \in Terminal : c = hand[p] /\ s = to[p]
  BY <1>1, WriterAlone DEF Writing, IInv, TypeInv, TypeOK
<1>4. StatusOf(c) \in {"pending", "in_progress"}
  BY <1>1, <1>3, StatusKnown DEF Described, IInv, TypeInv, TypeOK
<1>5. c \in store'[s]
  BY <1>1, <1>3, WriteEffect DEF Writing, Grows, Status, Terminal, IInv, TypeInv, TypeOK
<1>6. StatusOf(c)' = s
  BY <1>3, <1>5, StatusKnownNext DEF Described, Status
<1>7. Statuses' = [Statuses EXCEPT ![c] = s]
  BY <1>1, <1>2, <1>3, <1>6, WriteStatuses DEF Writing
<1>8. QED
  BY <1>1, <1>3, <1>4, <1>7 DEF Lifecycle!Finish, Statuses

(* A fault loses what is in no file any more.                              *)
LEMMA FaultMaps ==
    ASSUME IInv, IInv', NEW p \in Proc, Faults(p)
    PROVE  \E S \in SUBSET Command : Lifecycle!Lose(S)
<1>1. ASSUME NEW c \in Command PROVE StatusOf(c)' \in {"absent", StatusOf(c)}
  <2>1. ASSUME NEW s \in Status, c \in store'[s] PROVE StatusOf(c)' = StatusOf(c)
    <3>1. c \in store[s]
      BY <2>1, FaultEffect DEF Shrinks
    <3>2. QED
      BY <2>1, <3>1, StatusKnown, StatusKnownNext DEF Described
  <2>2. CASE \A s \in Status : c \notin store'[s]
    <3>1. ~Placed(c)'
      BY <2>2, FaultEffect DEF Placed, InTransit, Critical, Writing
    <3>2. QED
      BY <3>1, StatusKnownNext DEF Described
  <2>3. QED
    BY <2>1, <2>2
<1> DEFINE S == {c \in Command : StatusOf(c)' = "absent"}
<1>2. Statuses' = [c \in Command |-> IF c \in S THEN "absent" ELSE Statuses[c]]
  BY <1>1 DEF Statuses
<1>3. Lifecycle!Lose(S)
  BY <1>2, FaultEffect DEF Lifecycle!Lose, Statuses
<1>4. QED
  BY <1>3

LEMMA QuietMaps ==
    ASSUME IInv, IInv', NEW p \in Proc,
           Begin(p) \/ Call(p) \/ LockTimeout(p) \/ RepairNext(p) \/ Release(p)
    PROVE  Statuses' = Statuses /\ UNCHANGED <<deliveries, faults>>
<1>1. UNCHANGED store /\ UNCHANGED <<deliveries, faults>>
  BY DEF Begin, Enqueue, PopById, Lookup, PopNext, Finish, List, Repair, Call, LockTimeout,
     RepairNext, Release, files, history
<1>2. OthersSame(p)
  <2>1. CASE Begin(p)
    BY <2>1, BeginFrame
  <2>2. CASE Call(p) \/ LockTimeout(p) \/ RepairNext(p) \/ Release(p)
    BY <2>2 DEF Call, LockTimeout, RepairNext, Release, Leave, Goto, Hold, OthersSame, IInv,
       TypeInv, TypeOK
  <2>3. QED
    BY <2>1, <2>2
<1>3. pc[p] \in {"idle", "waiting", "repair_next", "unlock"}
  BY DEF Begin, Enqueue, PopById, Lookup, PopNext, Finish, List, Repair, Call, LockTimeout,
     RepairNext, Release, Acquire
<1>4. pc'[p] \notin {"pop_slot", "append"}
  BY ZenonT(60), <1>3
     DEF Begin, Enqueue, PopById, Lookup, PopNext, Finish, List, Repair, Call, LockTimeout,
         RepairNext, Release, MarkInProgress, NothingToDo, Leave, Goto, IInv, TypeInv, TypeOK
<1>5. ~InTransit(p) /\ ~InTransit(p)'
  BY <1>3, <1>4 DEF InTransit
<1>6. \A c \in Command : StatusOf(c)' = StatusOf(c)
  BY <1>1, <1>2, <1>5, QuietStatus
<1>7. QED
  BY <1>1, <1>6 DEF Statuses

LEMMA NextMaps == IInv /\ IInv' /\ [Next]_vars => [Lifecycle!Next]_(Lifecycle!vars)
<1> SUFFICES ASSUME IInv, IInv', [Next]_vars PROVE [Lifecycle!Next]_(Lifecycle!vars)
  OBVIOUS
<1>1. Statuses' = Statuses /\ UNCHANGED <<deliveries, faults>> => UNCHANGED Lifecycle!vars
  BY DEF Statuses, Lifecycle!vars
<1>2. CASE UNCHANGED vars
  <2>1. UNCHANGED <<store, pc, hand, from, deliveries, faults>>
    BY <1>2 DEF vars, files, locals, history
  <2>2. \A c \in Command : StatusOf(c)' = StatusOf(c)
    BY <2>1, StatusKnown, StatusKnownNext DEF Described, Placed, InTransit
  <2>3. QED
    BY <1>1, <2>1, <2>2 DEF Statuses
<1>3. ASSUME NEW p \in Proc, Call(p) \/ Step(p) PROVE [Lifecycle!Next]_(Lifecycle!vars)
  <2>1. CASE Begin(p) \/ Call(p) \/ LockTimeout(p) \/ RepairNext(p) \/ Release(p)
    BY <1>1, <2>1, QuietMaps
  <2>2. CASE EnqueueWrite(p) \/ RepairWrite(p)
    BY <2>2, AddMaps DEF Lifecycle!Next
  <2>3. CASE PopWritePending(p)
    BY <1>1, <2>3, PopPendingMaps
  <2>4. CASE PopWriteSlot(p)
    BY <2>4, PopSlotMaps DEF Lifecycle!Next
  <2>5. CASE FinishTake(p)
    BY <1>1, <2>5, FinishTakeMaps
  <2>6. CASE FinishAppend(p)
    BY <2>6, FinishAppendMaps DEF Lifecycle!Next, Terminal
  <2>7. QED
    BY <1>3, <2>1, <2>2, <2>3, <2>4, <2>5, <2>6 DEF Step, Continue
<1>4. ASSUME NEW p \in Proc, Faults(p) PROVE [Lifecycle!Next]_(Lifecycle!vars)
  BY <1>4, FaultMaps DEF Lifecycle!Next
<1>5. QED
  BY <1>2, <1>3, <1>4 DEF Next

(* Every behaviour of the queue, crashes and failed writes included, is    *)
(* one of the lifecycle, in which each operation is one atomic step.       *)
THEOREM QueueImplementsLifecycle == Spec => ImplementsLifecycle
<1>1. Init => Lifecycle!Init
  <2> SUFFICES ASSUME Init PROVE Lifecycle!Init
    OBVIOUS
  <2>1. IInv
    BY InitIInv
  <2>2. \A c \in Command : StatusOf(c) = "absent"
    BY <2>1, StatusKnown DEF Init, Described, Placed, InTransit
  <2>3. QED
    BY <2>2 DEF Init, Lifecycle!Init
<1>2. QED
  BY <1>1, Inductive, NextMaps, PTL DEF Spec, ImplementsLifecycle, Lifecycle!Spec

-----------------------------------------------------------------------------
(* What a process is going to rewrite it has read, and nobody else has     *)
(* damaged it since.                                                       *)
ToWrite(p) == {Target(p)} \cup (IF pc[p] = "pop_pending" THEN {"in_progress"} ELSE {})

ReadFirst(p) == pc[p] \in Writing => \A t \in torn : t[1] \in ToWrite(p) => t[2] \in quarantine

ReadInv == \A p \in Proc : ReadFirst(p)

LEMMA QuietReads ==
    ASSUME IInv, ReadInv, NEW p \in Proc,
           Begin(p) \/ Call(p) \/ LockTimeout(p) \/ RepairNext(p) \/ Release(p)
    PROVE  ReadInv' /\ torn' = torn
<1>1. torn' = torn /\ quarantine \subseteq quarantine'
  BY DEF Begin, Enqueue, PopById, Lookup, PopNext, Finish, List, Repair, Call, LockTimeout,
     RepairNext, Release, Read, files
<1>2. ASSUME NEW q \in Proc \ {p} PROVE ReadFirst(q)'
  <2>1. pc'[q] = pc[q] /\ from'[q] = from[q] /\ to'[q] = to[q]
    <3>1. CASE Begin(p)
      BY <3>1 DEF Begin, Enqueue, PopById, Lookup, PopNext, Finish, List, Repair,
         MarkInProgress, NothingToDo, Goto, Hold, IInv, TypeInv, TypeOK
    <3>2. CASE Call(p) \/ LockTimeout(p) \/ RepairNext(p) \/ Release(p)
      BY <3>2 DEF Call, LockTimeout, RepairNext, Release, Leave, Goto, Hold, IInv, TypeInv, TypeOK
    <3>3. QED
      BY <3>1, <3>2
  <2>2. QED
    BY <1>1, <2>1 DEF ReadInv, ReadFirst, ToWrite, Target
<1>3. ReadFirst(p)'
  <2>1. ASSUME NEW c \in Command, Enqueue(p, c) PROVE ReadFirst(p)'
    BY <1>1, <2>1 DEF Enqueue, Read, Scanned, KeyTaken, NothingToDo, Goto, ReadFirst, ToWrite,
       Target, Writing, Status, IInv, TypeInv, TypeOK
  <2>2. ASSUME NEW c \in Command, PopById(p, c) PROVE ReadFirst(p)'
    BY <1>1, <2>2 DEF PopById, MarkInProgress, Read, NothingToDo, Goto, ReadFirst, ToWrite, Target,
       Writing, IInv, TypeInv, TypeOK
  <2>3. CASE PopNext(p)
    BY <1>1, <2>3 DEF PopNext, MarkInProgress, Read, NothingToDo, Goto, ReadFirst, ToWrite, Target,
       Writing, IInv, TypeInv, TypeOK
  <2>4. ASSUME NEW c \in Command \cup {NoCommand}, NEW s \in Terminal, Finish(p, c, s)
        PROVE  ReadFirst(p)'
    BY <1>1, <2>4 DEF Finish, Read, NothingToDo, Goto, ReadFirst, ToWrite, Target, Writing, IInv,
       TypeInv, TypeOK
  <2>5. CASE RepairNext(p)
    BY <1>1, <2>5 DEF RepairNext, Read, Scanned, KeyTaken, Goto, ReadFirst, ToWrite, Target,
       Writing, Status, IInv, TypeInv, TypeOK
  <2>6. CASE \/ \E c \in Command : Lookup(p, c)
             \/ \E F \in {{s} : s \in Status} \cup {Status} : List(p, F)
             \/ Repair(p) \/ Call(p) \/ LockTimeout(p) \/ Release(p)
    BY <2>6 DEF Lookup, List, Repair, Call, LockTimeout, Release, Leave, NothingToDo, Goto,
       ReadFirst, Writing, IInv, TypeInv, TypeOK
  <2>7. QED
    BY <2>1, <2>2, <2>3, <2>4, <2>5, <2>6 DEF Begin
<1>4. QED
  BY <1>1, <1>2, <1>3 DEF ReadInv

WriteStep(p) == \/ EnqueueWrite(p) \/ RepairWrite(p) \/ PopWritePending(p) \/ PopWriteSlot(p)
                \/ FinishTake(p) \/ FinishAppend(p)

LEMMA WriteReads ==
    ASSUME IInv, ReadInv, NEW p \in Proc, WriteStep(p)
    PROVE  /\ ReadInv'
           /\ \A t \in torn \ torn' : t[2] \in quarantine'
<1>1. /\ pc[p] \in Writing /\ Write(p) /\ quarantine \subseteq quarantine'
      /\ torn' = {t \in torn : t[1] # Target(p)}
  BY DEF WriteStep, EnqueueWrite, RepairWrite, PopWritePending, PopWriteSlot, FinishTake,
     FinishAppend, Read, Write, Writing
<1>2. \A t \in torn \ torn' : t[2] \in quarantine'
  BY <1>1 DEF ReadInv, ReadFirst, ToWrite
<1>3. ASSUME NEW q \in Proc \ {p} PROVE ReadFirst(q)'
  <2>1. pc'[q] = pc[q]
    BY DEF WriteStep, EnqueueWrite, RepairWrite, PopWritePending, PopWriteSlot, FinishTake,
       FinishAppend, Goto, IInv, TypeInv, TypeOK
  <2>2. QED
    BY <1>1, <2>1, WriterAlone DEF ReadFirst, Critical
<1>4. ReadFirst(p)'
  <2>1. CASE PopWritePending(p)
    BY <1>1, <2>1
       DEF PopWritePending, Goto, ReadInv, ReadFirst, ToWrite, Target, Writing, IInv, TypeInv, TypeOK
  <2>2. CASE FinishTake(p)
    BY <1>1, <2>2
       DEF FinishTake, Goto, Read, ReadFirst, ToWrite, Target, Writing, IInv, TypeInv, TypeOK
  <2>3. CASE EnqueueWrite(p) \/ RepairWrite(p) \/ PopWriteSlot(p) \/ FinishAppend(p)
    BY <2>3 DEF EnqueueWrite, RepairWrite, PopWriteSlot, FinishAppend, Goto, ReadFirst, Writing,
       IInv, TypeInv, TypeOK
  <2>4. QED
    BY <2>1, <2>2, <2>3 DEF WriteStep
<1>5. QED
  BY <1>2, <1>3, <1>4 DEF ReadInv

LEMMA FaultReads ==
    ASSUME IInv, ReadInv, NEW p \in Proc, Faults(p)
    PROVE  /\ ReadInv'
           /\ \A t \in torn \ torn' : t[2] \in quarantine'
<1>1. ReadInv'
  BY FaultEffect DEF ReadInv, ReadFirst, Critical
<1>2. CASE Abort(p)
  BY <1>1, <1>2 DEF Abort, files
<1>3. CASE Tear(p)
  BY <1>1, <1>3 DEF Tear, TearWrite, ReadInv, ReadFirst, ToWrite
<1>4. QED
  BY <1>1, <1>2, <1>3 DEF Faults

LEMMA NextReads ==
    IInv /\ ReadInv /\ [Next]_vars => ReadInv' /\ \A t \in torn \ torn' : t[2] \in quarantine'
<1> SUFFICES ASSUME IInv, ReadInv, [Next]_vars
             PROVE  ReadInv' /\ \A t \in torn \ torn' : t[2] \in quarantine'
  OBVIOUS
<1>1. CASE UNCHANGED vars
  BY <1>1 DEF vars, files, locals, ReadInv, ReadFirst, ToWrite, Target
<1>2. ASSUME NEW p \in Proc, Call(p) \/ Step(p) \/ Faults(p)
      PROVE  ReadInv' /\ \A t \in torn \ torn' : t[2] \in quarantine'
  BY <1>2, QuietReads, WriteReads, FaultReads DEF Step, Continue, WriteStep
<1>3. QED
  BY <1>1, <1>2 DEF Next

(* No rewrite drops a malformed line before it is in the quarantine.       *)
THEOREM QuarantinesFirst == Spec => QuarantinedBeforeDropped
<1>1. Init => ReadInv
  BY DEF Init, ReadInv, ReadFirst, Writing
<1>2. Spec => []ReadInv
  BY <1>1, Inductive, NextReads, PTL DEF Spec
<1>3. IInv /\ ReadInv /\ [Next]_vars => [\A t \in torn \ torn' : t[2] \in quarantine']_vars
  BY NextReads
<1>4. QED
  BY <1>2, <1>3, Inductive, PTL DEF Spec, QuarantinedBeforeDropped
=============================================================================
