------------------------- MODULE CommandQueueProofs -------------------------
(***************************************************************************)
(* Proofs about CommandQueue, for any commands, keys, processes and number *)
(* of faults.                                                              *)
(***************************************************************************)
EXTENDS CommandQueue, TLAPS

Critical == Writing \cup {"repair_next", "unlock"}

(* A process about to write holds a command.                               *)
HandOK == \A p \in Proc : pc[p] \in Writing => hand[p] \in Command

TypeInv == TypeOK /\ HandOK

USE CommandAssumption DEF Status, Terminal, Writing

(* What a process writes goes to one of the files and consists of commands. *)
LEMMA WriteType ==
    ASSUME TypeInv, NEW p \in Proc, pc[p] \in Writing
    PROVE  Target(p) \in Status /\ Content(p) \in SUBSET Command
BY DEF TypeInv, TypeOK, HandOK, Target, Content

LEMMA ReadType ==
    ASSUME TypeOK, NEW F, Read(F)
    PROVE  quarantine' \subseteq Command
BY DEF TypeOK, Read

LEMMA WriteKeepsType ==
    ASSUME TypeInv, NEW p \in Proc, pc[p] \in Writing, Write(p) \/ TearWrite(p)
    PROVE  store' \in [Status -> SUBSET Command] /\ torn' \subseteq Status \X Command
<1>1. CASE Write(p)
  BY <1>1, WriteType DEF TypeInv, TypeOK, Write
<1>2. CASE TearWrite(p)
  <2>1. PICK kept \in SUBSET (Content(p) \ {hand[p]}) :
           /\ store' = [store EXCEPT ![Target(p)] = kept]
           /\ \E cut \in {{}} \cup {{c} : c \in Content(p) \ kept} :
                 torn' = {t \in torn : t[1] # Target(p)} \cup {<<Target(p), c>> : c \in cut}
    BY <1>2 DEF TearWrite
  <2>2. PICK cut \in {{}} \cup {{c} : c \in Content(p) \ kept} :
           torn' = {t \in torn : t[1] # Target(p)} \cup {<<Target(p), c>> : c \in cut}
    BY <2>1
  <2>3. cut \subseteq Command
    BY <2>1, <2>2, WriteType
  <2>4. QED
    BY <2>1, <2>2, <2>3, WriteType DEF TypeInv, TypeOK
<1>3. QED
  BY <1>1, <1>2

(* The first step of an operation: it touches the lock, the quarantine and *)
(* the locals of its process only.                                         *)
LEMMA BeginType ==
    ASSUME TypeInv, NEW p \in Proc, Begin(p)
    PROVE  TypeInv'
<1>1. CASE \E c \in Command : Enqueue(p, c)
  BY <1>1, ReadType DEF TypeInv, TypeOK, HandOK, Enqueue, Acquire, NothingToDo, Goto, Hold, history
<1>2. CASE \E c \in Command : PopById(p, c)
  BY <1>2, ReadType DEF TypeInv, TypeOK, HandOK, PopById, MarkInProgress, Acquire, NothingToDo,
     Goto, Hold, history
<1>3. CASE \E c \in Command : Lookup(p, c)
  BY <1>3, ReadType DEF TypeInv, TypeOK, HandOK, Lookup, Acquire, NothingToDo, Goto, history
<1>4. CASE PopNext(p)
  <2>1. PICK c : PopNext(p) /\ (store["pending"] = {} \/ MarkInProgress(p, c))
    BY <1>4 DEF PopNext
  <2>2. quarantine' \subseteq Command
    BY <2>1, ReadType DEF TypeInv, PopNext
  <2>3. QED
    BY <2>1, <2>2 DEF TypeInv, TypeOK, HandOK, PopNext, MarkInProgress, Acquire, NothingToDo,
       Goto, Hold, history
<1>5. CASE \E c \in Command \cup {NoCommand}, s \in Terminal : Finish(p, c, s)
  BY <1>5, ReadType DEF TypeInv, TypeOK, HandOK, Finish, Acquire, NothingToDo, Goto, Hold, history
<1>6. CASE \E F \in {{s} : s \in Status} \cup {Status} : List(p, F)
  BY <1>6, ReadType DEF TypeInv, TypeOK, HandOK, List, Acquire, NothingToDo, Goto, history
<1>7. CASE Repair(p)
  BY <1>7 DEF TypeInv, TypeOK, HandOK, Repair, Acquire, Goto, files, history
<1>8. QED
  BY <1>1, <1>2, <1>3, <1>4, <1>5, <1>6, <1>7 DEF Begin

LEMMA ContinueType ==
    ASSUME TypeInv, NEW p \in Proc, Continue(p)
    PROVE  TypeInv'
<1>1. CASE EnqueueWrite(p)
  BY <1>1, WriteKeepsType DEF TypeInv, TypeOK, HandOK, EnqueueWrite, Goto, Hold
<1>2. CASE RepairNext(p)
  BY <1>2, ReadType DEF TypeInv, TypeOK, HandOK, RepairNext, Goto, Hold, history
<1>3. CASE RepairWrite(p)
  BY <1>3, WriteKeepsType DEF TypeInv, TypeOK, HandOK, RepairWrite, Goto, Hold
<1>4. CASE PopWritePending(p)
  BY <1>4, WriteKeepsType DEF TypeInv, TypeOK, HandOK, PopWritePending, Goto, history
<1>5. CASE PopWriteSlot(p)
  <2>1. keyOf[hand[p]] \in Key
    BY <1>5, KeyAssumption DEF TypeInv, HandOK, PopWriteSlot
  <2>2. deliveries' \in [Key -> Nat]
    BY <1>5, <2>1 DEF TypeInv, TypeOK, PopWriteSlot
  <2>3. QED
    BY <1>5, <2>2, WriteKeepsType DEF TypeInv, TypeOK, HandOK, PopWriteSlot, Goto, Hold
<1>6. CASE FinishTake(p)
  BY <1>6, WriteKeepsType, ReadType DEF TypeInv, TypeOK, HandOK, FinishTake, Goto, history
<1>7. CASE FinishAppend(p)
  BY <1>7, WriteKeepsType DEF TypeInv, TypeOK, HandOK, FinishAppend, Goto, Hold, history
<1>8. CASE Release(p)
  BY <1>8 DEF TypeInv, TypeOK, HandOK, Release, Leave, files, history
<1>9. QED
  BY <1>1, <1>2, <1>3, <1>4, <1>5, <1>6, <1>7, <1>8 DEF Continue

LEMMA FaultsType ==
    ASSUME TypeInv, NEW p \in Proc, Faults(p)
    PROVE  TypeInv'
<1>1. CASE Abort(p)
  BY <1>1 DEF TypeInv, TypeOK, HandOK, Abort, Fault, Leave, files
<1>2. CASE Tear(p)
  BY <1>2, WriteKeepsType DEF TypeInv, TypeOK, HandOK, Tear, Fault, Leave
<1>3. QED
  BY <1>1, <1>2 DEF Faults

(* Type correctness of the queue.                                          *)
THEOREM TypeCorrect == Spec => []TypeInv
<1>1. Init => TypeInv
  BY DEF Init, TypeInv, TypeOK, HandOK
<1>2. TypeInv /\ [Next]_vars => TypeInv'
  <2> SUFFICES ASSUME TypeInv, [Next]_vars PROVE TypeInv'
    OBVIOUS
  <2>1. CASE UNCHANGED vars
    BY <2>1 DEF TypeInv, TypeOK, HandOK, vars, files, locals, history
  <2>2. ASSUME NEW p \in Proc, Call(p) \/ LockTimeout(p) PROVE TypeInv'
    BY <2>2 DEF TypeInv, TypeOK, HandOK, Call, LockTimeout, files, history
  <2>3. QED
    BY <2>1, <2>2, BeginType, ContinueType, FaultsType DEF Next, Step
<1>3. QED
  BY <1>1, <1>2, PTL DEF Spec

(***************************************************************************)
(* The inductive invariant.  Mutual exclusion (LockInv) makes the phase    *)
(* facts of the lock holder (PhaseInv) survive everyone else's steps; they *)
(* say which keys the holder's next write adds or moves, and that is what  *)
(* the uniqueness of keys, the delivery bound and the absence of losses    *)
(* rest on.                                                                *)
(***************************************************************************)
LockInv == \A p \in Proc : lock = p <=> pc[p] \in Critical

KeyFree(k) == \A s \in Status : \A c \in store[s] : keyOf[c] # k

Phase(p) ==
    /\ pc[p] = "pop_pending" => hand[p] \in store["pending"]
    /\ pc[p] = "take" => hand[p] \in store[from[p]]
    /\ pc[p] \in {"enqueue", "repair", "pop_slot", "append"} => KeyFree(keyOf[hand[p]])
    /\ pc[p] \in {"pop_pending", "pop_slot"} => store["in_progress"] = {}
    /\ pc[p] = "append" /\ from[p] = "in_progress" => store["in_progress"] = {}

PhaseInv == \A p \in Proc : Phase(p)

FilesUnique ==
    \A s, t \in Status : \A c \in store[s], d \in store[t] :
        keyOf[c] = keyOf[d] => c = d /\ s = t

SlotInv == \A c, d \in store["in_progress"] : c = d

Placed(c) == \/ \E s \in Status : c \in store[s]
             \/ \E p \in Proc : InTransit(p) /\ hand[p] = c

LossInv == faults = 0 => \A c \in accepted : Placed(c)

(* A key that a pop has handed out and no fault has lost since.            *)
Spent(k) ==
    \/ \E s \in Status \ {"pending"} : \E c \in store[s] : keyOf[c] = k
    \/ \E p \in Proc : pc[p] = "append" /\ from[p] = "in_progress" /\ keyOf[hand[p]] = k

DeliveryInv ==
    \A k \in Key :
        /\ deliveries[k] <= 1 + faults
        /\ ~Spent(k) => deliveries[k] <= faults

IInv == /\ TypeInv
        /\ LockInv
        /\ PhaseInv
        /\ FilesUnique
        /\ SlotInv
        /\ LossInv
        /\ DeliveryInv

(* The locals of the other processes are not touched.                      *)
OthersSame(p) ==
    \A q \in Proc \ {p} :
        /\ pc'[q] = pc[q]
        /\ hand'[q] = hand[q]
        /\ from'[q] = from[q]

LEMMA HolderAlone ==
    ASSUME LockInv, NEW p \in Proc, lock = p \/ lock = NoProc,
           NEW q \in Proc, q # p
    PROVE  pc[q] \notin Critical
BY DEF LockInv

(* A step that moves nothing between files only has to establish the phase *)
(* facts of its own process.                                               *)
LEMMA QuietStep ==
    ASSUME IInv, TypeInv', LockInv', NEW p \in Proc, OthersSame(p),
           UNCHANGED store, UNCHANGED history,
           ~InTransit(p), ~InTransit(p)', Phase(p)'
    PROVE  IInv'
<1>1. PhaseInv'
  <2> SUFFICES ASSUME NEW q \in Proc PROVE Phase(q)'
    BY DEF PhaseInv
  <2>1. CASE q = p
    BY <2>1
  <2>2. CASE q # p
    BY <2>2 DEF IInv, PhaseInv, Phase, OthersSame, KeyFree
  <2>3. QED
    BY <2>1, <2>2
<1>2. FilesUnique' /\ SlotInv'
  BY DEF IInv, FilesUnique, SlotInv
<1>3. LossInv'
  <2>1. ASSUME NEW c, Placed(c) PROVE Placed(c)'
    BY <2>1 DEF Placed, InTransit, OthersSame
  <2>2. QED
    BY <2>1 DEF IInv, LossInv, history
<1>4. DeliveryInv'
  <2>1. ASSUME NEW k \in Key, Spent(k) PROVE Spent(k)'
    BY <2>1 DEF Spent, InTransit, OthersSame
  <2>2. QED
    BY <2>1 DEF IInv, DeliveryInv, history
<1>5. QED
  BY <1>1, <1>2, <1>3, <1>4 DEF IInv

LEMMA BeginFrame ==
    ASSUME IInv, NEW p \in Proc, Begin(p)
    PROVE  OthersSame(p)
BY ZenonT(60) DEF Begin, Enqueue, PopById, Lookup, PopNext, Finish, List, Repair, MarkInProgress,
   NothingToDo, Goto, Hold, OthersSame, IInv, TypeInv, TypeOK

LEMMA BeginStep ==
    ASSUME IInv, NEW p \in Proc, Begin(p)
    PROVE  IInv'
<1> USE DEF Critical
<1>1. TypeInv'
  BY BeginType DEF IInv
<1>2. /\ lock = NoProc /\ lock' = p /\ pc[p] = "waiting"
      /\ UNCHANGED store /\ UNCHANGED history
  BY DEF Begin, Enqueue, PopById, Lookup, PopNext, Finish, List, Repair, Acquire, files
<1>3. OthersSame(p)
  BY BeginFrame
<1>4. pc'[p] \in {"unlock", "enqueue", "pop_pending", "take", "repair_next"}
  BY DEF Begin, Enqueue, PopById, Lookup, PopNext, Finish, List, Repair, MarkInProgress,
     NothingToDo, Goto, IInv, TypeInv, TypeOK
<1>5. LockInv'
  BY <1>2, <1>3, <1>4 DEF IInv, LockInv, OthersSame
<1>6. ASSUME pc'[p] = "enqueue" PROVE KeyFree(keyOf[hand[p]])'
  <2>1. PICK c \in Command : Enqueue(p, c)
    BY <1>6 DEF Begin, PopById, Lookup, PopNext, Finish, List, Repair, MarkInProgress,
       NothingToDo, Goto, IInv, TypeInv, TypeOK
  <2>2. hand'[p] = c /\ ~KeyTaken(keyOf[c])
    BY <1>6, <2>1 DEF Enqueue, NothingToDo, Goto, Hold, IInv, TypeInv, TypeOK
  <2>3. QED
    BY <1>2, <2>2 DEF KeyFree, KeyTaken, Sharing, IInv, TypeInv, TypeOK
<1>7. ASSUME pc'[p] = "pop_pending"
      PROVE  hand'[p] \in store["pending"] /\ store["in_progress"] = {}
  BY <1>7 DEF Begin, Enqueue, PopById, Lookup, PopNext, Finish, List, Repair, MarkInProgress,
     NothingToDo, Goto, Hold, IInv, TypeInv, TypeOK
<1>8. ASSUME pc'[p] = "take" PROVE hand'[p] \in store[from'[p]]
  BY ZenonT(60), <1>8 DEF Begin, Enqueue, PopById, Lookup, PopNext, Finish, List, Repair, MarkInProgress,
     NothingToDo, Goto, Hold, IInv, TypeInv, TypeOK
<1>9. Phase(p)'
  BY <1>2, <1>4, <1>6, <1>7, <1>8 DEF Phase
<1>10. ~InTransit(p) /\ ~InTransit(p)'
  BY <1>2, <1>4 DEF InTransit
<1>11. QED
  BY <1>1, <1>2, <1>3, <1>5, <1>9, <1>10, QuietStep

(* Call, LockTimeout, the choice of the next record to repair, Release.    *)
LEMMA LocalStep ==
    ASSUME IInv, NEW p \in Proc,
           Call(p) \/ LockTimeout(p) \/ RepairNext(p) \/ Release(p)
    PROVE  IInv'
<1> USE DEF Critical
<1>1. TypeInv'
  BY ContinueType DEF Continue, IInv, TypeInv, TypeOK, HandOK, Call, LockTimeout, files, history
<1>2. UNCHANGED store /\ UNCHANGED history
  BY DEF Call, LockTimeout, RepairNext, Release, files
<1>3. OthersSame(p)
  BY DEF Call, LockTimeout, RepairNext, Release, Leave, Goto, Hold, OthersSame, IInv, TypeInv, TypeOK
<1>4. pc'[p] \in {"waiting", "idle", "repair", "repair_next", "unlock"}
  BY DEF Call, LockTimeout, RepairNext, Release, Leave, Goto, IInv, TypeInv, TypeOK
<1>5. LockInv'
  <2>1. CASE Call(p) \/ LockTimeout(p) \/ RepairNext(p)
    BY <2>1, <1>3 DEF Call, LockTimeout, RepairNext, Goto, IInv, LockInv, OthersSame, TypeInv, TypeOK
  <2>2. CASE Release(p)
    BY <2>2, <1>3, HolderAlone DEF Release, Leave, IInv, LockInv, OthersSame, TypeInv, TypeOK
  <2>3. QED
    BY <2>1, <2>2
<1>6. ASSUME pc'[p] = "repair" PROVE KeyFree(keyOf[hand[p]])'
  <2>1. PICK c \in todo[p] : hand'[p] = c /\ ~KeyTaken(keyOf[c])
    BY <1>6 DEF Call, LockTimeout, RepairNext, Release, Leave, Goto, Hold, IInv, TypeInv, TypeOK
  <2>2. QED
    BY <1>2, <2>1 DEF KeyFree, KeyTaken, Sharing, IInv, TypeInv, TypeOK
<1>7. Phase(p)'
  BY <1>4, <1>6 DEF Phase
<1>8. ~InTransit(p) /\ ~InTransit(p)'
  BY <1>4 DEF InTransit, Call, LockTimeout, RepairNext, Release
<1>9. QED
  BY <1>1, <1>2, <1>3, <1>5, <1>7, <1>8, QuietStep

(* Writes and faults.  A file gains one command whose key was free, or     *)
(* files lose commands; nothing else ever happens to the files.            *)
Grows(s, c) == store' = [store EXCEPT ![s] = @ \cup {c}]

Shrinks == \A s \in Status : store'[s] \subseteq store[s]

LEMMA GrowKeepsUnique ==
    ASSUME TypeOK, FilesUnique, NEW s \in Status, NEW c \in Command,
           KeyFree(keyOf[c]), Grows(s, c)
    PROVE  FilesUnique'
<1> SUFFICES ASSUME NEW t \in Status, NEW u \in Status,
                    NEW d \in store'[t], NEW e \in store'[u], keyOf[d] = keyOf[e]
             PROVE  d = e /\ t = u
  BY DEF FilesUnique
<1>1. \A v \in Status : \A f \in store'[v] : f \in store[v] \/ (v = s /\ f = c)
  BY DEF Grows, TypeOK
<1>2. QED
  BY <1>1 DEF FilesUnique, KeyFree

LEMMA ShrinkKeepsUnique ==
    ASSUME FilesUnique, SlotInv, Shrinks
    PROVE  FilesUnique' /\ SlotInv'
BY DEF FilesUnique, SlotInv, Shrinks

LEMMA WriterAlone ==
    ASSUME IInv, NEW p \in Proc, pc[p] \in Writing
    PROVE  /\ lock = p
           /\ hand[p] \in Command
           /\ Phase(p)
           /\ \A q \in Proc \ {p} : pc[q] \notin Critical
BY DEF IInv, LockInv, PhaseInv, TypeInv, HandOK, Critical

(* What the six writes do to the files.                                    *)
LEMMA WriteEffect ==
    ASSUME IInv, NEW p \in Proc, pc[p] \in Writing, Write(p)
    PROVE  /\ pc[p] \in {"enqueue", "repair"} => Grows("pending", hand[p])
           /\ pc[p] = "pop_slot" => Grows("in_progress", hand[p])
           /\ pc[p] = "append" => Grows(to[p], hand[p]) /\ to[p] \in Terminal
           /\ pc[p] = "pop_pending" => store' = [store EXCEPT !["pending"] = @ \ {hand[p]}]
           /\ pc[p] = "take" => store' = [store EXCEPT ![from[p]] = @ \ {hand[p]}]
BY WriterAlone DEF IInv, TypeInv, TypeOK, Write, Target, Content, Grows, Phase

(* The facts that hold after any step of a writer that keeps the lock.     *)
LEMMA WriteFrame ==
    ASSUME IInv, NEW p \in Proc, pc[p] \in Writing, lock' = lock, OthersSame(p),
           pc'[p] \in Critical, Phase(p)'
    PROVE  LockInv' /\ PhaseInv'
<1>1. \A q \in Proc \ {p} : pc'[q] \notin Critical
  BY WriterAlone DEF OthersSame
<1>2. LockInv'
  BY <1>1, WriterAlone DEF LockInv
<1>3. PhaseInv'
  BY <1>1 DEF PhaseInv, Phase, Critical
<1>4. QED
  BY <1>2, <1>3

LEMMA AddStep ==
    ASSUME IInv, NEW p \in Proc, EnqueueWrite(p) \/ RepairWrite(p)
    PROVE  IInv'
<1>1. TypeInv'
  BY ContinueType DEF Continue, IInv
<1>2. pc[p] \in {"enqueue", "repair"} /\ Write(p)
  BY DEF EnqueueWrite, RepairWrite
<1>3. /\ lock = p /\ hand[p] \in Command /\ KeyFree(keyOf[hand[p]])
      /\ \A q \in Proc \ {p} : pc[q] \notin Critical
  BY <1>2, WriterAlone DEF Phase
<1>4. Grows("pending", hand[p])
  BY <1>2, WriteEffect
<1>5. OthersSame(p) /\ lock' = lock /\ pc'[p] \in {"unlock", "repair_next"}
  BY DEF EnqueueWrite, RepairWrite, Goto, Hold, OthersSame, IInv, TypeInv, TypeOK
<1>6. LockInv' /\ PhaseInv'
  BY <1>2, <1>5, WriteFrame DEF Phase, Critical
<1>7. FilesUnique'
  BY <1>3, <1>4, GrowKeepsUnique DEF IInv, TypeInv
<1>8. SlotInv'
  BY <1>4 DEF Grows, IInv, SlotInv, TypeInv, TypeOK
<1>9. LossInv'
  <2>1. ASSUME NEW c, Placed(c) PROVE Placed(c)'
    BY <2>1, <1>2, <1>3, <1>4, <1>5
    DEF Placed, InTransit, Grows, OthersSame, Critical, IInv, TypeInv, TypeOK
  <2>2. hand[p] \in store'["pending"]
    BY <1>4 DEF Grows, IInv, TypeInv, TypeOK
  <2>3. accepted' = accepted \cup {hand[p]} /\ faults' = faults
    BY DEF EnqueueWrite, RepairWrite
  <2>4. QED
    BY <2>1, <2>2, <2>3 DEF IInv, LossInv, Placed
<1>10. DeliveryInv'
  <2>1. ASSUME NEW k \in Key, Spent(k) PROVE Spent(k)'
    BY <2>1, <1>2, <1>3, <1>4, <1>5
    DEF Spent, Grows, OthersSame, Critical, IInv, TypeInv, TypeOK
  <2>2. deliveries' = deliveries /\ faults' = faults
    BY DEF EnqueueWrite, RepairWrite
  <2>3. QED
    BY <2>1, <2>2 DEF IInv, DeliveryInv
<1>11. QED
  BY <1>1, <1>6, <1>7, <1>8, <1>9, <1>10 DEF IInv

LEMMA PopPendingStep ==
    ASSUME IInv, NEW p \in Proc, PopWritePending(p)
    PROVE  IInv'
<1>1. TypeInv'
  BY ContinueType DEF Continue, IInv
<1>2. pc[p] = "pop_pending" /\ Write(p) /\ UNCHANGED history
  BY DEF PopWritePending
<1>3. /\ lock = p /\ hand[p] \in store["pending"] /\ store["in_progress"] = {}
      /\ \A q \in Proc \ {p} : pc[q] \notin Critical
  BY <1>2, WriterAlone DEF Phase
<1>4. store' = [store EXCEPT !["pending"] = @ \ {hand[p]}]
  BY <1>2, WriteEffect
<1>5. OthersSame(p) /\ lock' = lock /\ pc'[p] = "pop_slot" /\ hand'[p] = hand[p]
  BY DEF PopWritePending, Goto, OthersSame, IInv, TypeInv, TypeOK
<1>6. KeyFree(keyOf[hand[p]])'
  BY <1>3, <1>4, <1>5 DEF KeyFree, IInv, FilesUnique, TypeInv, TypeOK
<1>7. LockInv' /\ PhaseInv'
  <2>1. store'["in_progress"] = {}
    BY <1>3, <1>4 DEF IInv, TypeInv, TypeOK
  <2>2. QED
    BY <2>1, <1>2, <1>5, <1>6, WriteFrame DEF Phase, Critical
<1>8. FilesUnique' /\ SlotInv'
  BY <1>4, ShrinkKeepsUnique DEF Shrinks, IInv, TypeInv, TypeOK
<1>9. LossInv'
  <2>1. ASSUME NEW c, Placed(c) PROVE Placed(c)'
    BY <2>1, <1>2, <1>3, <1>4, <1>5
    DEF Placed, InTransit, OthersSame, Critical, IInv, TypeInv, TypeOK
  <2>2. QED
    BY <2>1, <1>2 DEF IInv, LossInv, history
<1>10. DeliveryInv'
  <2>1. ASSUME NEW k \in Key, Spent(k) PROVE Spent(k)'
    BY <2>1, <1>2, <1>3, <1>4, <1>5 DEF Spent, OthersSame, Critical, IInv, TypeInv, TypeOK
  <2>2. QED
    BY <2>1, <1>2 DEF IInv, DeliveryInv, history
<1>11. QED
  BY <1>1, <1>7, <1>8, <1>9, <1>10 DEF IInv

(* The delivery: the key was free, so no fault-free delivery preceded it.  *)
LEMMA PopSlotStep ==
    ASSUME IInv, NEW p \in Proc, PopWriteSlot(p)
    PROVE  IInv'
<1>1. TypeInv'
  BY ContinueType DEF Continue, IInv
<1>2. pc[p] = "pop_slot" /\ Write(p)
  BY DEF PopWriteSlot
<1>3. /\ lock = p /\ hand[p] \in Command /\ KeyFree(keyOf[hand[p]])
      /\ store["in_progress"] = {}
      /\ \A q \in Proc \ {p} : pc[q] \notin Critical
  BY <1>2, WriterAlone DEF Phase
<1>4. Grows("in_progress", hand[p])
  BY <1>2, WriteEffect
<1>5. OthersSame(p) /\ lock' = lock /\ pc'[p] = "unlock"
  BY DEF PopWriteSlot, Goto, Hold, OthersSame, IInv, TypeInv, TypeOK
<1>6. LockInv' /\ PhaseInv'
  BY <1>2, <1>5, WriteFrame DEF Phase, Critical
<1>7. FilesUnique'
  BY <1>3, <1>4, GrowKeepsUnique DEF IInv, TypeInv
<1>8. SlotInv'
  BY <1>3, <1>4 DEF Grows, SlotInv, IInv, TypeInv, TypeOK
<1>9. LossInv'
  <2>1. ASSUME NEW c, Placed(c) PROVE Placed(c)'
    BY <2>1, <1>2, <1>3, <1>4, <1>5
    DEF Placed, InTransit, Grows, OthersSame, Critical, IInv, TypeInv, TypeOK
  <2>2. accepted' = accepted /\ faults' = faults
    BY DEF PopWriteSlot
  <2>3. QED
    BY <2>1, <2>2 DEF IInv, LossInv
<1>10. DeliveryInv'
  <2>1. ASSUME NEW k \in Key, Spent(k) PROVE Spent(k)'
    BY <2>1, <1>2, <1>3, <1>4, <1>5
    DEF Spent, Grows, OthersSame, Critical, IInv, TypeInv, TypeOK
  <2>2. keyOf[hand[p]] \in Key
    BY <1>3, KeyAssumption
  <2>3. ~Spent(keyOf[hand[p]])
    BY <1>2, <1>3 DEF Spent, KeyFree, Critical
  <2>4. \E s \in Status \ {"pending"} : \E c \in store'[s] : keyOf[c] = keyOf[hand[p]]
    BY <1>4 DEF Grows, IInv, TypeInv, TypeOK
  <2>5. /\ deliveries' = [deliveries EXCEPT ![keyOf[hand[p]]] = @ + 1]
        /\ faults' = faults /\ deliveries \in [Key -> Nat] /\ faults \in Nat
    BY DEF PopWriteSlot, IInv, TypeInv, TypeOK
  <2> SUFFICES ASSUME NEW k \in Key
               PROVE  /\ deliveries'[k] <= 1 + faults'
                      /\ ~Spent(k)' => deliveries'[k] <= faults'
    BY DEF DeliveryInv
  <2>6. CASE k = keyOf[hand[p]]
    <3>1. Spent(k)'
      BY <2>4, <2>6 DEF Spent
    <3>2. ~Spent(k)
      BY <2>3, <2>6
    <3>3. deliveries[k] <= faults
      BY <3>2 DEF IInv, DeliveryInv
    <3>4. deliveries'[k] = deliveries[k] + 1
      BY <2>5, <2>6
    <3>5. QED
      BY <3>1, <3>3, <3>4, <2>5
  <2>7. CASE k # keyOf[hand[p]]
    <3>1. deliveries'[k] = deliveries[k] /\ faults' = faults
      BY <2>5, <2>7
    <3>2. Spent(k) => Spent(k)'
      BY <2>1
    <3>3. QED
      BY <3>1, <3>2 DEF IInv, DeliveryInv
  <2>8. QED
    BY <2>6, <2>7
<1>11. QED
  BY <1>1, <1>6, <1>7, <1>8, <1>9, <1>10 DEF IInv

LEMMA FinishTakeStep ==
    ASSUME IInv, NEW p \in Proc, FinishTake(p)
    PROVE  IInv'
<1>1. TypeInv'
  BY ContinueType DEF Continue, IInv
<1>2. pc[p] = "take" /\ Write(p) /\ UNCHANGED history
  BY DEF FinishTake
<1>3. /\ lock = p /\ hand[p] \in store[from[p]] /\ from[p] \in {"pending", "in_progress"}
      /\ \A q \in Proc \ {p} : pc[q] \notin Critical
  BY <1>2, WriterAlone DEF Phase, IInv, TypeInv, TypeOK
<1>4. store' = [store EXCEPT ![from[p]] = @ \ {hand[p]}]
  BY <1>2, WriteEffect
<1>5. /\ OthersSame(p) /\ lock' = lock
      /\ pc'[p] = "append" /\ hand'[p] = hand[p] /\ from'[p] = from[p]
  BY DEF FinishTake, Goto, OthersSame, IInv, TypeInv, TypeOK
<1>6. KeyFree(keyOf[hand[p]])'
  BY <1>3, <1>4, <1>5 DEF KeyFree, IInv, FilesUnique, TypeInv, TypeOK
<1>7. LockInv' /\ PhaseInv'
  <2>1. from[p] = "in_progress" => store'["in_progress"] = {}
    BY <1>3, <1>4 DEF IInv, SlotInv, TypeInv, TypeOK
  <2>2. QED
    BY <2>1, <1>2, <1>5, <1>6, WriteFrame DEF Phase, Critical
<1>8. FilesUnique' /\ SlotInv'
  <2>1. Shrinks
    BY <1>3, <1>4 DEF Shrinks, IInv, TypeInv, TypeOK
  <2>2. QED
    BY <2>1, ShrinkKeepsUnique DEF IInv
<1>9. LossInv'
  <2>1. ASSUME NEW c, Placed(c) PROVE Placed(c)'
    BY <2>1, <1>2, <1>3, <1>4, <1>5
    DEF Placed, InTransit, OthersSame, Critical, IInv, TypeInv, TypeOK
  <2>2. QED
    BY <2>1, <1>2 DEF IInv, LossInv, history
<1>10. DeliveryInv'
  <2>1. ASSUME NEW k \in Key, Spent(k) PROVE Spent(k)'
    BY <2>1, <1>2, <1>3, <1>4, <1>5 DEF Spent, OthersSame, Critical, IInv, TypeInv, TypeOK
  <2>2. QED
    BY <2>1, <1>2 DEF IInv, DeliveryInv, history
<1>11. QED
  BY <1>1, <1>7, <1>8, <1>9, <1>10 DEF IInv

LEMMA FinishAppendStep ==
    ASSUME IInv, NEW p \in Proc, FinishAppend(p)
    PROVE  IInv'
<1>1. TypeInv'
  BY ContinueType DEF Continue, IInv
<1>2. pc[p] = "append" /\ Write(p) /\ UNCHANGED history
  BY DEF FinishAppend
<1>3. /\ lock = p /\ hand[p] \in Command /\ KeyFree(keyOf[hand[p]])
      /\ \A q \in Proc \ {p} : pc[q] \notin Critical
  BY <1>2, WriterAlone DEF Phase
<1>4. Grows(to[p], hand[p]) /\ to[p] \in Terminal
  BY <1>2, WriteEffect
<1>5. OthersSame(p) /\ lock' = lock /\ pc'[p] = "unlock"
  BY DEF FinishAppend, Goto, Hold, OthersSame, IInv, TypeInv, TypeOK
<1>6. LockInv' /\ PhaseInv'
  BY <1>2, <1>5, WriteFrame DEF Phase, Critical
<1>7. FilesUnique'
  BY <1>3, <1>4, GrowKeepsUnique DEF IInv, TypeInv
<1>8. SlotInv'
  BY <1>4 DEF Grows, IInv, SlotInv, TypeInv, TypeOK
<1>9. hand[p] \in store'[to[p]]
  BY <1>4 DEF Grows, IInv, TypeInv, TypeOK
<1>10. LossInv'
  <2>1. ASSUME NEW c, Placed(c) PROVE Placed(c)'
    BY <2>1, <1>2, <1>3, <1>4, <1>5, <1>9
    DEF Placed, InTransit, Grows, OthersSame, Critical, IInv, TypeInv, TypeOK
  <2>2. QED
    BY <2>1, <1>2 DEF IInv, LossInv, history
<1>11. DeliveryInv'
  <2>1. ASSUME NEW k \in Key, Spent(k) PROVE Spent(k)'
    BY <2>1, <1>2, <1>3, <1>4, <1>5, <1>9
    DEF Spent, Grows, OthersSame, Critical, IInv, TypeInv, TypeOK
  <2>2. QED
    BY <2>1, <1>2 DEF IInv, DeliveryInv, history
<1>12. QED
  BY <1>1, <1>6, <1>7, <1>8, <1>10, <1>11 DEF IInv

(* A fault frees the lock and takes commands away, never adds one.         *)
LEMMA FaultEffect ==
    ASSUME IInv, NEW p \in Proc, Faults(p)
    PROVE  /\ OthersSame(p) /\ lock' = NoProc
           /\ \A q \in Proc : pc'[q] \notin Critical
           /\ Shrinks
           /\ faults < MaxFaults /\ faults' = faults + 1 /\ deliveries' = deliveries
<1>1. lock = p
  BY WriterAlone DEF Faults, Abort, Tear
<1>2. OthersSame(p) /\ lock' = NoProc /\ pc'[p] = "idle"
  BY DEF Faults, Abort, Tear, Leave, OthersSame, IInv, TypeInv, TypeOK
<1>3. Shrinks
  <2>1. CASE Abort(p)
    BY <2>1 DEF Abort, Shrinks, files
  <2>2. CASE Tear(p)
    <3>1. pc[p] \in Writing /\ TearWrite(p)
      BY <2>2 DEF Tear
    <3>2. PICK kept \in SUBSET (Content(p) \ {hand[p]}) :
             store' = [store EXCEPT ![Target(p)] = kept]
      BY <3>1 DEF TearWrite
    <3>3. Content(p) \ {hand[p]} \subseteq store[Target(p)] /\ Target(p) \in Status
      BY <3>1 DEF Content, Target, IInv, TypeInv, TypeOK
    <3>4. QED
      BY <3>2, <3>3 DEF Shrinks, IInv, TypeInv, TypeOK
  <2>3. QED
    BY <2>1, <2>2 DEF Faults
<1>4. \A q \in Proc : pc'[q] \notin Critical
  BY <1>1, <1>2, HolderAlone DEF OthersSame, Critical, IInv
<1>5. QED
  BY <1>2, <1>3, <1>4 DEF Faults, Abort, Tear, Fault

LEMMA FaultStep ==
    ASSUME IInv, NEW p \in Proc, Faults(p)
    PROVE  IInv'
<1>1. TypeInv'
  BY FaultsType DEF IInv
<1>2. LockInv' /\ PhaseInv'
  BY FaultEffect DEF LockInv, PhaseInv, Phase, Critical
<1>3. FilesUnique' /\ SlotInv'
  BY FaultEffect, ShrinkKeepsUnique DEF IInv
<1>4. faults \in Nat /\ deliveries \in [Key -> Nat]
  BY DEF IInv, TypeInv, TypeOK
<1>5. LossInv' /\ DeliveryInv'
  BY <1>4, FaultEffect DEF LossInv, DeliveryInv, IInv
<1>6. QED
  BY <1>1, <1>2, <1>3, <1>5 DEF IInv

LEMMA InitIInv == Init => IInv
<1> SUFFICES ASSUME Init PROVE IInv
  OBVIOUS
<1>1. TypeInv
  BY DEF Init, TypeInv, TypeOK, HandOK
<1>2. LockInv /\ PhaseInv /\ FilesUnique /\ SlotInv
  BY DEF Init, LockInv, PhaseInv, Phase, FilesUnique, SlotInv, Critical
<1>3. LossInv /\ DeliveryInv
  BY DEF Init, LossInv, DeliveryInv
<1>4. QED
  BY <1>1, <1>2, <1>3 DEF IInv

LEMMA NextIInv == IInv /\ [Next]_vars => IInv'
<1> SUFFICES ASSUME IInv, [Next]_vars PROVE IInv'
  OBVIOUS
<1>1. CASE UNCHANGED vars
  <2> USE <1>1 DEF vars, files, locals, history
  <2>1. TypeInv' /\ LockInv'
    BY DEF IInv, TypeInv, TypeOK, HandOK, LockInv
  <2>2. PhaseInv' /\ FilesUnique' /\ SlotInv'
    BY DEF IInv, PhaseInv, Phase, KeyFree, FilesUnique, SlotInv
  <2>3. LossInv' /\ DeliveryInv'
    BY DEF IInv, LossInv, Placed, InTransit, DeliveryInv, Spent
  <2>4. QED
    BY <2>1, <2>2, <2>3 DEF IInv
<1>2. ASSUME NEW p \in Proc, Call(p) \/ Step(p) \/ Faults(p) PROVE IInv'
  BY <1>2, BeginStep, LocalStep, AddStep, PopPendingStep, PopSlotStep, FinishTakeStep,
     FinishAppendStep, FaultStep DEF Step, Continue
<1>3. QED
  BY <1>1, <1>2 DEF Next

THEOREM Inductive == Spec => []IInv
BY InitIInv, NextIInv, PTL DEF Spec

(* Every variable keeps its type.                                          *)
THEOREM TypeSafe == Spec => []TypeOK
<1>1. IInv => TypeOK
  BY DEF IInv, TypeInv
<1>2. QED
  BY <1>1, Inductive, PTL

(* No two records, in the files or on the way between two of them, share a *)
(* dedupe key, and no record is in two files: whatever the interleaving of *)
(* the operations and wherever processes crash.                            *)
THEOREM DedupeSafe == Spec => []KeysUnique
<1>1. IInv => KeysUnique
  <2> SUFFICES ASSUME IInv PROVE KeysUnique
    OBVIOUS
  <2>1. ASSUME NEW d \in Carried PROVE KeyFree(keyOf[d])
    BY <2>1 DEF IInv, PhaseInv, Phase, Carried, InTransit
  <2>2. QED
    BY <2>1 DEF IInv, KeysUnique, FilesUnique, KeyFree
<1>2. QED
  BY <1>1, Inductive, PTL

(* At most one command is in progress at any time.                         *)
THEOREM OneInProgress == Spec => []SingleSlot
<1>1. IInv => SingleSlot
  <2> SUFFICES ASSUME IInv, NEW c \in Active, NEW d \in Active PROVE c = d
    BY DEF SingleSlot
  <2>1. ASSUME NEW p \in Proc, NEW q \in Proc, pc[p] \in Critical, pc[q] \in Critical
        PROVE  p = q
    BY <2>1 DEF IInv, LockInv
  <2>2. QED
    BY <2>1 DEF Active, IInv, SlotInv, PhaseInv, Phase, Critical
<1>2. QED
  BY <1>1, Inductive, PTL

(* Only a crash or a failed write can lose an accepted command.            *)
THEOREM NoLoss == Spec => []NoLossWithoutFault
<1>1. IInv => NoLossWithoutFault
  <2> SUFFICES ASSUME IInv, faults = 0, NEW c \in accepted
               PROVE  c \in Filed \cup Carried
    BY DEF NoLossWithoutFault
  <2>1. Placed(c) /\ c \in Command
    BY DEF IInv, LossInv, TypeInv, TypeOK
  <2>2. QED
    BY <2>1 DEF Placed, Filed, Carried
<1>2. QED
  BY <1>1, Inductive, PTL

(* A dedupe key is handed out at most once more than there were faults.    *)
THEOREM DeliveredOnce == Spec => []DeliveryBound
<1>1. IInv => DeliveryBound
  BY DEF IInv, DeliveryBound, DeliveryInv
<1>2. QED
  BY <1>1, Inductive, PTL
=============================================================================
