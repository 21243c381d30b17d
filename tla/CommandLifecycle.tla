-------------------------- MODULE CommandLifecycle --------------------------
(***************************************************************************)
(* What agent_bridge/core/command_queue.py promises its callers, with      *)
(* every operation in one atomic step: each command has one status, the    *)
(* statuses only move forward, one command at a time is in progress, a     *)
(* dedupe key belongs to at most one command, and pop hands out a key once *)
(* unless a fault made the queue forget it.                                *)
(***************************************************************************)
EXTENDS Naturals

CONSTANTS Command, Key, keyOf, MaxFaults

VARIABLES status,       \* "absent" or the CommandStatus of each command
          deliveries,   \* how often pop handed out each key
          faults        \* crashes and failed writes so far

vars == <<status, deliveries, faults>>

Init == /\ status = [c \in Command |-> "absent"]
        /\ deliveries = [k \in Key |-> 0]
        /\ faults = 0

Enqueue(c) == /\ \A d \in Command : keyOf[d] = keyOf[c] => status[d] = "absent"
              /\ status' = [status EXCEPT ![c] = "pending"]
              /\ UNCHANGED <<deliveries, faults>>

Pop(c) == /\ status[c] = "pending"
          /\ \A d \in Command : status[d] # "in_progress"
          /\ status' = [status EXCEPT ![c] = "in_progress"]
          /\ deliveries' = [deliveries EXCEPT ![keyOf[c]] = @ + 1]
          /\ UNCHANGED faults

Finish(c, s) == /\ status[c] \in {"pending", "in_progress"}
                /\ status' = [status EXCEPT ![c] = s]
                /\ UNCHANGED <<deliveries, faults>>

(* A fault forgets some commands; it never moves one or makes one up.      *)
Lose(S) == /\ faults < MaxFaults
           /\ faults' = faults + 1
           /\ status' = [c \in Command |-> IF c \in S THEN "absent" ELSE status[c]]
           /\ UNCHANGED deliveries

Next == \/ \E c \in Command : \/ Enqueue(c)
                              \/ Pop(c)
                              \/ \E s \in {"completed", "failed", "blocked"} : Finish(c, s)
        \/ \E S \in SUBSET Command : Lose(S)

Spec == Init /\ [][Next]_vars
=============================================================================
