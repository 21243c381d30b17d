--------------------------- MODULE MCCommandQueue ---------------------------
(***************************************************************************)
(* Instances of CommandQueue: of the commands c1, c2, c3, as many as an    *)
(* instance declares, c1 and c2 share a dedupe key, and c3 comes between   *)
(* them in the order of pop_next.                                          *)
(***************************************************************************)
EXTENDS CommandQueue, TLC

CONSTANTS c1, c2, c3, k1, k2

MCKeyOf == [c \in Command |-> IF c = c3 THEN k2 ELSE k1]
MCRank == [c \in Command |-> CASE c = c1 -> 1 [] c = c3 -> 2 [] OTHER -> 3]

ProcSymmetry == Permutations(Proc)

(* The queue if a process only ever dies between two writes, never within  *)
(* one.                                                                    *)
CrashNext == \E p \in Proc : Call(p) \/ Step(p) \/ Abort(p)
CrashSpec == Init /\ [][CrashNext]_vars
=============================================================================
