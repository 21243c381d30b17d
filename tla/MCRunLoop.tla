----------------------------- MODULE MCRunLoop -----------------------------
(***************************************************************************)
(* Instances of RunLoop: the digests d1, d2, which needs approval, and d3, *)
(* which contains a hard-stop keyword, and a command whose payload is      *)
(* missing.                                                                *)
(***************************************************************************)
EXTENDS RunLoop, TLC

CONSTANTS d1, d2, d3, lost

MCRank == d1 :> 1 @@ d2 :> 2 @@ d3 :> 4 @@ lost :> 3

(* As many as an instance declares.                                        *)
MCRankOfCommand == [c \in Command |-> MCRank[c]]
=============================================================================
