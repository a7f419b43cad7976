---------------------------- MODULE MCRebalancer ----------------------------
(* Two nodes that move and one that serves the first block of a three-block *)
(* model.  n2's count is not a valid one: it announces more blocks than it  *)
(* loads.                                                                   *)
EXTENDS Rebalancer, TLC

CONSTANTS n1, n2, n3

Three == {n1, n2, n3}
Pair == {n1, n2}
Counts == n1 :> 1 @@ n2 :> 3 @@ n3 :> 1
AtZero == n3 :> 0
=============================================================================
