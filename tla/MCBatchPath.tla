----------------------------- MODULE MCBatchPath -----------------------------
(* TLC instance of BatchPath.  The batches of eight rows give a rank four   *)
(* rows, which is the least for which the order of the micro-batches is not *)
(* its own inverse.  Calls are those the path can make.                     *)
EXTENDS BatchPath

Lengths == 1..3
Small == [1..2 -> Lengths] \cup [1..6 -> Lengths]
Large == {<<1, 2, 2, 3, 1, 2, 2, 3>>, <<3, 3, 2, 2, 2, 2, 1, 1>>,
          <<1, 1, 1, 1, 1, 1, 1, 3>>, <<3, 1, 3, 1, 2, 2, 2, 1>>}
SomeBatches == Small \cup Large

Works(b) == [n \in DOMAIN b |-> Calculate(b[n])]
PathCalls ==
    {[work |-> Works(b), k |-> Ranks, equal |-> TRUE] : b \in Batches}
    \cup {[work |-> Works(b), k |-> k, equal |-> FALSE] :
            b \in [1..3 -> Lengths] \cup [1..4 -> Lengths], k \in 1..3}
==============================================================================
