----------------------------- MODULE WeightStream -----------------------------
(***************************************************************************)
(* What a weight transfer promises a rollout replica: each of its workers  *)
(* loads every weight once, in the order of the trainer's generator and    *)
(* with its own bytes, and the replica is told of the new weights only     *)
(* when all its workers have them.                                         *)
(***************************************************************************)
EXTENDS Integers, Sequences

CONSTANTS
    Receivers,    \* the rollout workers of the replica
    NumWeights    \* weights are 1..NumWeights in the generator's order

VARIABLES
    loaded,       \* per worker: the weights loaded so far, with what was read
    announced     \* whether the server was told

wsVars == <<loaded, announced>>

Whole == [w \in 1..NumWeights |-> [name |-> w, bytes |-> {w}]]

Init == loaded = [r \in Receivers |-> <<>>] /\ announced = FALSE

(* One bucket is loaded: the next few weights.                              *)
Load(r) ==
    /\ \E k \in Len(loaded[r]) .. NumWeights :
           loaded' = [loaded EXCEPT ![r] = SubSeq(Whole, 1, k)]
    /\ UNCHANGED announced

Announce ==
    /\ \A r \in Receivers : loaded[r] = Whole
    /\ announced' = TRUE
    /\ UNCHANGED loaded

Next == Announce \/ \E r \in Receivers : Load(r)

Spec == Init /\ [][Next]_wsVars /\ <>announced
===============================================================================
