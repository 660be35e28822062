------------------------------ MODULE ScoreBatch ------------------------------
(***************************************************************************)
(* What SiopScoringClient.score_batch promises its caller: the items are   *)
(* sent chunk by chunk, a chunk is delivered or lost as a whole, and an    *)
(* item that was delivered has its own score.                              *)
(*                                                                         *)
(* The score of item j is j itself; 0 stands for the -inf an item keeps    *)
(* when its chunk is lost.                                                 *)
(***************************************************************************)
EXTENDS Integers

CONSTANTS
    MaxItems,   \* bound: items of one call, a natural number
    ChunkSize   \* chunk_size, a positive number

VARIABLES
    n,       \* len(items)
    scores,  \* all_scores
    start    \* first item of the next chunk

sbVars == <<n, scores, start>>

Lost == 0

Fresh == scores = [j \in 1..n |-> Lost] /\ start = 1

Init == n \in 0..MaxItems /\ Fresh

Chunk == {j \in 1..n : start <= j /\ j < start + ChunkSize}

Deliver ==
    /\ start <= n
    /\ scores' = [j \in 1..n |-> IF j \in Chunk THEN j ELSE scores[j]]
    /\ start' = start + ChunkSize
    /\ UNCHANGED n

Lose ==
    /\ start <= n
    /\ start' = start + ChunkSize
    /\ UNCHANGED <<n, scores>>

Next == Deliver \/ Lose

Spec == Init /\ [][Next]_sbVars /\ WF_sbVars(Next)
===============================================================================
