----------------------------- MODULE MCSiopReward -----------------------------
(* TLC instance of SiopReward and NliClustering: calls small enough to      *)
(* enumerate every batch, and every outcome of the NLI model on five        *)
(* answers.  SiopReward takes what cluster_answers returns as given, so the *)
(* two are checked side by side: a behaviour is one of the one or of the    *)
(* other, and the one that does not run stands still.                       *)
EXTENDS SiopReward, NliClustering

VARIABLE part  \* "rewards" or "clustering"

ProcessCall ==
    [bsz |-> 2, texts |-> 2, maxTurns |-> 2, numRefs |-> 1, calibrated |-> FALSE,
     gold |-> FALSE, determined |-> FALSE, mode |-> "process"]
ShortCall == [ProcessCall EXCEPT !.numRefs = 2]

(* Long rollouts with one reference and calibration, short ones with two,   *)
(* gold answers, and the two baselines on the outcomes of four rollouts.    *)
SmallCalls ==
    {[ProcessCall EXCEPT !.maxTurns = 3, !.calibrated = TRUE],
     ShortCall,
     [ProcessCall EXCEPT !.maxTurns = 3, !.gold = TRUE],
     [ProcessCall EXCEPT !.bsz = 4, !.texts = 3, !.maxTurns = 0, !.calibrated = TRUE,
                         !.determined = TRUE, !.mode = "cluster_frequency"],
     [ProcessCall EXCEPT !.bsz = 4, !.texts = 3, !.maxTurns = 0,
                         !.determined = TRUE, !.mode = "majority_binary"]}

EvidenceWeights == {1, 2}

(* The batch of a reward computation that does not run.                     *)
NoRewards ==
    /\ call = ShortCall /\ ~up /\ ~client
    /\ \A s \in Samples : uid[s] = 1 /\ ans[s] = NoAnswer /\ turns[s] = 0

MCInit ==
    /\ part \in {"rewards", "clustering"}
    /\ Init /\ ClusteringInit
    /\ part = "clustering" => NoRewards

MCNext ==
    \/ part = "rewards" /\ Next /\ UNCHANGED <<part, clusteringVars>>
    \/ part = "clustering" /\ ClusteringNext /\ UNCHANGED <<part, vars>>

MCSpec == MCInit /\ [][MCNext]_<<part, vars, clusteringVars>>
===============================================================================
