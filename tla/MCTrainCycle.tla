----------------------------- MODULE MCTrainCycle -----------------------------
(* TLC instances of TrainCycle: an actor that is updated in every step,     *)
(* with every placement of the reward model.                                *)
EXTENDS TrainCycle

UpdatedEveryStep ==
    [rm : {"none", "pool", "colocated"}, freeCache : BOOLEAN, legacy : BOOLEAN,
     remax : {FALSE}, warmup : {0, 1}, valBefore : BOOLEAN, skipResumeVal : {FALSE},
     valOnly : {FALSE}, testFreq : {0, 2}, saveFreq : {0, 2}]

(* The baselines of REMAX, on replicas that keep their memory in sleep; and *)
(* the other ways through the validation before training.                   *)
WithBaselines == {[c EXCEPT !.remax = TRUE] : c \in {d \in UpdatedEveryStep : ~d.freeCache}}
OnResume ==
    {[c EXCEPT !.skipResumeVal = ~only, !.valOnly = only] :
        c \in {d \in UpdatedEveryStep : d.testFreq = 2 /\ d.saveFreq = 2}, only \in BOOLEAN}

Cycles == UpdatedEveryStep \cup WithBaselines \cup OnResume

(* train_siop.sh: no reward model.                                          *)
Siop ==
    {[rm |-> "none", freeCache |-> TRUE, legacy |-> TRUE, remax |-> FALSE, warmup |-> 0,
      valBefore |-> v, skipResumeVal |-> FALSE, valOnly |-> FALSE, testFreq |-> 2,
      saveFreq |-> 2] : v \in BOOLEAN}
===============================================================================
