------------------------------ MODULE TrainCycle ------------------------------
(***************************************************************************)
(* The training loop, RayPPOTrainer.fit, over rollout replicas that share  *)
(* the GPUs of the training engine (hybrid mode, the "naive" checkpoint    *)
(* engine): generate, put the replicas to sleep, compute process rewards,  *)
(* rewards and advantages, update, save, wake the replicas with the new    *)
(* weights, validate.  The job may be killed anywhere and started again.   *)
(*                                                                         *)
(* The driver is sequential, so what it still has to do is a stack of      *)
(* labels; its calls on the replicas are gathered, each replica at its own *)
(* pace.  Weights are named by the step whose update produced them.        *)
(***************************************************************************)
EXTENDS Integers, Sequences, FiniteSets

CONSTANTS
    Replicas,     \* rollout replicas
    TotalSteps,   \* total_training_steps, all the batches of all epochs
    MaxStarts,    \* bound: starts of the job
    Configs       \* the configurations considered, records as in ConfigType

(* rm: no reward model, one on GPUs of its own, or one on the trainer's;    *)
(* step frequencies are 0 when off.                                         *)
ConfigType ==
    [rm : {"none", "pool", "colocated"}, freeCache : BOOLEAN, legacy : BOOLEAN, remax : BOOLEAN,
     warmup : Nat, valBefore : BOOLEAN, skipResumeVal : BOOLEAN, valOnly : BOOLEAN,
     testFreq : Nat, saveFreq : Nat]

ASSUME CycleAssumption ==
    /\ TotalSteps \in Nat
    /\ MaxStarts \in Nat \ {0}
    /\ Configs \subseteq ConfigType

VARIABLES
    config,       \* the configuration of the job
    stack,        \* what the driver does now, and after it returns
    awaited,      \* replicas that have not answered the current call
    globalSteps,  \* global_steps
    actor,        \* the step whose update made the actor's weights
    engine,       \* per replica: its weights, what is mapped, its prefix cache, its tag
    batch,        \* the batch of the step
    newest,       \* global step of the newest checkpoint
    starts        \* starts of the job so far

cycleVars == <<config, stack, awaited, globalSteps, actor, engine, batch, newest, starts>>

NoWeights == -1    \* dummy weights, or weights discarded by a sleep of level 2
LostBlock == -2    \* a cached block whose memory was unmapped
NoTag == -3        \* global_steps is None
Awake == {"weights", "kv_cache"}

NoBatch == [by |-> {}, tags |-> {}, rewards |-> "none", siop |-> FALSE]
Launched == [weights |-> NoWeights, mapped |-> Awake, cached |-> {}, tag |-> NoTag]

CycleInit ==
    /\ config \in Configs
    /\ stack = <<"sleep", "load">>
    /\ awaited = Replicas
    /\ globalSteps = 0
    /\ actor = 0
    /\ engine = [r \in Replicas |-> Launched]
    /\ batch = NoBatch
    /\ newest = 0
    /\ starts = 1

At(label) == stack # <<>> /\ Head(stack) = label

(* The driver goes on with the given labels.  Calls on replicas are made to *)
(* all of them.                                                             *)
Continue(labels) ==
    /\ stack' = labels \o Tail(stack)
    /\ awaited' = Replicas

(* Replica r has answered the call the driver waits for.                    *)
Answered(r) ==
    /\ awaited' = IF awaited = {r} THEN Replicas ELSE awaited \ {r}
    /\ stack' = IF awaited = {r} THEN Tail(stack) ELSE stack

-----------------------------------------------------------------------------
(* The replicas.                                                            *)

(* Its requests have drained; a sleep unmaps weights and KV memory, not the *)
(* engine's table of cached blocks.                                         *)
Slept(e) ==
    IF ~config.freeCache THEN e
    ELSE [e EXCEPT !.weights = NoWeights, !.mapped = {},
                   !.cached = IF @ = {} THEN {} ELSE {LostBlock}]

Sleep(r) ==
    /\ At("sleep")
    /\ r \in awaited
    /\ engine' = [engine EXCEPT ![r] = Slept(@)]
    /\ Answered(r)
    /\ UNCHANGED <<config, globalSteps, actor, batch, newest, starts>>

(* Weights are mapped and transferred, the prefix cache is reset, then the  *)
(* KV memory is mapped.  The legacy workers do not pass the step on.        *)
Mut_CacheNotReset(e) ==
    [e EXCEPT !.weights = actor, !.mapped = Awake, !.tag = IF config.legacy THEN @ ELSE globalSteps]
Updated(e) ==
    [e EXCEPT !.weights = actor, !.mapped = Awake, !.cached = {},
              !.tag = IF config.legacy THEN @ ELSE globalSteps]

UpdateWeights(r) ==
    /\ At("update")
    /\ r \in awaited
    /\ engine' = [engine EXCEPT ![r] = Updated(@)]
    /\ Answered(r)
    /\ UNCHANGED <<config, globalSteps, actor, batch, newest, starts>>

Cached(e) == [e EXCEPT !.cached = @ \cup {e.weights}]

(* A replica has generated its share of the training batch, and a streaming *)
(* reward worker has scored it unless the reward model is colocated.        *)
Generate(r) ==
    /\ At("generate")
    /\ r \in awaited
    /\ batch' = [batch EXCEPT !.by = @ \cup {engine[r].weights},
                              !.tags = @ \cup {engine[r].tag},
                              !.rewards = IF config.rm = "colocated" THEN "none" ELSE "streamed"]
    /\ engine' = [engine EXCEPT ![r] = Cached(@)]
    /\ Answered(r)
    /\ UNCHANGED <<config, globalSteps, actor, newest, starts>>

(* The baselines of REMAX and validation leave the batch as it is.          *)
GenerateOther(r) ==
    /\ At("other")
    /\ r \in awaited
    /\ engine' = [engine EXCEPT ![r] = Cached(@)]
    /\ Answered(r)
    /\ UNCHANGED <<config, globalSteps, actor, batch, newest, starts>>

-----------------------------------------------------------------------------
(* The driver.                                                              *)

(* _load_checkpoint, which finds the newest checkpoint unless resuming is   *)
(* disabled, then the first update_weights.                                 *)
Load ==
    /\ At("load")
    /\ globalSteps' \in {0, newest}
    /\ actor' = globalSteps'
    /\ Continue(<<"update", "prologue">>)
    /\ UNCHANGED <<config, engine, batch, newest, starts>>

ValOnResume ==
    /\ globalSteps > 0 /\ config.testFreq > 0 /\ globalSteps % config.testFreq = 0
    /\ ~config.skipResumeVal

(* The validation before training, which may be all there is to do.         *)
Prologue ==
    /\ At("prologue")
    /\ Continue(IF ~(config.valBefore \/ ValOnResume) THEN <<"next">>
                ELSE IF config.valOnly THEN <<"validate", "done">>
                ELSE <<"validate", "next">>)
    /\ UNCHANGED <<config, globalSteps, actor, engine, batch, newest, starts>>

(* The baselines of REMAX: greedy answers to the prompts, scored by a       *)
(* colocated reward model.                                                  *)
Baselines ==
    IF ~config.remax THEN <<>>
    ELSE IF config.rm = "colocated" THEN <<"other", "sleep", "baseline">>
    ELSE <<"other", "sleep">>

(* The next batch of the dataset, unless there is none.                     *)
NextStep ==
    /\ At("next")
    /\ globalSteps' = IF globalSteps < TotalSteps THEN globalSteps + 1 ELSE globalSteps
    /\ batch' = NoBatch
    /\ Continue(IF globalSteps = TotalSteps THEN <<"done">>
                ELSE <<"generate", "sleep">> \o Baselines
                     \o <<"siop", "reward", "train", "finish">>)
    /\ UNCHANGED <<config, actor, engine, newest, starts>>

(* The scores of the baselines stay in the batch: what is popped from it    *)
(* again is only what their generation brought.                             *)
ScoreBaselines ==
    /\ At("baseline")
    /\ batch' = [batch EXCEPT !.rewards = "baseline"]
    /\ Continue(<<>>)
    /\ UNCHANGED <<config, globalSteps, actor, engine, newest, starts>>

(* The process rewards join the batch; an exception is caught and the step  *)
(* goes on without them, as it does with the estimator of REMAX.            *)
SiopRewards ==
    /\ At("siop")
    /\ \E computed \in BOOLEAN : batch' = [batch EXCEPT !.siop = computed /\ ~config.remax]
    /\ Continue(<<>>)
    /\ UNCHANGED <<config, globalSteps, actor, engine, newest, starts>>

(* A colocated reward model scores the batch unless it has rm_scores; then  *)
(* the scores of the batch are taken for its rewards.                       *)
Reward ==
    /\ At("reward")
    /\ batch' = [batch EXCEPT !.rewards =
           IF @ # "none" THEN @ ELSE IF batch.siop THEN "with" ELSE "without"]
    /\ Continue(<<>>)
    /\ UNCHANGED <<config, globalSteps, actor, engine, newest, starts>>

LastStep == globalSteps >= TotalSteps
Due(freq) == freq > 0 /\ (LastStep \/ globalSteps % freq = 0)

(* What follows the update of the actor: the checkpoint, if it is due or    *)
(* the instance is about to expire, and then the new weights.               *)
Mut_UpdateUnlessSaved(save) == IF save THEN <<"save">> ELSE <<"update">>
AfterActor(save) == (IF save THEN <<"save">> ELSE <<>>) \o <<"update">>

(* Log-probabilities, values, advantages, the critic's update; after its    *)
(* warm-up also the actor's.                                                *)
Train ==
    /\ At("train")
    /\ IF config.warmup <= globalSteps
       THEN /\ actor' = globalSteps
            /\ \E expiring \in BOOLEAN :
                   Continue(AfterActor(config.saveFreq > 0 /\ (Due(config.saveFreq) \/ expiring)))
       ELSE Continue(<<>>) /\ UNCHANGED actor
    /\ UNCHANGED <<config, globalSteps, engine, batch, newest, starts>>

(* _save_checkpoint: CheckpointStore.                                       *)
Save ==
    /\ At("save")
    /\ newest' = globalSteps
    /\ Continue(<<>>)
    /\ UNCHANGED <<config, globalSteps, actor, engine, batch, starts>>

FinishStep ==
    /\ At("finish")
    /\ Continue((IF Due(config.testFreq) THEN <<"validate">> ELSE <<>>) \o <<"next">>)
    /\ UNCHANGED <<config, globalSteps, actor, engine, batch, newest, starts>>

(* One batch of _validate.  A colocated reward model needs the GPUs.        *)
Mut_ScoreAwake == <<"score", "update">>
ScoreOnSharedGpus == <<"sleep", "score", "update">>

Validate ==
    /\ At("validate")
    /\ \E more \in BOOLEAN :
           Continue(<<"other">>
                    \o (IF config.rm = "colocated" THEN ScoreOnSharedGpus ELSE <<>>)
                    \o (IF more THEN <<"validate">> ELSE <<>>))
    /\ UNCHANGED <<config, globalSteps, actor, engine, batch, newest, starts>>

Score ==
    /\ At("score")
    /\ Continue(<<>>)
    /\ UNCHANGED <<config, globalSteps, actor, engine, batch, newest, starts>>

(* The job is killed and started again.                                     *)
StartAgain ==
    /\ starts < MaxStarts
    /\ ~At("done")
    /\ starts' = starts + 1
    /\ stack' = <<"sleep", "load">>
    /\ awaited' = Replicas
    /\ globalSteps' = 0
    /\ actor' = 0
    /\ engine' = [r \in Replicas |-> Launched]
    /\ batch' = NoBatch
    /\ UNCHANGED <<config, newest>>

Done == At("done") /\ UNCHANGED cycleVars

Driver == Load \/ Prologue \/ NextStep \/ ScoreBaselines \/ SiopRewards \/ Reward \/ Train \/ Save
              \/ FinishStep \/ Validate \/ Score
Replica(r) == Sleep(r) \/ UpdateWeights(r) \/ Generate(r) \/ GenerateOther(r)

CycleNext == Driver \/ StartAgain \/ Done \/ \E r \in Replicas : Replica(r)

CycleSpec == CycleInit /\ [][CycleNext]_cycleVars

-----------------------------------------------------------------------------
(* A replica that is asked to generate has its memory mapped, the weights   *)
(* of the actor as it is, and no cached block of other weights or of memory *)
(* that was unmapped since: across sleeps, validations with a colocated     *)
(* reward model, checkpoints and restarts.  It needs an actor without       *)
(* warm-up and, if memory is freed in sleep, an estimator without           *)
(* baselines, see the README.                                               *)
GeneratesReady ==
    \A r \in awaited : At("generate") \/ At("other") =>
        /\ engine[r].mapped = Awake
        /\ engine[r].weights = actor
        /\ engine[r].cached \subseteq {actor}

(* The actor learns from rollouts of its own weights alone, and the workers *)
(* that pass the step on have tagged them with the step that made these.    *)
OnPolicy ==
    At("train") =>
        /\ batch.by = {actor}
        /\ ~config.legacy => batch.tags = {actor}

(* Training, loading and a colocated reward model never find the memory of  *)
(* the GPUs still taken by a replica, if replicas free it when asleep.      *)
OneUserOfTheGpus ==
    /\ config.freeCache
    /\ At("load") \/ At("train") \/ At("score") \/ At("baseline") \/ At("reward")
    =>
        \A r \in Replicas : engine[r].mapped = {}

(* "The resulting rewards are consumed by the siop advantage estimator": if *)
(* process rewards were computed, the rewards the advantages are made from  *)
(* were computed with them.                                                 *)
ProcessRewardsReachAdvantage ==
    At("train") /\ batch.siop => batch.rewards = "with"
===============================================================================
