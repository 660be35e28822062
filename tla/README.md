# TLA+ models of SIOP

SIOP trains a language model with tools by reinforcement learning. The
repository is a fork of verl (`src/verl`); what it adds is a *process reward*:
the answers of the rollouts of one query are clustered with an NLI model into
outcome modes, and each turn of a rollout is rewarded by how much it raises the
policy's likelihood of the mode's answer. These modules model the way from a
prompt to the advantage of each token, the training step around it, the
distribution of a batch over workers and ranks, the weights' way back to the
rollout replicas, and the checkpoints that let a job survive a crash. Paths below
are relative to `src/verl`.

## 1. The system

One training step (`trainer/ppo/ray_trainer.py`, `RayPPOTrainer.fit`):

```
 prompts -> AgentLoopManager -> AgentLoopWorker -> ToolAgentLoop (one per rollout)
            (pad, deal)                              |  generate        |  tools
                                          AsyncLLMServerManager      tool instances
                                             |            |
                          GlobalRequestLoadBalancer   vLLM replicas <--+
 rollouts (gather, unpad) -> replicas sleep                            |
          -> SIOP rewards: cluster (NLI) -> score (SiopScoringClient -> scoring server) -> diff
          -> NaiveRewardManager / compute_score: rewards on tokens     |
          -> balance over ranks -> micro-batches -> log-probabilities  |
          -> compute_siop_turn_level_advantage -> update actor, critic |
          -> every save_freq steps: _save_checkpoint                   |
          -> update_weights: buckets of weights to every worker -------+
```

### Components

| component | state it keeps | operations | modelled in |
|---|---|---|---|
| load balancer and generate client (`experimental/agent_loop/agent_loop.py` 42-211, `workers/rollout/vllm_rollout/vllm_async_server.py` 520-620, 841-879) | in-flight counters, LRU cache of sticky routes; per call the server and the request id | acquire, release, generate, time out, abort, drain; register, complete, reject | `LoadBalancer` |
| tool agent loop (`experimental/agent_loop/tool_agent_loop.py`) | token ids, response mask, log-probabilities, turn counters, tool instances | pending, generating, processing tools, interacting; `_call_tool` | `ToolAgentLoop` |
| NLI clustering (`utils/siop/nli_clustering.py`) | `semantic_ids`, the loops' indices | `cluster_answers`, `check_entail_batch`, `get_cluster_info` | `NliClustering` |
| scoring client and server (`utils/siop/scoring_client.py`, `scoring_server.py`) | `all_scores`; `_worker_index`, one queue per GPU actor | `score_batch`; `/score`, worker `score_batch` | `ScoringService`, its promise in `ScoreBatch` |
| SIOP process rewards (`utils/siop/siop_process_reward.py`) | the batch, modes, frequencies, references, items, the cached client | `siop_cluster_pass`, `score_pseudo_inputs`, `compute_siop_process_rewards`, the TTRL and EMPO baselines | `SiopReward` |
| rewards on tokens (`utils/siop/turn_utils.py`, `utils/reward_score/siop_reward.py`) | the scan's index and open run, `scores` | `get_assistant_turn_ranges`, `compute_score` | `TurnRewards` |
| reward manager (`workers/reward_manager/naive.py`, `utils/reward_score/__init__.py`) | the row being scored, the reward tensor | `__call__`, `default_compute_score` | `RewardPath` |
| turn-level advantage (`trainer/ppo/core_algos.py` 2475-2536, 2639-2727) | normalised rewards, carried sums, returns | `compute_siop_turn_level_advantage`, `_compute_turn_level_advantage` | `TurnAdvantage` |
| batch path and sequence balancing (`utils/seqlen_balancing.py`, `protocol.py` 73-98, 863-902, `agent_loop.py` 1112-1145, `ray_trainer.py` 1087-1099, `workers/actor/dp_actor.py` 481-508) | the padded batch, the heap of partial partitions, index lists of micro-batches | pad, deal, gather, unpad, balance, split, restore | `SeqlenBalancing`, `BatchPath` |
| training step (`ray_trainer.py` 516-561, 1265-1676, `checkpoint_engine/base.py` 390-414, `workers/engine_workers.py` 633-676) | the step, the actor's weights, per replica its weights, mapped memory, prefix cache and step tag | `fit`, `_validate`, sleep, update of the weights, restart | `TrainCycle` |
| weight synchronisation (`checkpoint_engine/nccl_checkpoint_engine.py`, `nixl_checkpoint_engine.py`, `mooncake_checkpoint_engine.py`, `workers/rollout/vllm_rollout/bucketed_weight_transfer.py`, `vllm_rollout.py`) | two buffers at each end, a third shared with the inference worker, bucket metas, sockets and message queues | build the topology, send, receive, read, acknowledge, copy, clone, load, announce | `WeightTransfer`, `NixlTransfer`, `MooncakeTransfer`, their promise in `WeightStream` |
| checkpoint store (`ray_trainer.py` 859-995, `utils/checkpoint/checkpoint_manager.py`, `fsdp_checkpoint_manager.py`) | the folders `global_step_N`, the tracker file, `previous_saved_paths` | save, rotate, load, resume | `CheckpointStore` |
| single-turn loop, search tool and rate limiter, other estimators and losses, training engines, entry points | see section 8 | | not modelled |

### How they interact

* *Actor calls.* The load balancer, the vLLM servers, the scoring workers are Ray
  actors: calls to one actor are executed one at a time and answered later.
  `release_server` is awaited by nobody, a generation with a timeout if one is
  configured, and the abort that follows a timeout without any (`agent_loop.py` 187).
* *Coroutines.* All rollouts of a worker interleave at every `await`; the calls of
  one turn's tools run concurrently and are gathered with one timeout.
* *HTTP.* The reward code talks to the scoring server; a request that timed out is
  still worked on while the next one is posted.
* *Driver and replicas.* `fit` is sequential, its calls on the replicas are gathered:
  each replica answers at its own pace and the driver goes on when all have.
* *Collectives.* Forward passes and weight broadcasts need all ranks; there is no
  timeout, and a rank that makes one pass more hangs the job.
* *Buffers.* The weights go through five buffers and a process boundary; device
  copies run later than the code that asks for them.
* *Files.* Checkpoints are written by all ranks at once, kept in step by barriers,
  and read by the next process after a crash.
* *Agreement by convention.* `compute_score` and the advantage estimator each find
  the turns of a rollout in the response mask by themselves; the tool agent loop
  must write a mask in which runs of ones are turns.

### What is hard, and what makes each component correct

* **Load balancer**: a timeout races the answer, its abort races the registration
  of the request, releases are executed after later acquires. Correct: every slot
  taken is given back exactly once, unless a server never answers an abort; a
  conversation stays on its server unless its route was evicted; load is shared; no
  conversation goes on while a generation of its is still running.
* **Tool agent loop**: limits met exactly, truncation and padding, cancelled tool
  calls, empty generations. Correct: ids, mask and log-probabilities stay aligned,
  runs of ones are turns, no tool instance leaks, the loop ends.
* **NLI clustering**: the judge is neither symmetric nor transitive, and comes in
  chunks. Correct: the result is that of the sequential greedy algorithm, and the
  reference of a mode is what its members were compared with.
* **Scoring**: late answers, failing workers, scattered results. Correct: an item
  has its own score or none; the call returns.
* **Process rewards**: missing answers, partial scores, a server that comes and
  goes. Correct: a turn's reward is made of the scores of its own two turns; the
  terminal reward never gets lost; shares of modes sum up to 1; one majority.
* **Rewards on tokens, reward manager, advantage**: two independent scans, two
  passes with carried variables, one tensor for rollouts of different lengths, and
  between them a score function that returns a number or a list. Correct: what it
  returns is put into its own rollout's row, the k-th of a list of rewards where the
  estimator finds the k-th turn; a token is credited with what its own and later turns
  of its own rollout earned in that row, and nothing else.
* **Batch path**: two reorderings, two distributions and a padding between a prompt
  and its result. Correct: the result of a row is its own, partitions are exact,
  merging never makes them less even, all ranks make the same number of passes.
* **Training step**: replicas that sleep, wake and change weights from several
  places in the loop, with validation, checkpoints and restarts in between. Correct:
  a replica generates with mapped memory and the actor's present weights, the actor
  learns from its own rollouts, the GPUs' memory has one user.
* **Weight synchronisation**: sends, one-sided reads, copies and loads overlap by
  design, and ranks of a chain go at their own pace. Correct: no buffer has two
  users; every worker loads every weight once, with its own bytes; the server is told afterwards, and is told.
* **Checkpoint store**: a crash between any two file operations, rotation during a
  save, ranks that write at their own pace. Correct: the tracker names a whole
  checkpoint of one run and moves forward.

`PROJECT.json` lists the hazards line by line with the property that covers each.
Hazards of the code that no model here reaches:

* `rmtree` ignores errors (`checkpoint_manager.py` 142): a folder that could not be
  removed stays on disk and leaves the list.
* `/health` answers healthy although all scoring workers have died
  (`scoring_server.py` 262).
* A lost NLI chunk leaves 0.0 in place, which the calibration counts as evidence
  against the answer (`scoring_client.py` 74).
* The tool agent loop does not look at the stop reason: a generation the server
  aborted is continued as a finished turn (`tool_agent_loop.py` 271).
* The `TimeoutError` of one rollout fails the gather of its worker and the job
  (`agent_loop.py` 206); in `TrainCycle` that is a `StartAgain`.
* A weight larger than a bucket fails an assertion on rank 0 only, while the
  receivers wait (`nccl_checkpoint_engine.py` 267); bucket metadata goes over PUB/SUB,
  which drops what is published before a subscriber has joined (77).

## 2. The modules

A definition keeps the name of the function or variable it models where there is
one; `PROJECT.json` maps each definition to its lines. Definitions named `Mut_...`
stand before the definition they would replace: each is a plausible mistake in
that code and exists to show that a property can fail.

**LoadBalancer.** One conversation is one rollout: its `request_id` is the sticky
key. `AcquireServer` and `ReleaseServer` are the two methods of the balancer actor
(`inflight`, `cache`, `route`; the cache is the key order of the `LRUCache`).
`releases` counts fire-and-forget calls not executed yet. `CallAcquire`, `Submit`,
`Answer`, `TimeOut`, `AbortRequest`, `Drain` and `Leave` are the awaits of
`AsyncLLMServerManager.generate`, with the `finally` clause in `Leave`; `job` is the
server's view of the current `turn_request_id`. An abort acts only on a registered
request, in every other case it answers "not found" and changes nothing. That it
answers at all is the server's doing: the client waits for it without a timeout.

**ToolAgentLoop.** `phase` is `AgentState`. A token is the number of the turn it
comes from (0 the prompt, k a generation, -k the observation after it), which is
all the properties need. Tool calls are `new`, `executing` or `done`, each on its
own. `LimitReached`, `Observe` and `ToolsAnswered` carry the three limits with the
comparisons of the code. `Budget` is the server's `max_tokens`: what the configured
lengths leave, clamped to what is left of the model's context; a prompt that leaves
nothing raises. `settings` is the rollout's configuration, chosen in `Init`: tools or
an interaction, timeouts, turn limits, whether the server may answer with no token,
the length of the prompt and `max_model_len`. The `Output...`
operators are what `run` returns and `_agent_loop_postprocess` pads, slices by a negative length and the multiplication by the attention mask
included; a rollout without a response token raises there, so `Returned` excludes it.

**NliClustering.** One action per step of the two nested loops. Every NLI label of
every pair is chosen freely, so symmetry or transitivity is never assumed.
`MCSiopReward` runs it beside `SiopReward`, which takes its result as given; the two
share no variable, and a behaviour is one of the one or of the other.

**ScoreBatch, ScoringService.** `ScoreBatch` is the abstract promise of
`SiopScoringClient.score_batch`: chunk by chunk, all or nothing, each item its own
score, and it returns. `ScoringService` is the client with the FastAPI handler and
its GPU workers; requests are named by their first item. `Batch == INSTANCE
ScoreBatch` identifies `n`, `scores` and `start`; everything else is hidden.

**SiopReward.** `compute_siop_rewards_full`. `call` holds the configuration of a
call, chosen with the batch in `Init`. Scores are symbolic (item k has score k), so
a reward names exactly the scores it was computed from. `lead` is any clustering
`NliClustering` can return. `ScoreChunk` is a step of `ScoreBatch`, so that this
module composes with `ScoringService` through the promise of the latter.
`ServerChanges` lets the server start or die between any two calls.

**TurnRewards, TurnAdvantage, RewardPath.** `ScanToken`/`ScanEnds` is
`get_assistant_turn_ranges`, `PlaceNothing`/`PlaceTerminal`/`PlaceTurn` the three ways
of `compute_score`; `TurnAdvantage` has `NormalizeGroup` per query, then `Accumulate`
backwards and `Broadcast` forwards over the turns of each sample. `RewardPath`
composes the two the way the program does: it extends `TurnRewards`, takes
`TurnAdvantage` by `Adv == INSTANCE ... WITH rewards <- rewardTensor`, and adds
`NaiveRewardManager.__call__`, which scores one rollout after the other into the
tensor. What becomes of the scores `compute_score` returns depends on the manager's
score function, `compute`: `default_compute_score` returns the first of them, which
goes on the last token (`StoreFirst`), and raises if there is none (`Raised`); a custom
function may hand the list on, which then fills the row (`StoreTurns`). A rollout
without process rewards gets an outcome (`StoreOutcome`). The batch, its
queries and its process rewards are any of the bounded ones, so the advantage is
computed on what the first half produced and on nothing else.

**SeqlenBalancing, BatchPath.** `SeqlenBalancing` is `karmarkar_karp`: `states` is the
heap, `Merge` pops two states of the largest spread and pushes their combination.
Ties of the heap and of `sorted` are broken by what the code compares, and where it
leaves the order of equal sets open, every order is a step. `BatchPath` extends it
and makes two kinds of calls: one of equal size over the ranks (`_balance_batch`),
one over the micro-batches of each rank (`rearrange_micro_batches`). Around them
stand `WorkerAnswers` and `Gather` of the agent loop manager, `Count` with its
`all_reduce`, `Forward` as a collective of all ranks, `Restored` with the inverse
permutation, and `Collect`. `Sorted` is `sorted` under a total order: the n-th element
is the one with n - 1 others ahead of it.

**TrainCycle.** The driver of `fit` is a stack of labels: what it does now, and what
follows when that returns; an action replaces the head by the calls the code makes.
`Sleep`, `UpdateWeights`, `Generate` and `GenerateOther` are calls on all replicas,
each answering on its own. Weights are named by the step whose update made them, a
replica's prefix cache by the weights its blocks were computed with. `config` holds
where the reward model runs, whether replicas free their memory, which kind of
workers there are, the frequencies of saving and validation, and whether validation
before training is skipped or all there is to do. With REMAX a step has a second
generation, its baselines, which a colocated reward model scores (`ScoreBaselines`).

**WeightStream, WeightTransfer.** `WeightStream` is the promise of an update: every
worker loads the weights in order with their own bytes, and the server is told when
all have. `WeightTransfer` is rank 0 with its two buffers (`Pack`, `Broadcast`), the
network (`Transmit`, `Arrive`), a rollout rank that hands tensors of one buffer to the
shared bucket while the other receives (`NextBucket`, `Yield`, `SendBucket`), the
device on which copies run later (`CopyRuns`), and the inference worker
(`CloneBucket`, `Load`). A cell of a buffer holds the number of the weight its byte
belongs to, so reading a buffer too late shows in what is loaded.
`Stream == INSTANCE WeightStream` identifies `loaded` and `announced`.

**WeightChain, NixlTransfer, MooncakeTransfer.** The two engines in which buckets go
from rank to rank. `WeightChain` is what they share: rank 0's packing (`Pack`,
`BucketReady`, `EmptyBucket`), the tensors handed out as views and copied later
(`Yield`, `CopyRuns`), and the driver that goes on when all calls have returned.
`NixlTransfer` begins with `build_topology`, Python's negative slices included; then
a rank offers a bucket (`Offer`, the constructor of `ReadableOperation`), the next one
reads it from the owner's memory at any time after that (`ReadMetadata`, `ReadRuns`),
and both change buffers when their operations have ended (`Swap`).
`MooncakeTransfer` has the other way of acknowledging: a rank writes four magic bytes
over the beginning of the buffer it has read (`Acknowledge`), and the owner polls for
them (`Acknowledged`, `MayOverwrite`). Both end where the tensors have been copied; what
becomes of the copies is the same as in `WeightTransfer` (`SendBucket` to `Load`).

**MCCheckpointEngine.** The three engines beside one another: `backend` says which one
`CheckpointEngineManager` uses, the others stay as they were built. All three are
compared with one `WeightStream` by one of their receivers, `watched`, chosen at the
start; as every choice is checked, this is the refinement by all of them.

**CheckpointStore.** The disk is `[step -> [file -> content]]` with a content of
absent, torn, or the number of the run that wrote it. `EnsureCapacity`, `Unlink`,
`Removed`, `StartWriting`, `BeginShard`, `EndShard`, `AllShardsWritten`,
`RegisterCheckpoint` are the steps of the FSDP manager and its barriers,
`RoleSaved`, `BeginData`, `EndData`, `OpenTracker`, `WriteTracker` those of the
trainer. `Crash` may come between any two of them; `Restart` is `_load_checkpoint`.

How they compose: `RewardPath` runs `TurnRewards` and `TurnAdvantage`; `BatchPath`
runs `SeqlenBalancing`; `ScoringService` implements `ScoreBatch`, on which
`SiopReward` runs; `WeightTransfer`, `NixlTransfer` and (at its last rank)
`MooncakeTransfer` implement `WeightStream`, which is one `UpdateWeights` of `TrainCycle`
for replicas on GPUs of their own; a `Save` of
`TrainCycle` is what `CheckpointStore` takes apart.

## 3. The runs

Every passing run is exhaustive within its bounds.

| run | module, configuration | shows |
|---|---|---|
| `lb` | `MCLoadBalancer`, `LoadBalancer.cfg` | 3 conversations, one with a second turn, 2 servers, a cache of 2. Slot accounting, no orphan behind a conversation that goes on, fair share, stickiness; although servers may never answer, all slots are given back but those of clients that wait for an abort. |
| `loop` | `MCToolAgentLoop`, `ToolAgentLoop.cfg` | tools only with both turn limits; the same with a longer prompt and a context shorter than prompt and response; an interaction with empty generations and no limit; 10 response tokens, up to 3 calls found and 2 executed per turn: alignment, turns, room, release of the tools, termination. |
| `score_service` | `ScoringService.cfg` | up to 5 items in chunks of 2, 3 workers: refinement of `ScoreBatch` with its liveness, even dealing. |
| `siop` | `MCSiopReward`, `SiopReward.cfg` | five kinds of call: long rollouts with one calibrated reference, two references, gold answers, and the two baselines on four rollouts; beside them, the clustering of 5 answers in chunks of 2 under every labelling. |
| `reward_path` | `MCRewardPath`, `RewardPath.cfg` | every two rollouts of up to 5 tokens (6 together), every set of process rewards, one or two queries, discount 2, both score functions: from rewards to credit. |
| `default_score` (violation) | `MCRewardPath`, `RewardPathDefault.cfg` | the same with the default score function: see section 7. |
| `batch` | `MCBatchPath`, `BatchPath.cfg` | every batch of 2 and of 6 rows, four of 8 rows; 4 agent loop workers, 2 ranks: results come back to their rows, exact and ever more even partitions, no rank waits for ever. |
| `cycle` | `MCTrainCycle`, `TrainCycle.cfg` | 2 replicas, 3 steps, 2 starts of the job, every placement of the reward model, both kinds of workers, the baselines of REMAX on replicas that keep their memory, validation before training left out on resume or followed by nothing: ready replicas, on-policy batches, one user of the GPUs. |
| `cycle_siop` (violation) | `MCTrainCycle`, `TrainCycleSiop.cfg` | see section 7. |
| `transfer` | `MCCheckpointEngine`, `CheckpointEngine.cfg` | 4 weights of every size of 1 or 2 cells, buckets of 2, 2 receivers, each of the three engines: refinement of `WeightStream` with its liveness by every receiver (of Mooncake the last), and no NCCL buffer with two users. |
| `ckpt` | `CheckpointStore.cfg` | actor and critic on 2 ranks, the actor's limit 2, the critic's none, 3 steps, 3 starts of the job, all resume modes. |
| `ckpt_keep_one` (violation) | `CheckpointStoreKeepOne.cfg` | see section 7. |

**Why the bounds are enough to be interesting.** `lb`: three conversations overflow
a cache of two, and a second turn is the first that can be sticky; two turns also
suffice for a late release of the first to meet the acquire of the second. `loop`:
ten tokens hold three turns with observations and let each limit be met exactly,
missed by one and exceeded, and a context of nine tokens ends before the response
does; of three calls found one is beyond `max_parallel_calls`. `score_service`: two items and
three workers leave a worker idle and make dealing wrap; three chunks let two late
ones be in flight. `siop`: two rollouts show a chunk that spans two rollouts, three
turns show a gap in the middle, two references show a turn split by a chunk;
baselines need four rollouts for two modes of equal size; with five answers to
cluster a mode's open chunk, an answer stolen by an earlier mode and a short last
chunk all occur. `reward_path`: five
tokens give up to three turns, six together two rollouts with different numbers
of turns; two rollouts are one query of two or two of one. `batch`: six
rows on four workers need padding, and two rows need more of it than there are rows;
eight rows give a rank four, the least for which the order of the micro-batches need
not be its own inverse, so that a permutation applied in the wrong direction shows.
`cycle`: three steps let saving and validation with frequency 2 fall on the second
and on the last, and a restart resume between them; two replicas can be out of step.
`transfer`: four weights make two to four buckets, so that each buffer is used again
while the other is read, and weights that leave a bucket partly empty occur. Of a
chain of two ranks one passes buckets on and one does not.
`ckpt`: a limit of two and three steps make the actor evict in a run and the critic,
without a limit, keep everything beside it; three starts allow a crash during the
save after a restart.

The named bounds are `MaxTurns`, `Returning` (LoadBalancer), `MaxCalls`,
`MaxObservation`, `Settings` (ToolAgentLoop), `MaxItems` (ScoringService), `Calls`,
`Weights` (SiopReward), `MaxLength`, `RewardValues` (TurnRewards), `MaxTokens`
(RewardPath), `Calls`, `Batches` (SeqlenBalancing, BatchPath), `TotalSteps`,
`MaxStarts`, `Configs` (TrainCycle), `NumWeights`, `BucketSize` (WeightTransfer,
WeightChain), `Rollouts`, `Trainers` (WeightChain, NixlTransfer),
`MaxSteps` and `MaxRuns` (CheckpointStore); no other constant limits the behaviours.

## 4. Fairness

* `LoadBalancer!FairSpec`: a call sent to a live actor is executed, an answer or a
  timer wakes the coroutine that awaits it. Servers get no fairness when the client
  has a timeout, neither for the generation nor for the abort: the latter is awaited
  without one, and a client whose abort is never answered stays there. Without a
  timeout, a generation must end by itself.
* `ToolAgentLoop!FairSpec`: some `Step` is taken as long as one is possible. Tool
  calls and the wait on them have timeouts, the server and the interaction answer
  or fail; which of these happens is left open. That an answer is one the loop cannot
  digest (`ToolPhaseRaises`) is possible and never relied on. A tool's `release` is
  assumed to return.
* `ScoringService!Spec`: only the client is fair. Its HTTP timeout ends every wait,
  so `GiveUp` is always possible; neither the server nor a worker is trusted.
* `MCCheckpointEngine!EngineSpec`, as `Spec` of each engine: weak fairness of the
  next-state relation. Each step is the end of a wait that nothing but the step itself
  can end, and the processes do not compete: a step that is possible stays so, and
  there are finitely many. In the chains, waiting for a notification or for magic bytes
  is polling without a timeout (`Poll`, a step that changes nothing), so that a chain in
  which everybody waits fails the refinement's liveness instead of being a deadlock.
* `BatchPath!BatchSpec`: weak fairness of `BatchNext`. Workers answer, and a
  collective ends when all ranks have entered it. A collective has no timeout, so a
  rank that waits for one the others never enter stays there: `RanksWait`, a step
  that changes nothing, keeps that from being a deadlock of the model and
  `AllRanksFinish` from holding for lack of it.

All actor methods and handlers are executed whole between two awaits, which is why
they are single actions.

## 5. Proofs

TLAPS checks these for every value of the constants allowed by the modules'
assumptions (`ConstantsAssumption` of the module, `CallsAssumption`,
`CycleAssumption`, `ClusteringAssumption`, `PathAssumption`), which ask for types
and for what the code asserts, and for no bound. A `...Proofs` module extends the
module or the two modules it is about.

| theorem | property | argument |
|---|---|---|
| `LoadBalancerProofs!AccountingInvariant`, `NoSpuriousRelease` | `InflightAccounting`; `ReleaseNeverRaises` | `InflightAccounting` is inductive with the types it needs. It says more than the error's absence: without "counter = holders + releases under way" a release that is executed late could not be told from a spurious one. The cardinality lemmas `HoldersGrow` and `HoldersShrink` carry the steps. `ReleaseNeverRaises` is its consequence and no property of a run. |
| `LoadBalancerProofs!RoutingAlways`, `Sticky` | `StickyUnlessEvicted` | `Routing`: the cache holds no key twice and is ordered by use (`ByUse`), and a conversation that has acquired is either in it with the server it was given, or as many others as the cache holds have acquired since. The two lists of the cache stay aligned through `RefreshedAt`, the one step that drops a position and appends a key. |
| `LoadBalancerProofs!NoOrphans`, `FairShareAlways` | `OrphansOnlyAfterFailure`; `FairShare` | A conversation that goes on has seen its answer. For the share, `Counted`: as long as all are in their first turn, every count of a server stands for a conversation of its own that acquired it, so the least loaded server has less than its share before it is given another. |
| `ToolAgentLoopProofs!MaskMarksGeneratedAlways`, `ResponseFollowsPrompt` | `MaskMarksGenerated`, `ResponseHasNoPrompt` | `Aligned`: ids end with as many tokens as the mask has, and the mask says which were generated. It survives both appends (`GrowAligned`); truncation, padding and negative slices then preserve it. Both hold for every setting, empty generations included. |
| `ToolAgentLoopProofs!RunsAreTurnsAlways`, `LogprobsAligned`, `ResponseEndsGenerated` | `RunsAreTurns`, `LogprobsBelongToTokens`, `EndsWithGenerated` | `Turned`: a generation starts behind the prompt or an observation, and its turn is above all that came before; so no run of ones has tokens of two turns. `Logged` and `Ended` say the same of the log-probabilities and of the last token kept, as long as no generation is empty. |
| `ToolAgentLoopProofs!RoomToGenerateAlways`, `ToolsReleasedAlways` | `RoomToGenerate`, `ToolsReleased` | `RoomLeft`: an observation of tools is only appended if the response does not become full by it, and that leaves a budget too, if the prompt and the context have the configured lengths. `InstancesTracked`: the instances that exist are those of the calls that execute, and a call executes only in a tool phase. |
| `SiopRewardProofs!ClusteringIsGreedy`, `LeaderIsReference`, `ModesHaveLeaders` | `ModesAreGreedy`, `ReferenceIsLeader` | `ModeInv` (members were judged equivalent to their leader, who is the first) and `VainInv` (everything not in a mode was compared with its leader in vain, except the pending answers of the open one). `ModesHaveLeaders` says that what `NliClustering` returns is one of the `Clusterings` that `SiopReward` starts from. |
| `SiopRewardProofs!DifferencesAreOfOneTurn`, `LostScoresLeaveTerminal` | `DifferencesAreOwn`, `DegradesToTerminal` | `ScoresInv`: when rewards are computed item k has score k or none, or there is no client and no score; `RewardsInv`: the result is what is computed from the scores, row by row. |
| `SiopRewardProofs!SharesSumToOne`, `OneModeWins` | `QIsDistribution`, `MajorityIsDominant` | The rollouts of a query are the disjoint union of its modes, and a sum over a union is the sum of the sums; the frequency counted by text is that of the mode because equal answers are together. The first of the largest modes exists in a finite set, and is one. |
| `RewardPathProofs!RangesAreRunsAlways`, `RewardsAreReadBack` | `RangesAreRuns`, `RewardsReadBack` | `ScanInv`: closed runs are maximal and end before the open one, which reaches the last token scanned; every generated token so far is in one of them. So the k-th range found by `compute_score` is the k-th run of the mask, and its list has the k-th reward at the k-th turn's end (`ListIsRead`). `RowRead` of a stored row says what either score function makes of that list (`RowsAreRead`); it is a part of `PathInv`, since the tensor's rows are written once and in order. |
| `RewardPathProofs!GroupsAlwaysCentred`, `CreditAlwaysEarned` | `GroupsAreCentred`, `CreditIsEarned` | `PathInv`: rows stored hold what the turns earned under the score function (`ReadIsEarned`), the estimator waits at its initial state until all rows are stored, a group that is normalised sums up to zero (`SumsAreLinear`), the backward pass carries the discounted credit of the turns after it, and the forward pass has spread the credit of the turns behind it over their own tokens and over nothing else. |
| `ScoringServiceProofs!ServiceImplementsBatch`, `DealtEvenlyAlways` | safety part of `ImplementsScoreBatch`; `DealtEvenly` | `PartsInv`: of a request taken up each worker's part is queued, failed, or in the answer. So an answered request has all its items (`EveryIndexIsDealt`), and each step is a step of `ScoreBatch` or a stutter. Dealing from where the last request ended keeps the numbers of items within one of each other. |
| `BatchPathProofs!MergingAlwaysBalances`, `PartitionAlwaysExact` | `MergingBalances`, `PartitionIsExact` | `StatesInv`: the sets of every state are in decreasing order, which is why joining the largest of one with the smallest of the other leaves no difference that neither had. `ExactInv`: every item is in exactly one set of one state, empty sets have sum 0 and stand last, a state with an empty set has no set of two items; for equal sizes all sets of a state have one size. That k items at least leave no set empty is an injection argument (`NoneEmpty`), that the sets come out equal a counting one (`EqualSets`). |
| `BatchPathProofs!ResultsAlwaysOwn`, `PathPartitionsExactly`, `PathMergingBalances` | `ResultsAreOwn`, `PartitionIsExact`, `MergingBalances` | `BatchInv` follows one statement, that a sequence `Lists` a set, each member once: the batch lists the rows, before and after it is balanced; the micro-batches of a rank, put together, list the positions of its share; what a rank has computed is its share in the order of the micro-batches passed. Sorting lists (`SortedLists`: in a total order every place is taken once), the two interleavings do (`OutsideLists`, `OutermostLists`), lists of disjoint sets do when joined (`FlattenLists`), the chunks of a batch are the batch (`ChunksJoin`), and the padding makes equal chunks (`PaddedSize`). Every call made meets the assertions of `karmarkar_karp` (`RowsCall`, `LocalCallFacts`), whatever number of micro-batches the ranks agree on, which also carries the other two properties over to the path. |
| `WeightTransferProofs!TypeCorrect`, `BuffersAlwaysApart`, `TransferImplementsStream` | `TypeOK`; `BuffersApart`; safety part of the stream | `IInv` follows the weights through the pipeline: what is loaded, cloned, in the shared buffer, in the engine's two buffers, on the wire, being broadcast and being packed are consecutive segments of the sequence of weights, each in a buffer that still holds its bytes as long as something is to read them. A load then extends the prefix by whole buckets, and an announcement finds every worker's sequence complete. |
| `TrainerProofs!TrackedCheckpointIsComplete`, `FailedRestartsAreTorn` | `TrackedIsComplete`, `RestartFailsOnlyIfTorn` | assume that no limit is 1. `SavedInv`: registered paths are in order and, before the role's registration, no newer than the tracker; hence what is removed is older than the tracked step (`DoomedInv`). `FilesInv`: once registered, a role's shards of the current step are whole. A restart from elsewhere is excluded for good by `Safe`. |
| `TrainerProofs!TypeCorrect`, `TrackerMovesOn`, `RetentionHolds` | `TrackerNeverGoesBack`, `RetentionWithinRun` | For every limit. The step a run is at is never behind the tracker unless it resumed elsewhere; a folder of the run is registered, about to be removed or being written (`Accounted`), and the first two are no more than the limit. |
| `TrainerProofs!GpusHaveOneUser` | `OneUserOfTheGpus` | `CycleInv`: the driver's stack is always a suffix of the program of `fit` (`Runs`), and at a label that works on the GPUs every replica has given its memory back. For every configuration. |
| `TrainerProofs!ReplicasAreReady`, `RolloutsAreOnPolicy` | `GeneratesReady`, `OnPolicy` | assume `AlwaysUpdated`: no REMAX baseline and a critic warm-up of 0 or 1; for other configurations the first is false (section 7). `PolicyInv`: between an update and the next sleep every replica has the actor's weights; the actor is that of the step; the batch was made by it. |

The properties about sums, and about recursive functions (the credit of a turn, the
rank of a member of a finite set of numbers), are inductive in their argument. Where
the library's induction theorems would need an operator as a parameter, the proof
takes the least counterexample: a nonempty set of naturals has a least member, the
step before it holds, and the recursive equation gives the contradiction.

Only model-checked: liveness (`AllReleased`, `Terminates`, `AllRanksFinish`, the
return of `score_batch`, the end of a transfer), which needs ENABLED; and the
refinement of `WeightStream` by `NixlTransfer` and by the last rank of
`MooncakeTransfer`. `TypeOK` declares the ranges of a module's variables; it is an
invariant of no run, and part of the inductive invariant where a proof needs it.

## 6. What the models leave out

* `LoadBalancer`: the contents of generations, a failing balancer actor, servers
  that die (the generation then ends with an error, as any other).
* `ToolAgentLoop`: images, tool rewards, message texts; log-probabilities are
  assumed to be requested. A generation the server aborted is a short or empty one.
* `SiopReward`: tokenization; references with an empty token range; gold answers
  that are not strings; the exponentials of the scores. `QIsDistribution` and
  `MajorityIsDominant` are stated for calls in which the NLI model never separates
  two equal answers, because the code counts by text.
* `ScoringService`: `/nli_score` and `/cluster`, which deal items in the same way,
  and start-up. An item whose score is not a JSON number makes its whole request
  fail; that is one of the reasons behind `GiveUp`.
* `RewardPath`: the functions that judge an answer's text; an outcome is any of the
  reward values. Of `compute_score`, the fallback for a call without a mask; of
  `default_compute_score`, data sources that ignore process rewards, whose rollouts are
  scored as those without any. A custom score function is external: one that calls
  `compute_score` of `siop_reward` and returns its list.
* `TurnAdvantage`: the division by the standard deviation, which scales a group
  once more, and the ablations that leave the turn level.
* `SeqlenBalancing`, `BatchPath`: `greedy_partition`, `keep_minibatch`,
  `prefix_grouper`, `force_group_size`, `num_batches_divided_by`, fixed micro-batch
  sizes. Workloads are those of `calculate_workload`, as integers.
* `TrainCycle`: the computations on the batch, which are one step; profiling,
  filtering of groups; a rollout deployment on GPUs of its own, whose transfer is
  `WeightTransfer`. A critic warm-up of 2 or more, and the baselines of REMAX on
  replicas that free their memory, are in the module and not in `cycle`: see section 7.
* `WeightTransfer`: set-up and tear-down of process groups and sockets,
  quantisation, LoRA; the HCCL engine, the same code on another transport, and
  Kimi's, whose work an external `ParameterServer` does.
* `NixlTransfer`, `MooncakeTransfer`: failing transfers, which end the process;
  weights that happen to begin with the magic bytes; the way from a copied tensor to
  the model, which is that of `WeightTransfer`.
* `CheckpointStore`: HDFS copies, `async_save`, file system errors other than a
  crash; the contents of shards.

## 7. Where code and documentation part

Three violation runs show a statement of the documentation that the code breaks:

* `ckpt_keep_one`: `ensure_checkpoint_capacity` promises that with a limit of 1 the
  existing checkpoint is kept "until the new save completes successfully"
  (`checkpoint_manager.py` 148-149). `register_checkpoint` removes it when the
  shards of one role are written; `data.pt`, the critic and the tracker come later.
  A crash in between leaves a tracker that names a removed checkpoint.
* `cycle_siop`: "The resulting rewards are consumed by the `siop` advantage
  estimator in verl" (`README.md` 35 of the repository). In the configuration of
  `train_siop.sh` there is no reward model, and every rollout is scored while the
  batch is generated (`ray_trainer.py` 850-854, `agent_loop.py` 832-860), so the batch
  arrives with `rm_scores`. The process rewards join it afterwards (1427), the
  colocated scoring is skipped (1436), and `extract_reward` takes `rm_scores`
  (`trainer/ppo/reward.py` 156). `NaiveRewardManager` would read the process rewards
  (`naive.py` 202), but has run by then; were it to run later, its default score
  function would still reduce them, see the next item. The package `reward_loop`, whose workers do
  the scoring during generation, is not part of the repository; what is modelled is
  how `ray_trainer.py` and `agent_loop.py` use it. `RewardPath` models the intended
  order, process rewards before scores.
* `default_score`: `siop_reward` "Places pre-computed SIOP process rewards at turn
  boundary tokens" (`siop_reward.py` 4) and returns a score for every token; the
  manager has a branch for such a list, "Turn-level rewards (e.g., from
  siop_reward.compute_score)" (`naive.py` 233). In between, `default_compute_score` ends
  with `float(res[0])` (`utils/reward_score/__init__.py` 177): the list becomes the score
  of the first response token, which the manager writes on the last one (`naive.py`
  249). With more than one turn that score is 0 unless the first turn is a single
  token; with no token, `res[0]` raises. The branch for lists is reached with a custom
  score function only, and `siop_reward.compute_score` itself is not one: the manager
  hands the process rewards on inside `extra_info`, not as the argument of that name.

The other properties are stated so as to say precisely what does hold where a
stronger reading does not:

* `AllReleased`: after a timeout the client waits for the abort without a timeout
  (`agent_loop.py` 187), and the abort waits for the engine
  (`vllm_async_server.py` 867); a server that hangs there keeps the client, and with it
  the slot. The property is about all other slots.
* `RoomToGenerate`: the server clamps its budget to `max_model_len`
  (`vllm_async_server.py` 556), and nothing keeps the prompt of a rollout within
  `prompt_length`. There is a budget when the context holds both configured lengths
  and the prompt is no longer than its own; a rollout with tools always has room in
  the response.
* `ResponseHasNoPrompt`: a rollout whose only generation is empty returns
  `prompt_ids[-0:]`, the whole prompt, as its response (`tool_agent_loop.py` 191,
  against `agent_loop.py` 228); the tokenizer hands its empty mask back
  as a list, on which `dim` raises (`agent_loop.py` 698). The property, like the others on
  the output, is about rollouts with a response.
* `LogprobsBelongToTokens`: `if agent_data.response_logprobs` takes an empty first
  generation for absent log-probabilities (`tool_agent_loop.py` 454, 486) and the
  observation after it gets no filler; the property is about servers that never
  answer with no token.
* `EndsWithGenerated`: a generation without a token leaves the observation before it
  at the end of the response, and the terminal reward with it; the property is about
  servers that never answer with no token.
* `OrphansOnlyAfterFailure`: after an abort that answered "not found"
  (`vllm_async_server.py` 854) the generation runs on without a slot; only a
  conversation that has failed leaves one behind.
* `RestartFailsOnlyIfTorn`: the tracker is truncated before it is written
  (`ray_trainer.py` 937), and `find_latest_ckpt_path` calls `int` on what it finds.
* `TrackedIsComplete`, `TrackerNeverGoesBack`: a run that did not resume from the
  tracked step may later save into the tracked folder.
* `RetentionWithinRun`: the list of saved paths is not persisted; checkpoints of an
  earlier run are never rotated out.
* `RewardsReadBack`, `CreditIsEarned`: under the default score function they speak of
  the one score it leaves, under a custom one of all rewards.
* `RewardsReadBack`: with a single turn the reward goes to the last valid token
  (`siop_reward.py` 195), which is no turn end if an observation follows.
* `CreditIsEarned`: a single score goes to the last token before the padding, which is an
  observation if the rollout ends with one, and to index -1 if there is no token
  (`naive.py` 246, 249); it is then lost.
* `DifferencesAreOwn`: with several references a lost chunk may take some of them;
  the remaining weights are not renormalised (`siop_process_reward.py` 499).
* `DegradesToTerminal`: a client cached while the server was healthy is not checked
  again (`scoring_client.py` 113); scores are then lost instead of zero, with the
  same rewards.
* `GeneratesReady`: replicas are put to sleep in every step (`ray_trainer.py` 1362)
  and woken only after an update of the actor (1588). With `critic_warmup` of 2 or
  more the second step, and with REMAX the baselines of every step (1373), are
  generated on replicas that sleep, when `free_cache_engine` is on. The run has
  neither; the module has both, and the property fails there.
* With REMAX and a colocated reward model, the scores of the baselines stay in the
  batch: `rm_scores` is never assigned (`ray_trainer.py` 1379, 1389), so they are not
  removed, the batch counts as scored (1436) and is trained with them. No run asks for
  more than that, as no document says otherwise; the module follows the code.
* `OnPolicy`: the legacy FSDP workers do not pass `global_steps` on, so their
  rollouts are tagged with no step; the property asks for tags of the others only.
* `EnginesImplementStream`: with one rollout rank, the slice
  `metadata[-rollout_world_size + 1 :]` of NIXL's `build_topology`
  (`nixl_checkpoint_engine.py` 297) is the whole list, the assertion in
  `build_process_group` ("must have length of", `checkpoint_engine/base.py` 366) fails, and
  no weights are sent. With `Rollouts = 1`, `NixlTransfer` stops in stage `failed`.
* `EnginesImplementStream` watches the last rank of a Mooncake chain. A rank passes a
  bucket on before it hands it out (`mooncake_checkpoint_engine.py` 250); the next rank,
  when done with the bucket, writes its acknowledgement over its first four bytes (260),
  which the owner may not have handed out or copied yet. So the docstring, which
  promises the "weight tensor" itself (`checkpoint_engine/base.py` 174-175), is not kept by
  the ranks before the last: with `watched` any receiver the property fails. What the
  last rank gets is whole, because a bucket is read before anybody acknowledges it.
* `PartitionIsExact`, `ResultsAreOwn`: the token limit of a micro-batch
  (`seqlen_balancing.py` 363) decides how many there are, and a partition by workload
  may still exceed it; that empty micro-batches are padded (367) is an assertion.

## 8. What is left

Done: the request path (`LoadBalancer`, `ToolAgentLoop`), the reward path
(`NliClustering`, `ScoreBatch`, `ScoringService`, `SiopReward`, `RewardPath` over
`TurnRewards` and `TurnAdvantage`), the batch path (`SeqlenBalancing`, `BatchPath`),
the training step (`TrainCycle`), the weights (`WeightStream`, `WeightTransfer`,
`NixlTransfer`, `MooncakeTransfer`) and `CheckpointStore`, with the proofs above.

What would add most next:

1. `AgentLoopWorker`: several `ToolAgentLoop`s over one `LoadBalancer`. The two meet
   in one call, `generate`, which each models with all its outcomes.
2. `RateLimiter`: `TokenBucketWorker`, the execution pool and the retries of the
   search tools. The semaphore is taken and given back in one method around the call.
3. `/cluster` and `/nli_score`, over the dealing of `ScoringService`.
4. The composition of `NixlTransfer` with the shared bucket of `WeightTransfer`.
5. Proofs: that `NixlTransfer` and the last rank of `MooncakeTransfer` implement
   `WeightStream`, along the segments of `WeightTransferProofs`.

Not modelled, with the reason: most of `verl` is numerical code that a state model
has nothing to say about. The estimators and losses in `core_algos.py`, the CUDA and
Triton kernels, model patches and weight converters are functions of tensors
without state; the FSDP and Megatron workers and engines run them as collectives in
a fixed order without a protocol of their own, and what the trainer relies on in
them is in `TrainCycle` and `BatchPath`; configuration, entry points and data loading are I/O. The
single-turn loop is the tool agent loop without tools, and tools beyond their life
cycle are calls to services.

## 9. Running

```
tlc -workers 2 -config LoadBalancer.cfg MCLoadBalancer
tlapm LoadBalancerProofs.tla
```

A run takes up to some two minutes, all proofs together some twenty minutes.
