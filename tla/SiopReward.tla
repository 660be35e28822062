------------------------------ MODULE SiopReward ------------------------------
(***************************************************************************)
(* compute_siop_rewards_full: from a batch of rollouts to their rewards.   *)
(* The answers of each query are clustered into outcome modes, a mode's    *)
(* frequency may be calibrated with tool evidence, every (sample, turn,    *)
(* reference) becomes one item for the scoring server, and the differences *)
(* of the scores of consecutive turns become the turns' rewards.  The      *)
(* baselines TTRL and EMPO stop after the clustering.                      *)
(*                                                                         *)
(* Scores are symbolic: that of entry k is k.  The reward of a turn names  *)
(* the scores it subtracts; the term added to it is a pair <<num, den>>.   *)
(* The scoring server comes and goes; what it does with a chunk is         *)
(* ScoreBatch.  An empty prompt-reference range, and gold answers that are *)
(* no strings, are left out.                                               *)
(***************************************************************************)
EXTENDS Integers, Sequences, FiniteSets, FiniteSetsExt

CONSTANTS
    Calls,      \* bound: the calls there are, see CallType
    Weights,    \* bound: values of exp(eta * evidence), 1 for none
    ChunkSize   \* chunk_size of score_batch

(* A call: bsz, siop_num_refs, siop_eta > 0, siop_use_gold_ref and          *)
(* siop_reward_mode; bounds on the different answers and on the assistant   *)
(* turns of its rollouts; whether the NLI model is known never to separate  *)
(* two equal answers.                                                       *)
CallType == [bsz: Nat, texts: Nat, maxTurns: Nat, numRefs: Nat \ {0},
             calibrated: BOOLEAN, gold: BOOLEAN, determined: BOOLEAN,
             mode: {"process", "majority_binary", "cluster_frequency"}]

ASSUME ConstantsAssumption ==
    /\ Calls \subseteq CallType
    /\ Weights \subseteq Nat \ {0} /\ 1 \in Weights
    /\ ChunkSize \in Nat \ {0}

VARIABLES
    call,                   \* the parameters of the call
    uid, ans, turns, gold,  \* the batch: query, answer (0 for none), number of
                            \* assistant turns, whether there is a gold answer
    up,         \* the scoring server is healthy
    client,     \* _CLIENT is set
    pc,         \* "cluster", "calibrate", "build", "score", "post", "reward", "done"
    lead,       \* the sample whose answer leads the mode of each sample
    freq,       \* sample_cluster_freq
    reference,  \* sample_reference, 0 for ""
    refs,       \* sample_all_refs: samples whose answers are used, 0 for gold
    entries,    \* sample_turn_map: <<sample, turn, reference>> of each item
    scores,     \* mean_log_probs
    start,      \* first item of the next chunk
    rewards     \* per sample, a sequence

batch == <<call, uid, ans, turns, gold>>
modes == <<lead, freq, reference, refs>>
vars == <<batch, up, client, pc, modes, entries, scores, start, rewards>>

NoAnswer == 0
Gold == 0
GoldText == -1
Zero == -1   \* the score of an item when there is no client

Samples == 1..call.bsz

Init ==
    /\ call \in Calls
    /\ uid \in [Samples -> Samples] /\ \A i \in Samples : uid[i] <= i /\ uid[uid[i]] = uid[i]
    /\ ans \in [Samples -> 1..call.texts \cup {NoAnswer}]
    /\ turns \in [Samples -> 0..call.maxTurns]
    /\ gold \in [Samples -> IF call.gold THEN BOOLEAN ELSE {FALSE}]
    /\ up \in BOOLEAN /\ client \in BOOLEAN
    /\ pc = "cluster"
    /\ lead = [i \in Samples |-> i]
    /\ freq = [i \in Samples |-> <<1, 1>>]
    /\ reference = [i \in Samples |-> NoAnswer]
    /\ refs = [i \in Samples |-> {}]
    /\ entries = <<>> /\ scores = <<>> /\ start = 1
    /\ rewards = [i \in Samples |-> <<>>]

(* get_siop_scoring_client: a client is kept once the health check passed.  *)
GetClient == client' = (client \/ up)

(* The server starts or dies.                                               *)
ServerChanges ==
    /\ pc \in {"cluster", "score", "post"}
    /\ up' = ~up
    /\ UNCHANGED <<batch, client, pc, modes, entries, scores, start, rewards>>

-----------------------------------------------------------------------------
(* Phase 1.                                                                 *)
Query(i) == {j \in Samples : uid[j] = uid[i]}
Answered(i) == {j \in Query(i) : ans[j] # NoAnswer}

(* What cluster_answers may return, remotely or locally: an answer is in    *)
(* the mode of itself or of an earlier leader of its query.                 *)
Clusterings ==
    {f \in [Samples -> Samples] :
        \A i \in Samples :
            /\ f[i] <= i /\ f[f[i]] = f[i]
            /\ IF ans[i] = NoAnswer THEN f[i] = i ELSE f[i] \in Answered(i)
            /\ call.determined => \A j \in Answered(i) : ans[i] = ans[j] => f[i] = f[j]}

Mode(f, i) == {j \in Answered(i) : f[j] = f[i]}

(* _pick_refs: the first siop_num_refs different answers of a mode.               *)
PickRefs(members) ==
    LET unseen == {m \in members : \A k \in members : k < m => ans[k] # ans[m]}
    IN  {m \in unseen : Cardinality({k \in unseen : k < m}) < call.numRefs}

Mut_CountUnanswered(f, i) ==
    IF ans[i] = NoAnswer THEN <<0, 1>> ELSE <<Cardinality(Mode(f, i)), Cardinality(Query(i))>>
Frequency(f, i) ==
    IF ans[i] = NoAnswer THEN <<0, 1>> ELSE <<Cardinality(Mode(f, i)), Cardinality(Answered(i))>>

Cluster ==
    /\ pc = "cluster"
    /\ GetClient
    /\ lead' \in Clusterings
    /\ freq' = [i \in Samples |-> Frequency(lead', i)]
    /\ reference' = [i \in Samples |-> ans[lead'[i]]]
    /\ refs' = [i \in Samples |-> IF ans[i] = NoAnswer THEN {} ELSE PickRefs(Mode(lead', i))]
    /\ pc' = "calibrate"
    /\ UNCHANGED <<batch, up, entries, scores, start, rewards>>

(* The samples of a query with the same reference text.                     *)
Bucket(i) == {j \in Query(i) : reference[j] = reference[i]}
References(i) == {reference[j] : j \in Query(i)} \ {NoAnswer}
Carrying(i, x) == {j \in Query(i) : reference[j] = x}

(* The softmax of log(m_c) + eta * r_c; a lost NLI chunk is no evidence.    *)
Posterior(i, w) ==
    <<Cardinality(Bucket(i)) * w[<<uid[i], reference[i]>>],
      MapThenSumSet(LAMBDA x : Cardinality(Carrying(i, x)) * w[<<uid[i], x>>], References(i))>>

Evidence ==
    [{<<uid[i], reference[i]>> : i \in {j \in Samples : reference[j] # NoAnswer}} ->
        IF call.calibrated /\ client THEN Weights ELSE {1}]

Calibrate ==
    /\ pc = "calibrate"
    /\ pc' = "build"
    /\ \E w \in Evidence :
           freq' = [i \in Samples |->
               IF call.calibrated /\ client /\ reference[i] # NoAnswer /\ Cardinality(References(i)) > 1
               THEN Posterior(i, w) ELSE freq[i]]
    /\ UNCHANGED <<batch, up, client, lead, reference, refs, entries, scores, start, rewards>>

(* siop_use_gold_ref replaces the modes by the gold answer.                 *)
Overridden ==
    /\ freq' = IF call.gold THEN [i \in Samples |-> IF gold[i] THEN <<1, 1>> ELSE <<0, 1>>] ELSE freq
    /\ refs' = IF call.gold THEN [i \in Samples |-> IF gold[i] THEN {Gold} ELSE {}] ELSE refs
    /\ reference' = IF call.gold
                    THEN [i \in Samples |-> IF gold[i] THEN GoldText ELSE NoAnswer]
                    ELSE reference

(* A sample is rewarded if it has a reference, turn by turn if it has       *)
(* several turns.                                                           *)
HasReference(i) == refs[i] # {} /\ freq[i][1] # 0
MultiTurn(i) == HasReference(i) /\ turns[i] > 1

(* The items, sample by sample, the prompt alone (turn -1) and then every   *)
(* turn, once per reference.                                                *)
Before(e, d) ==
    \/ e[1] < d[1]
    \/ e[1] = d[1] /\ e[2] < d[2]
    \/ e[1] = d[1] /\ e[2] = d[2] /\ e[3] < d[3]
Items ==
    LET all == UNION {{i} \X (-1..(turns[i] - 1)) \X refs[i] : i \in {j \in Samples : MultiTurn(j)}}
    IN  [k \in 1..Cardinality(all) |->
            CHOOSE e \in all : Cardinality({d \in all : Before(d, e)}) = k - 1]

Build ==
    /\ pc = "build"
    /\ UNCHANGED <<batch, up, client, lead, scores, start, rewards>>
    /\ Overridden
    /\ entries' = Items'
    /\ pc' = "score"

-----------------------------------------------------------------------------
(* Phase 2.                                                                 *)
MaxItems == Max({c.bsz * (c.maxTurns + 1) * c.numRefs : c \in Calls})
Scores == INSTANCE ScoreBatch WITH n <- Len(entries)

(* score_pseudo_inputs: nothing to score, no client, or one call.           *)
ScoreNothing ==
    /\ pc = "score" /\ call.mode = "process"
    /\ entries = <<>>
    /\ pc' = "reward"
    /\ UNCHANGED <<batch, up, client, modes, entries, scores, start, rewards>>

StartScoring ==
    /\ pc = "score" /\ call.mode = "process"
    /\ entries # <<>>
    /\ GetClient
    /\ IF client'
       THEN pc' = "post" /\ scores' = [k \in DOMAIN entries |-> Scores!Lost]
       ELSE pc' = "reward" /\ scores' = [k \in DOMAIN entries |-> Zero]
    /\ UNCHANGED <<batch, up, modes, entries, start, rewards>>

ScoreChunk ==
    /\ pc = "post"
    /\ UNCHANGED <<batch, up, client, pc, modes, entries, rewards>>
    /\ (up /\ Scores!Deliver) \/ Scores!Lose

ScoreReturns ==
    /\ pc = "post"
    /\ start > Len(entries)
    /\ pc' = "reward"
    /\ UNCHANGED <<batch, up, client, modes, entries, scores, start, rewards>>

-----------------------------------------------------------------------------
(* Phase 3.                                                                 *)
Reward(prev, cur, plus) == [prev |-> prev, cur |-> cur, plus |-> plus]

(* The scores of turn t of sample i that are finite: p_hat sums over them.  *)
Cell(i, t) ==
    {scores[k] : k \in {l \in DOMAIN entries :
        entries[l][1] = i /\ entries[l][2] = t /\ scores[l] # Scores!Lost}}

(* A turn next to a lost one is rewarded 0, the last turn gets the terminal *)
(* reward (1 - lambda) * q on top.                                          *)
Mut_LastFinite(i) ==
    [k \in 1..turns[i] |->
        LET seen == {t \in -1..(k - 2) : Cell(i, t) # {}}
            last == CHOOSE t \in seen : \A u \in seen : u <= t
            plus == IF k = turns[i] THEN freq[i] ELSE <<0, 1>>
        IN  IF seen = {} \/ Cell(i, k - 1) = {} THEN Reward({}, {}, plus)
            ELSE Reward(Cell(i, last), Cell(i, k - 1), plus)]
Mut_BonusOnlyIfScored(i) ==
    [k \in 1..turns[i] |->
        IF Cell(i, k - 2) = {} \/ Cell(i, k - 1) = {} THEN Reward({}, {}, <<0, 1>>)
        ELSE Reward(Cell(i, k - 2), Cell(i, k - 1), IF k = turns[i] THEN freq[i] ELSE <<0, 1>>)]
TurnRewards(i) ==
    [k \in 1..turns[i] |->
        LET plus == IF k = turns[i] THEN freq[i] ELSE <<0, 1>>
        IN  IF Cell(i, k - 2) = {} \/ Cell(i, k - 1) = {} THEN Reward({}, {}, plus)
            ELSE Reward(Cell(i, k - 2), Cell(i, k - 1), plus)]

ProcessRewards ==
    /\ pc = "reward"
    /\ rewards' = [i \in Samples |->
                      IF MultiTurn(i) THEN TurnRewards(i)
                      ELSE IF HasReference(i) THEN <<Reward({}, {}, freq[i])>>
                      ELSE <<>>]
    /\ pc' = "done"
    /\ UNCHANGED <<batch, up, client, modes, entries, scores, start>>

(* TTRL: the first reference text with the highest count wins.              *)
Mut_AnyHighest(i) ==
    \A x \in References(i) : Cardinality(Carrying(i, x)) <= Cardinality(Bucket(i))
Wins(i) ==
    \A x \in References(i) :
        \/ Cardinality(Carrying(i, x)) < Cardinality(Bucket(i))
        \/ /\ Cardinality(Carrying(i, x)) = Cardinality(Bucket(i))
           /\ Min(Bucket(i)) <= Min(Carrying(i, x))

MajorityRewards ==
    /\ pc = "score" /\ call.mode = "majority_binary"
    /\ rewards' = [i \in Samples |->
                      <<Reward({}, {}, IF reference[i] # NoAnswer /\ Wins(i) THEN <<1, 1>> ELSE <<0, 1>>)>>]
    /\ pc' = "done"
    /\ UNCHANGED <<batch, up, client, modes, entries, scores, start>>

(* EMPO: the frequency itself.                                              *)
FrequencyRewards ==
    /\ pc = "score" /\ call.mode = "cluster_frequency"
    /\ rewards' = [i \in Samples |-> <<Reward({}, {}, freq[i])>>]
    /\ pc' = "done"
    /\ UNCHANGED <<batch, up, client, modes, entries, scores, start>>

Idle == pc = "done" /\ UNCHANGED vars

Next ==
    \/ ServerChanges
    \/ Cluster \/ Calibrate \/ Build
    \/ ScoreNothing \/ StartScoring \/ ScoreChunk \/ ScoreReturns
    \/ ProcessRewards \/ MajorityRewards \/ FrequencyRewards
    \/ Idle

Spec == Init /\ [][Next]_vars

-----------------------------------------------------------------------------
Ratios == Nat \X (Nat \ {0})

TypeOK ==
    /\ call \in Calls
    /\ up \in BOOLEAN /\ client \in BOOLEAN
    /\ pc \in {"cluster", "calibrate", "build", "score", "post", "reward", "done"}
    /\ lead \in [Samples -> Samples]
    /\ freq \in [Samples -> Ratios]
    /\ \A i \in Samples : freq[i][1] <= freq[i][2]
    /\ refs \in [Samples -> SUBSET (Samples \cup {Gold})]
    /\ \A i \in Samples : Cardinality(refs[i]) <= call.numRefs
    /\ \A k \in DOMAIN entries : entries[k] \in Samples \X (-1..(call.maxTurns - 1)) \X (Samples \cup {Gold})
    /\ pc \in {"reward", "done"} /\ call.mode = "process" => DOMAIN scores = DOMAIN entries
    /\ \A i \in Samples : \A k \in DOMAIN rewards[i] : rewards[i][k].plus \in Ratios

Done == pc = "done" /\ call.mode = "process"

ItemsOf(i, t) == {k \in DOMAIN entries : entries[k][1] = i /\ entries[k][2] = t}

(* The reward of a turn is the difference of its own scores and those of    *)
(* the turn before, not of another rollout's and not across a gap; it is 0  *)
(* only if all the scores of one of the two turns were lost.  A lost chunk  *)
(* touches no other reward.                                                 *)
DifferencesAreOwn ==
    Done => \A i \in Samples : MultiTurn(i) => \A t \in 0..(turns[i] - 1) :
        LET r == rewards[i][t + 1]
            got(u) == {k \in ItemsOf(i, u) : scores[k] # Scores!Lost}
        IN  IF Zero \in r.prev \cup r.cur
            THEN r.prev = {Zero} /\ r.cur = {Zero} /\ ~client
            ELSE IF got(t) # {} /\ got(t - 1) # {}
                 THEN r.prev = got(t - 1) /\ r.cur = got(t)
                 ELSE r.prev = {} /\ r.cur = {}

(* When the server gave no score at all, dead from the start or cached and  *)
(* dead later, the rewards are the same: the terminal reward alone.         *)
DegradesToTerminal ==
    Done /\ (\A k \in DOMAIN entries : scores[k] \in {Zero, Scores!Lost}) =>
        \A i \in Samples : \A k \in DOMAIN rewards[i] :
            /\ rewards[i][k].prev = rewards[i][k].cur
            /\ k = Len(rewards[i]) => rewards[i][k].plus = freq[i]

(* The frequencies of the modes of a query are a distribution, calibrated   *)
(* or not: rollouts with the same reference have the same share, the shares *)
(* of the references sum up to 1, a rollout without an answer has none.     *)
QIsDistribution ==
    pc = "done" /\ ~call.gold /\ call.determined =>
        /\ \A i \in Samples : ans[i] = NoAnswer => freq[i][1] = 0
        /\ \A i \in Samples : ans[i] # NoAnswer =>
               /\ \A j \in Bucket(i) : freq[j] = freq[i]
               /\ \A j \in Answered(i) : freq[j][2] = freq[i][2]
               /\ MapThenSumSet(LAMBDA x : freq[Min(Carrying(i, x))][1], References(i)) = freq[i][2]

(* TTRL rewards the rollouts of exactly one mode of a query that has an     *)
(* answer, and no other mode is larger.                                     *)
MajorityIsDominant ==
    pc = "done" /\ call.mode = "majority_binary" /\ ~call.gold /\ call.determined =>
        \A i \in Samples : Answered(i) # {} =>
            \E w \in Answered(i) :
                /\ \A j \in Query(i) : rewards[j][1].plus = <<1, 1>> <=> j \in Mode(lead, w)
                /\ \A j \in Answered(i) : Cardinality(Mode(lead, j)) <= Cardinality(Mode(lead, w))
===============================================================================
