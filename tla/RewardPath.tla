------------------------------ MODULE RewardPath ------------------------------
(***************************************************************************)
(* From the process rewards of a batch of rollouts to the advantages of    *)
(* its tokens: NaiveRewardManager scores the rollouts one after the other, *)
(* those with process rewards by the turn rewards of TurnRewards, the      *)
(* others by an outcome on their last token; the scores of the batch are   *)
(* then the rewards of TurnAdvantage.  The two find the turns of a rollout *)
(* independently of each other.                                            *)
(*                                                                         *)
(* Between compute_score of siop_reward, which returns a score for every   *)
(* token, and the manager stands a score function: default_compute_score,  *)
(* which keeps the first of the scores, or a custom one, which hands the   *)
(* list on as it is.                                                       *)
(***************************************************************************)
EXTENDS TurnRewards, FiniteSetsExt

CONSTANTS
    B,              \* rollouts of the batch
    Gamma,          \* algorithm.gamma
    ComputeScores,  \* score functions: "default" and "custom"
    MaxTokens       \* bound: response tokens of the batch

Samples == 1..B
Width == 1..MaxLength

ASSUME PathAssumption ==
    B \in Nat \ {0} /\ Gamma \in Int /\ MaxTokens \in Nat /\ ComputeScores \subseteq {"default", "custom"}

VARIABLES
    batch,         \* what each rollout comes with
    index,         \* uid of each rollout
    compute,       \* compute_score, the score function of the manager
    rollout,       \* the rollout being scored
    rewardTensor,  \* the scores, which are the token_level_rewards
    todo, normalized, sample, pos, nextAdv, turnAdv, prevEnd, returns  \* TurnAdvantage's

scoring == <<mask, rewards, pc, idx, start, ranges, i, scores>>
path == <<batch, index, compute, rollout, rewardTensor>>
advantage == <<todo, normalized, sample, pos, nextAdv, turnAdv, prevEnd, returns>>
pathVars == <<scoring, path, advantage>>

(* response_mask, as wide as the longest response of the batch may be.      *)
ResponseMask ==
    [n \in Samples |-> [t \in Width |-> IF t <= Len(batch[n].mask) THEN batch[n].mask[t] ELSE 0]]

Adv == INSTANCE TurnAdvantage WITH L <- MaxLength, mask <- ResponseMask, rewards <- rewardTensor

(* The turns of a response, by their last tokens.                           *)
TurnEnds(m) == {t \in DOMAIN m : m[t] = 1 /\ (t = Len(m) \/ m[t + 1] = 0)}

(* A rollout has no process reward, one, or one for each turn.              *)
Rollouts ==
    UNION {{[mask |-> m, given |-> r] :
               r \in UNION {[1..n -> RewardValues] : n \in {0, 1, Cardinality(TurnEnds(m))}}} :
           m \in UNION {[1..n -> {0, 1}] : n \in 0..MaxLength}}

PathInit ==
    /\ batch \in [Samples -> Rollouts]
    /\ MapThenSumSet(LAMBDA n : Len(batch[n].mask), Samples) <= MaxTokens
    /\ index \in [Samples -> Samples] /\ \A n \in Samples : index[n] <= n
    /\ compute \in ComputeScores
    /\ rollout = 1
    /\ rewardTensor = [n \in Samples |-> [t \in Width |-> 0]]
    /\ mask = batch[1].mask /\ rewards = batch[1].given
    /\ Init
    /\ Adv!Init

-----------------------------------------------------------------------------
(* NaiveRewardManager.__call__, one rollout: its row of the tensor is       *)
(* written and the next rollout is taken up.                                *)
Store(row) ==
    /\ rewardTensor' = [rewardTensor EXCEPT ![rollout] = row]
    /\ rollout' = rollout + 1
    /\ mask' = IF rollout < B THEN batch[rollout + 1].mask ELSE <<>>
    /\ rewards' = IF rollout < B THEN batch[rollout + 1].given ELSE <<>>
    /\ pc' = "scan" /\ idx' = 1 /\ start' = 0 /\ ranges' = <<>> /\ i' = 1
    /\ scores' = [t \in DOMAIN mask' |-> 0]
    /\ UNCHANGED <<batch, index, compute, advantage>>

(* Process rewards go to compute_score of siop_reward.                      *)
ScoreTurns ==
    /\ rollout <= B /\ rewards # <<>>
    /\ ScanToken \/ ScanEnds \/ PlaceNothing \/ PlaceTerminal \/ PlaceTurn
    /\ UNCHANGED <<path, advantage>>

(* A list of scores fills the row from the left.                            *)
StoreTurns ==
    /\ rollout <= B /\ pc = "done"
    /\ compute = "custom"
    /\ Store([t \in Width |-> IF t <= Len(scores) THEN scores[t] ELSE 0])

(* A single score goes on token valid_response_length - 1, which is the     *)
(* last of the row when there is no token.                                  *)
OnLastToken(r) == [t \in Width |-> IF t = (IF mask = <<>> THEN MaxLength ELSE Len(mask)) THEN r ELSE 0]

(* default_compute_score returns float(res[0]), the first of the scores.    *)
StoreFirst ==
    /\ rollout <= B /\ pc = "done"
    /\ compute = "default" /\ scores # <<>>
    /\ Store(OnLastToken(scores[1]))

(* Without a score res[0] raises, and the batch is not scored.              *)
Raised == rollout <= B /\ pc = "done" /\ compute = "default" /\ scores = <<>>

(* Without process rewards there is an outcome.                             *)
StoreOutcome ==
    /\ rollout <= B /\ rewards = <<>>
    /\ \E r \in RewardValues : Store(OnLastToken(r))

-----------------------------------------------------------------------------
(* compute_siop_turn_level_advantage on the scored batch.                   *)
ComputeAdvantage ==
    /\ rollout > B
    /\ UNCHANGED <<scoring, path>>
    /\ Adv!Next

Computed == rollout > B /\ Adv!Done
PathEnds == (Computed \/ Raised) /\ UNCHANGED pathVars

PathNext == ScoreTurns \/ StoreTurns \/ StoreFirst \/ StoreOutcome \/ ComputeAdvantage \/ PathEnds

PathSpec == PathInit /\ [][PathNext]_pathVars

-----------------------------------------------------------------------------
Turns(n) == Cardinality(TurnEnds(batch[n].mask))
EndsGenerated(n) == Len(batch[n].mask) \in TurnEnds(batch[n].mask)

(* What siop_reward is to return for token t of rollout n: with several     *)
(* turns the k-th reward at the end of the k-th turn, otherwise the last    *)
(* reward on the last token.                                                *)
RewardAt(n, t) ==
    LET given == batch[n].given
        ends == TurnEnds(batch[n].mask)
        k == Cardinality({e \in ends : e <= t})
    IN  IF Turns(n) > 1
        THEN IF t \in ends /\ k <= Len(given) THEN given[k] ELSE 0
        ELSE IF t = Len(batch[n].mask) THEN given[Len(given)] ELSE 0

(* What the score function leaves of it in the tensor.                      *)
ScoreAt(n, t) ==
    IF compute = "custom" THEN RewardAt(n, t)
    ELSE IF t = Len(batch[n].mask) THEN RewardAt(n, 1) ELSE 0

(* A rollout's row holds its own process rewards: with a custom score       *)
(* function each on the last token of its turn, as the advantage estimator  *)
(* finds it by itself in the mask padded to the width of the batch; with    *)
(* the default one what the first token has, on the last token.             *)
RewardsReadBack ==
    \A n \in Samples : n < rollout /\ batch[n].given # <<>> =>
        \A t \in Width : rewardTensor[n][t] = ScoreAt(n, t)

(* What siop_reward says of itself: it places pre-computed process rewards  *)
(* at turn boundary tokens, for downstream per-turn advantages.             *)
TurnRewardsReachTheirTurns ==
    \A n \in Samples : n < rollout /\ Turns(n) > 1 /\ Len(batch[n].given) = Turns(n) =>
        \A t \in TurnEnds(batch[n].mask) :
            rewardTensor[n][t] = batch[n].given[Cardinality({e \in TurnEnds(batch[n].mask) : e <= t})]

(* What the k-th turn of rollout n has earned, by the number of the turn: a *)
(* reward of its own when there are several turns and the list of scores is *)
(* handed on; otherwise a single score, if it is the last turn.  What is    *)
(* due at an end that is not a generated token is lost.                     *)
Earned(n, k) ==
    LET given == batch[n].given
        last == Len(batch[n].mask)
    IN  IF given # <<>> /\ compute = "custom" /\ Turns(n) > 1
        THEN IF k <= Len(given) THEN given[k] ELSE 0
        ELSE IF k < Turns(n) \/ ~EndsGenerated(n) THEN 0
        ELSE IF given = <<>> THEN rewardTensor[n][last]
        ELSE ScoreAt(n, last)

TurnsOf(u) == UNION {{n} \X (1..Turns(n)) : n \in {m \in Samples : index[m] = u}}

(* A turn's reward among those of its query, times their number.            *)
Centred(n, k) ==
    LET turns == TurnsOf(index[n])
    IN  IF Cardinality(turns) <= 1 THEN 0
        ELSE Cardinality(turns) * Earned(n, k) - MapThenSumSet(LAMBDA p : Earned(p[1], p[2]), turns)

TurnCredit(n, k) ==
    LET credit[m \in 1..(Turns(n) + 1)] ==
            IF m > Turns(n) THEN 0 ELSE Centred(n, m) + Gamma * credit[m + 1]
    IN  credit[k]

(* From end to end: a token of the k-th turn is credited with the centred   *)
(* rewards the rollout's own turns earned from the k-th on, an observation  *)
(* and the padding with nothing.  Between the rewards and the credit there  *)
(* are two scans for turns, a shared row index and two passes.              *)
CreditIsEarned ==
    Computed => \A n \in Samples, t \in Width :
        returns[n][t] =
            IF ResponseMask[n][t] = 0 THEN 0
            ELSE TurnCredit(n, Cardinality({e \in TurnEnds(batch[n].mask) : e < t}) + 1)

(* Within a query the centred rewards cancel out, whatever the number of    *)
(* turns of its rollouts and the rewards of other queries; a query with a   *)
(* single reward gives no signal.                                           *)
GroupsAreCentred == rollout > B => Adv!GroupsAreCentred
===============================================================================
