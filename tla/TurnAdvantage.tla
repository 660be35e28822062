---------------------------- MODULE TurnAdvantage ----------------------------
(***************************************************************************)
(* compute_siop_turn_level_advantage: the rewards at the turn ends of all  *)
(* rollouts of a query are centred together, then every rollout            *)
(* accumulates them from its last turn back and hands each turn's sum to   *)
(* the tokens of that turn.                                                *)
(*                                                                         *)
(* A centred reward is scaled by the number of rewards of its group, to    *)
(* stay an integer; the division by the standard deviation, which scales   *)
(* it once more, is left out.  The ablations that leave the turn level     *)
(* (siop_enable_two_pass off, broadcast) are GRPO's and are not modelled.  *)
(***************************************************************************)
EXTENDS Integers, FiniteSetsExt

CONSTANTS
    B,            \* bsz
    L,            \* seq_len
    Gamma         \* gamma

Samples == 1..B
Tokens == 1..L

VARIABLES
    mask,        \* response_mask, an input
    rewards,     \* token_level_rewards, an input
    index,       \* uid of each sample, an input
    todo,        \* uids whose group is not normalised yet
    normalized,  \* normalized_rewards
    sample,      \* sample_idx
    pos,         \* the turn ends from here on are accumulated
    nextAdv,     \* next_turn_adv
    turnAdv,     \* turn_data of the sample
    prevEnd,     \* the turns up to here have their advantage
    returns      \* discounted_returns

input == <<mask, rewards, index>>
vars == <<input, todo, normalized, sample, pos, nextAdv, turnAdv, prevEnd, returns>>

(* reward_mask: token t of the padded mask is generated, the next is not.   *)
RewardMask(m) == {t \in Tokens : m[t] = 1 /\ (t = L \/ m[t + 1] = 0)}

(* The inputs are the caller's.                                             *)
Init ==
    /\ todo = {index[i] : i \in Samples}
    /\ normalized = [i \in Samples |-> [t \in Tokens |-> 0]]
    /\ sample = 1
    /\ pos = L + 1 /\ nextAdv = 0
    /\ turnAdv = [t \in Tokens |-> 0]
    /\ prevEnd = 0
    /\ returns = [i \in Samples |-> [t \in Tokens |-> 0]]

-----------------------------------------------------------------------------
(* group_reward_mask, as pairs of a sample and a token.                     *)
Group(u) == UNION {{i} \X RewardMask(mask[i]) : i \in {j \in Samples : index[j] = u}}

Mut_CentreOnBatch(u) ==
    MapThenSumSet(LAMBDA p : rewards[p[1]][p[2]], UNION {{i} \X RewardMask(mask[i]) : i \in Samples})
GroupSum(u) == MapThenSumSet(LAMBDA p : rewards[p[1]][p[2]], Group(u))

(* One query: a group with one reward, or none, keeps its zeros.            *)
NormalizeGroup(u) ==
    /\ u \in todo
    /\ todo' = todo \ {u}
    /\ normalized' = [i \in Samples |-> [t \in Tokens |->
           IF <<i, t>> \in Group(u) /\ Cardinality(Group(u)) > 1
           THEN Cardinality(Group(u)) * rewards[i][t] - GroupSum(u)
           ELSE normalized[i][t]]]
    /\ UNCHANGED <<input, sample, pos, nextAdv, turnAdv, prevEnd, returns>>

Active == todo = {} /\ sample <= B
Ends == RewardMask(mask[sample])
ToAccumulate == {t \in Ends : t < pos}
ToBroadcast == {t \in Ends : t > prevEnd}

(* Backwards over the turns of the sample: A_i = r_i + gamma * A_(i+1).     *)
Accumulate ==
    /\ Active
    /\ ToAccumulate # {}
    /\ pos' = Max(ToAccumulate)
    /\ nextAdv' = normalized[sample][pos'] + Gamma * nextAdv
    /\ turnAdv' = [turnAdv EXCEPT ![pos'] = nextAdv']
    /\ UNCHANGED <<input, todo, normalized, sample, prevEnd, returns>>

(* Forwards: the generated tokens since the last turn end get its sum.      *)
InTurn(t) == prevEnd < t /\ t <= Min(ToBroadcast)

Broadcast ==
    /\ Active
    /\ ToAccumulate = {} /\ ToBroadcast # {}
    /\ returns' = [returns EXCEPT ![sample] = [t \in Tokens |->
           IF InTurn(t) /\ mask[sample][t] = 1 THEN turnAdv[Min(ToBroadcast)] ELSE @[t]]]
    /\ prevEnd' = Min(ToBroadcast)
    /\ UNCHANGED <<input, todo, normalized, sample, pos, nextAdv, turnAdv>>

Mut_KeepNextAdv ==
    /\ Active
    /\ ToAccumulate = {} /\ ToBroadcast = {}
    /\ sample' = sample + 1
    /\ pos' = L + 1
    /\ turnAdv' = [t \in Tokens |-> 0]
    /\ prevEnd' = 0
    /\ UNCHANGED <<input, todo, normalized, nextAdv, returns>>
NextSample ==
    /\ Active
    /\ ToAccumulate = {} /\ ToBroadcast = {}
    /\ sample' = sample + 1
    /\ pos' = L + 1 /\ nextAdv' = 0
    /\ turnAdv' = [t \in Tokens |-> 0]
    /\ prevEnd' = 0
    /\ UNCHANGED <<input, todo, normalized, returns>>

Done == sample > B

Next ==
    \/ \E u \in todo : NormalizeGroup(u)
    \/ Accumulate \/ Broadcast \/ NextSample

-----------------------------------------------------------------------------
(* Within a query the centred rewards cancel out, whatever the number of    *)
(* turns of its rollouts and the rewards of other queries; a query with a   *)
(* single reward gives no signal.                                           *)
GroupsAreCentred ==
    todo = {} => \A u \in Samples :
        MapThenSumSet(LAMBDA p : normalized[p[1]][p[2]], Group(u)) = 0
==============================================================================
