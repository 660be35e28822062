----------------------------- MODULE TurnRewards -----------------------------
(***************************************************************************)
(* From the per-turn rewards of one rollout to per-token scores:           *)
(* get_assistant_turn_ranges scans the response mask for the runs of       *)
(* generated tokens, compute_score puts the k-th reward on the last token  *)
(* of the k-th run.  What becomes of its list of scores is RewardPath's.   *)
(*                                                                         *)
(* Tokens are numbered from 1: the half-open range (start, end) of the     *)
(* code is the pair <<start + 1, end>> here.                               *)
(***************************************************************************)
EXTENDS Integers, Sequences, FiniteSets

CONSTANTS
    MaxLength,    \* bound: tokens of the response
    RewardValues  \* bound: values of a reward

ASSUME ConstantsAssumption ==
    /\ MaxLength \in Nat
    /\ RewardValues \subseteq Int

VARIABLES
    mask,     \* valid_response_mask
    rewards,  \* siop_process_rewards
    pc,       \* "scan", "place" or "done"
    idx,      \* the token the scan looks at
    start,    \* first token of the open run, 0 for None
    ranges,   \* the runs found
    i,        \* the next reward to place
    scores    \* per token

vars == <<mask, rewards, pc, idx, start, ranges, i, scores>>
input == <<mask, rewards>>

Smaller(a, b) == IF a <= b THEN a ELSE b

(* reward_mask of the advantage estimator: token j of the padded mask is    *)
(* generated and the next one is not.                                       *)
PaddedMask == [j \in 1..(MaxLength + 1) |-> IF j <= Len(mask) THEN mask[j] ELSE 0]
RewardMask == {j \in 1..MaxLength : PaddedMask[j] = 1 /\ PaddedMask[j + 1] = 0}

(* The rewards a rollout can have: none, one (a single turn, and the        *)
(* outcome modes) or one per turn.                                          *)
Init ==
    /\ mask \in UNION {[1..n -> {0, 1}] : n \in 0..MaxLength}
    /\ rewards \in UNION {[1..n -> RewardValues] : n \in {0, 1, Cardinality(RewardMask)}}
    /\ pc = "scan"
    /\ idx = 1
    /\ start = 0
    /\ ranges = <<>>
    /\ i = 1
    /\ scores = [j \in 1..Len(mask) |-> 0]

-----------------------------------------------------------------------------
(* get_assistant_turn_ranges, one token.                                    *)
OpenRun ==
    /\ mask[idx] = 1 /\ start = 0
    /\ start' = idx
    /\ UNCHANGED ranges
Mut_CloseRunLate ==
    /\ mask[idx] = 0 /\ start # 0
    /\ ranges' = Append(ranges, <<start, idx>>)
    /\ start' = 0
CloseRun ==
    /\ mask[idx] = 0 /\ start # 0
    /\ ranges' = Append(ranges, <<start, idx - 1>>)
    /\ start' = 0
PassToken ==
    /\ ~(mask[idx] = 1 /\ start = 0) /\ ~(mask[idx] = 0 /\ start # 0)
    /\ UNCHANGED <<start, ranges>>

ScanToken ==
    /\ pc = "scan"
    /\ idx <= Len(mask)
    /\ OpenRun \/ CloseRun \/ PassToken
    /\ idx' = idx + 1
    /\ UNCHANGED <<input, pc, i, scores>>

(* The last run may still be open.                                          *)
ScanEnds ==
    /\ pc = "scan"
    /\ idx > Len(mask)
    /\ ranges' = IF start # 0 THEN Append(ranges, <<start, Len(mask)>>) ELSE ranges
    /\ pc' = "place"
    /\ UNCHANGED <<input, idx, start, i, scores>>

-----------------------------------------------------------------------------
(* compute_score: no token or no reward leaves every score at 0.            *)
PlaceNothing ==
    /\ pc = "place"
    /\ mask = <<>> \/ rewards = <<>>
    /\ pc' = "done"
    /\ UNCHANGED <<input, idx, start, ranges, i, scores>>

(* With one turn, or none, the last reward goes on the last token.          *)
Mut_FirstToken ==
    /\ pc = "place"
    /\ mask # <<>> /\ rewards # <<>>
    /\ Len(ranges) <= 1
    /\ scores' = [scores EXCEPT ![1] = rewards[Len(rewards)]]
    /\ pc' = "done"
    /\ UNCHANGED <<input, idx, start, ranges, i>>
PlaceTerminal ==
    /\ pc = "place"
    /\ mask # <<>> /\ rewards # <<>>
    /\ Len(ranges) <= 1
    /\ scores' = [scores EXCEPT ![Len(mask)] = rewards[Len(rewards)]]
    /\ pc' = "done"
    /\ UNCHANGED <<input, idx, start, ranges, i>>

(* With more, reward i goes on the last token of turn i.                    *)
PlaceTurn ==
    /\ pc = "place"
    /\ mask # <<>> /\ rewards # <<>>
    /\ Len(ranges) > 1
    /\ IF i <= Smaller(Len(ranges), Len(rewards))
       THEN /\ scores' = [scores EXCEPT ![Smaller(ranges[i][2], Len(mask))] = rewards[i]]
            /\ i' = i + 1
            /\ UNCHANGED pc
       ELSE pc' = "done" /\ UNCHANGED <<i, scores>>
    /\ UNCHANGED <<input, idx, start, ranges>>

Idle == pc = "done" /\ UNCHANGED vars

Next == ScanToken \/ ScanEnds \/ PlaceNothing \/ PlaceTerminal \/ PlaceTurn \/ Idle

Spec == Init /\ [][Next]_vars

-----------------------------------------------------------------------------
TypeOK ==
    /\ mask \in Seq({0, 1})
    /\ rewards \in Seq(RewardValues)
    /\ pc \in {"scan", "place", "done"}
    /\ idx \in 1..(Len(mask) + 1)
    /\ start \in 0..Len(mask)
    /\ ranges \in Seq(Nat \X Nat)
    /\ i \in Nat \ {0}
    /\ scores \in [1..Len(mask) -> RewardValues \cup {0}]

(* From a to b all tokens are generated, and the run cannot be extended.    *)
Run(a, b) ==
    /\ 1 <= a /\ a <= b /\ b <= Len(mask)
    /\ \A j \in a..b : mask[j] = 1
    /\ a > 1 => mask[a - 1] = 0
    /\ b < Len(mask) => mask[b + 1] = 0

(* The scan finds every maximal run of generated tokens once, in order.     *)
RangesAreRuns ==
    pc # "scan" =>
        /\ \A k \in DOMAIN ranges : Run(ranges[k][1], ranges[k][2])
        /\ \A k \in DOMAIN ranges : k > 1 => ranges[k - 1][2] + 1 < ranges[k][1]
        /\ \A j \in 1..Len(mask) :
               mask[j] = 1 => \E k \in DOMAIN ranges : ranges[k][1] <= j /\ j <= ranges[k][2]
==============================================================================
