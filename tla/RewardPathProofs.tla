-------------------------- MODULE RewardPathProofs ---------------------------
(***************************************************************************)
(* From the response masks and rewards of a batch to the credit of its     *)
(* tokens, for every batch.  First of one rollout: the scan of             *)
(* get_assistant_turn_ranges finds the maximal runs of generated tokens,   *)
(* each once and in order, and what compute_score then places is read back *)
(* turn by turn.  Then of the batch, with either score function: what the  *)
(* reward manager has stored is what the score function left of the        *)
(* process rewards and what the turns have earned, the rewards of a query  *)
(* are centred, and every token has the credit of its turn.  Sums and      *)
(* recursive definitions are handled by least counterexamples.             *)
(***************************************************************************)
EXTENDS RewardPath, SequenceTheorems, FiniteSetTheorems, FunctionTheorems, WellFoundedInduction, TLAPS

(* What the scan knows when it looks at token idx: the closed runs are      *)
(* maximal and end before idx - 1, the open run reaches idx - 1, and every  *)
(* generated token before idx is in one of them.                            *)
Closed(r, last) ==
    /\ \A k \in DOMAIN r : Run(r[k][1], r[k][2]) /\ r[k][2] < last
    /\ \A k \in DOMAIN r : k > 1 => r[k - 1][2] + 1 < r[k][1]

Covered(r, j) == \E k \in DOMAIN r : r[k][1] <= j /\ j <= r[k][2]

OpenFrom(a) ==
    /\ a <= idx - 1
    /\ \A j \in a..(idx - 1) : mask[j] = 1
    /\ a > 1 => mask[a - 1] = 0

ScanInv ==
    /\ Closed(ranges, IF start = 0 THEN idx - 1 ELSE start - 1)
    /\ start # 0 => OpenFrom(start)
    /\ start = 0 /\ idx > 1 => mask[idx - 1] = 0
    /\ \A j \in 1..(idx - 1) :
           mask[j] = 1 => Covered(ranges, j) \/ (start # 0 /\ start <= j)

Types ==
    /\ mask \in Seq({0, 1})
    /\ pc \in {"scan", "place", "done"}
    /\ idx \in 1..(Len(mask) + 1)
    /\ start \in 0..Len(mask)
    /\ ranges \in Seq(Nat \X Nat)

IInv == Types /\ (pc = "scan" => ScanInv) /\ RangesAreRuns

USE ConstantsAssumption

LEMMA InitInv == Init => IInv
<1> SUFFICES ASSUME Init PROVE IInv
    OBVIOUS
<1>1. mask \in Seq({0, 1})
    BY DEF Init
<1>2. Len(mask) \in Nat
    BY <1>1, LenProperties
<1>3. Types
    BY <1>1, <1>2 DEF Init, Types
<1>4. ScanInv /\ RangesAreRuns
    BY <1>1 DEF Init, ScanInv, Closed, RangesAreRuns
<1> QED
    BY <1>3, <1>4 DEF IInv

(* Closing the run that started at start.                                   *)
LEMMA AppendRun ==
    ASSUME Types, ScanInv, start # 0,
           NEW last \in Nat, last = idx - 1, last = Len(mask) \/ mask[idx] = 0
    PROVE  LET r == Append(ranges, <<start, last>>)
           IN  /\ r \in Seq(Nat \X Nat)
               /\ \A k \in DOMAIN r : Run(r[k][1], r[k][2]) /\ r[k][2] <= last
               /\ \A k \in DOMAIN r : k > 1 => r[k - 1][2] + 1 < r[k][1]
               /\ \A j \in 1..last : mask[j] = 1 => Covered(r, j)
<1> DEFINE r == Append(ranges, <<start, last>>)
<1>0. /\ Len(mask) \in Nat /\ Len(ranges) \in Nat /\ start \in Nat /\ idx \in Nat
      /\ ranges \in Seq(Nat \X Nat) /\ last <= Len(mask)
    BY LenProperties DEF Types
<1>1. /\ r \in Seq(Nat \X Nat) /\ DOMAIN r = 1..(Len(ranges) + 1)
      /\ \A k \in 1..Len(ranges) : r[k] = ranges[k]
      /\ r[Len(ranges) + 1] = <<start, last>>
    BY <1>0, AppendProperties
<1>2. DOMAIN ranges = 1..Len(ranges)
    BY <1>0
<1>3. \A k \in 1..Len(ranges) : ranges[k] \in Nat \X Nat
    BY <1>0, ElementOfSeq
<1>4. Run(start, last)
    BY <1>0 DEF ScanInv, OpenFrom, Run, Types
<1>5. /\ \A k \in 1..Len(ranges) : Run(ranges[k][1], ranges[k][2]) /\ ranges[k][2] < start - 1
      /\ \A k \in 1..Len(ranges) : k > 1 => ranges[k - 1][2] + 1 < ranges[k][1]
    BY <1>2 DEF ScanInv, Closed
<1> HIDE DEF r
<1>6. \A k \in DOMAIN r : Run(r[k][1], r[k][2]) /\ r[k][2] <= last
  <2> TAKE k \in DOMAIN r
  <2>1. CASE k \in 1..Len(ranges)
    <3>1. ranges[k] \in Nat \X Nat
        BY <2>1, <1>3
    <3>2. ranges[k][2] \in Nat
        BY <3>1
    <3>3. start <= last
        BY <1>4 DEF Run
    <3>4. r[k] = ranges[k]
        BY <2>1, <1>1
    <3>5. Run(ranges[k][1], ranges[k][2]) /\ ranges[k][2] < start - 1
        BY <2>1, <1>5
    <3>6. ranges[k][2] <= last
        BY <3>2, <3>3, <3>5, <1>0
    <3> QED
        BY <3>4, <3>5, <3>6
  <2>2. CASE k = Len(ranges) + 1
    <3>1. r[k][1] = start /\ r[k][2] = last
        BY <2>2, <1>1
    <3> QED
        BY <3>1, <1>4, <1>0
  <2> QED
      BY <2>1, <2>2, <1>1, <1>0
<1>7. \A k \in DOMAIN r : k > 1 => r[k - 1][2] + 1 < r[k][1]
  <2> SUFFICES ASSUME NEW k \in DOMAIN r, k > 1 PROVE r[k - 1][2] + 1 < r[k][1]
      OBVIOUS
  <2>1. k - 1 \in 1..Len(ranges) /\ ranges[k - 1] \in Nat \X Nat /\ r[k - 1] = ranges[k - 1]
    <3>1. k \in 1..(Len(ranges) + 1)
        BY <1>1
    <3>2. k - 1 \in 1..Len(ranges)
        BY <3>1, <1>0
    <3> QED
        BY <3>2, <1>1, <1>3
  <2>2. CASE k \in 1..Len(ranges)
    <3>1. r[k] = ranges[k] /\ ranges[k - 1][2] + 1 < ranges[k][1]
        BY <2>2, <1>1, <1>5
    <3> QED
        BY <3>1, <2>1
  <2>3. CASE k = Len(ranges) + 1
    <3>1. r[k][1] = start
        BY <2>3, <1>1
    <3>2. ranges[k - 1][2] \in Nat /\ ranges[k - 1][2] < start - 1
        BY <2>1, <1>5
    <3> QED
        BY <3>1, <3>2, <2>1, <1>0
  <2> QED
      BY <2>2, <2>3, <1>0, <1>1
<1>8. \A j \in 1..last : mask[j] = 1 => Covered(r, j)
  <2> SUFFICES ASSUME NEW j \in 1..last, mask[j] = 1 PROVE Covered(r, j)
      OBVIOUS
  <2>1. Covered(ranges, j) \/ start <= j
      BY <1>0 DEF ScanInv
  <2>2. CASE Covered(ranges, j)
    <3>1. PICK k \in 1..Len(ranges) : ranges[k][1] <= j /\ j <= ranges[k][2]
        BY <2>2, <1>2 DEF Covered
    <3>2. r[k] = ranges[k] /\ k \in DOMAIN r
        BY <1>1, <1>0
    <3> QED
        BY <3>1, <3>2 DEF Covered
  <2>3. CASE start <= j
    <3>1. Len(ranges) + 1 \in DOMAIN r
        BY <1>0, <1>1
    <3>2. r[Len(ranges) + 1][1] = start /\ r[Len(ranges) + 1][2] = last
        BY <1>1
    <3>3. j <= last
        OBVIOUS
    <3> QED
        BY <2>3, <3>1, <3>2, <3>3 DEF Covered
  <2> QED
      BY <2>1, <2>2, <2>3
<1> QED
    BY <1>1, <1>6, <1>7, <1>8 DEF r

LEMMA ScanTokenInv == ASSUME IInv, ScanToken PROVE IInv'
<1> USE DEF IInv
<1>0. /\ pc = "scan" /\ pc' = "scan" /\ ScanInv /\ Types /\ mask' = mask
      /\ Len(mask) \in Nat /\ idx \in 1..Len(mask) /\ idx' = idx + 1
      /\ start \in Nat /\ mask[idx] \in {0, 1}
    BY LenProperties, ElementOfSeq DEF ScanToken, Types, input
<1>1. CASE OpenRun
  <2>1. mask[idx] = 1 /\ start = 0 /\ start' = idx /\ ranges' = ranges
      BY <1>1 DEF OpenRun
  <2>2. Types'
      BY <1>0, <2>1 DEF Types
  <2>3. Closed(ranges, idx - 1) /\ (idx > 1 => mask[idx - 1] = 0)
      BY <1>0, <2>1 DEF ScanInv
  <2>4. Closed(ranges, start - 1)'
      BY <1>0, <2>1, <2>3 DEF Closed, Run
  <2>5. OpenFrom(start)'
      BY <1>0, <2>1, <2>3 DEF OpenFrom
  <2>6. \A j \in 1..(idx' - 1) : mask'[j] = 1 => Covered(ranges', j) \/ start' <= j
      BY <1>0, <2>1 DEF ScanInv, Covered
  <2>7. ScanInv'
      BY <1>0, <2>1, <2>4, <2>5, <2>6 DEF ScanInv, Covered
  <2> QED
      BY <1>0, <2>2, <2>7 DEF RangesAreRuns
<1>2. CASE CloseRun
  <2>1. mask[idx] = 0 /\ start # 0 /\ start' = 0 /\ ranges' = Append(ranges, <<start, idx - 1>>)
      BY <1>2 DEF CloseRun
  <2>2. /\ ranges' \in Seq(Nat \X Nat)
        /\ \A k \in DOMAIN ranges' : Run(ranges'[k][1], ranges'[k][2]) /\ ranges'[k][2] <= idx - 1
        /\ \A k \in DOMAIN ranges' : k > 1 => ranges'[k - 1][2] + 1 < ranges'[k][1]
        /\ \A j \in 1..(idx - 1) : mask[j] = 1 => Covered(ranges', j)
    <3>1. idx - 1 \in Nat
        BY <1>0
    <3> QED
        BY <1>0, <2>1, <3>1, AppendRun
  <2>3. Types'
      BY <1>0, <2>1, <2>2 DEF Types
  <2>4. \A k \in DOMAIN ranges' : ranges'[k] \in Nat \X Nat
      BY <2>2, ElementOfSeq
  <2>6. ASSUME NEW j \in 1..(idx' - 1), mask'[j] = 1 PROVE Covered(ranges', j)
    <3>1. j # idx /\ (j = idx \/ j \in 1..(idx - 1))
        BY <1>0, <2>1, <2>6
    <3> QED
        BY <3>1, <2>2, <2>6, <1>0
  <2>7. mask'[idx' - 1] = 0 /\ start' = 0
      BY <1>0, <2>1
  <2>8. ScanInv'
    <3>1. Closed(ranges, IF start = 0 THEN idx - 1 ELSE start - 1)'
      <4>1. idx' - 1 = idx
          BY <1>0
      <4>2. ASSUME NEW k \in DOMAIN ranges'
            PROVE  Run(ranges[k][1], ranges[k][2])' /\ ranges'[k][2] < idx
        <5>1. ranges'[k][2] \in Nat /\ ranges'[k][2] <= idx - 1
            BY <2>2, <2>4
        <5>2. Run(ranges[k][1], ranges[k][2])'
            BY <1>0, <2>2 DEF Run
        <5> QED
            BY <5>1, <5>2, <1>0
      <4> QED
          BY <2>2, <2>7, <4>1, <4>2 DEF Closed
    <3>2. (\A j \in 1..(idx - 1) :
             mask[j] = 1 => Covered(ranges, j) \/ (start # 0 /\ start <= j))'
        BY <2>6
    <3> QED
        BY <2>7, <3>1, <3>2 DEF ScanInv
  <2> QED
      BY <1>0, <2>3, <2>8 DEF RangesAreRuns
<1>3. CASE PassToken
  <2>1. /\ start' = start /\ ranges' = ranges
        /\ (start = 0 /\ mask[idx] = 0) \/ (start # 0 /\ mask[idx] = 1)
      BY <1>0, <1>3 DEF PassToken
  <2>2. Types'
      BY <1>0, <2>1 DEF Types
  <2>3. \A k \in DOMAIN ranges : ranges[k][2] \in Nat
      BY ElementOfSeq DEF Types
  <2>4. Closed(ranges, IF start = 0 THEN idx - 1 ELSE start - 1)'
      BY <1>0, <2>1, <2>3 DEF ScanInv, Closed, Run
  <2>5. start' # 0 => OpenFrom(start)'
      BY <1>0, <2>1 DEF ScanInv, OpenFrom
  <2>6. \A j \in 1..(idx' - 1) : mask'[j] = 1 => Covered(ranges', j) \/ (start' # 0 /\ start' <= j)
      BY <1>0, <2>1 DEF ScanInv, Covered, OpenFrom
  <2>7. ScanInv'
      BY <1>0, <2>1, <2>4, <2>5, <2>6 DEF ScanInv, Covered
  <2> QED
      BY <1>0, <2>2, <2>7 DEF RangesAreRuns
<1> QED
    BY <1>1, <1>2, <1>3 DEF ScanToken

LEMMA ScanEndsInv == ASSUME IInv, ScanEnds PROVE IInv'
<1> USE DEF IInv
<1>0. /\ pc = "scan" /\ pc' = "place" /\ ScanInv /\ Types /\ mask' = mask
      /\ Len(mask) \in Nat /\ idx = Len(mask) + 1 /\ idx' = idx /\ start' = start
      /\ start \in Nat
    BY LenProperties DEF ScanEnds, Types, input
<1>1. CASE start = 0
  <2>1. ranges' = ranges
      BY <1>1 DEF ScanEnds
  <2> QED
      BY <1>0, <1>1, <2>1 DEF ScanInv, Closed, RangesAreRuns, Types, Run, Covered
<1>2. CASE start # 0
  <2>1. ranges' = Append(ranges, <<start, Len(mask)>>) /\ Len(mask) = idx - 1
      BY <1>0, <1>2 DEF ScanEnds
  <2>2. /\ ranges' \in Seq(Nat \X Nat)
        /\ \A k \in DOMAIN ranges' : Run(ranges'[k][1], ranges'[k][2])
        /\ \A k \in DOMAIN ranges' : k > 1 => ranges'[k - 1][2] + 1 < ranges'[k][1]
        /\ \A j \in 1..Len(mask) : mask[j] = 1 => Covered(ranges', j)
      BY <1>0, <1>2, <2>1, AppendRun
  <2> QED
      BY <1>0, <2>2 DEF RangesAreRuns, Types, Run, Covered
<1> QED
    BY <1>1, <1>2

LEMMA StepInv == IInv /\ [Next]_vars => IInv'
<1> SUFFICES ASSUME IInv, [Next]_vars PROVE IInv'
    OBVIOUS
<1>1. CASE ScanToken
    BY <1>1, ScanTokenInv
<1>2. CASE ScanEnds
    BY <1>2, ScanEndsInv
<1>3. ASSUME UNCHANGED <<mask, idx, start, ranges>>, pc # "scan", pc' # "scan",
             pc' \in {"place", "done"}
      PROVE  IInv'
    BY <1>3 DEF IInv, Types, RangesAreRuns, Run
<1>4. CASE PlaceNothing \/ PlaceTerminal \/ PlaceTurn
    BY <1>3, <1>4 DEF PlaceNothing, PlaceTerminal, PlaceTurn, input
<1>5. CASE UNCHANGED vars
    BY <1>5 DEF vars, IInv, Types, ScanInv, Closed, Covered, OpenFrom, RangesAreRuns, Run
<1> QED
    BY <1>1, <1>2, <1>4, <1>5 DEF Next, Idle

(* get_assistant_turn_ranges returns the maximal runs of generated tokens,  *)
(* for every mask.                                                          *)
THEOREM RangesAreRunsAlways == Spec => []RangesAreRuns
<1>1. IInv => RangesAreRuns
    BY DEF IInv
<1> QED
    BY InitInv, StepInv, <1>1, PTL DEF Spec

-----------------------------------------------------------------------------
(* Induction over numbers, as the search for a least counterexample.        *)
LEMMA Least ==
    ASSUME NEW T \in SUBSET Nat, T # {}
    PROVE  \E m \in T : \A k \in T : m <= k
<1> DEFINE R == OpToRel(<, Nat)
<1>1. IsWellFoundedOn(R, Nat)
    BY NatLessThanWellFounded
<1>2. \A x, y \in Nat : <<x, y>> \in R <=> x < y
    BY DEF OpToRel
<1> HIDE DEF R
<1>3. PICK m \in T : \A y \in T : ~ (<<y, m>> \in R)
    BY <1>1, WFMin
<1>4. \A k \in T : ~ (k < m)
    BY <1>2, <1>3
<1>5. \A k \in T : m <= k
    BY <1>4
<1> QED
    BY <1>5

-----------------------------------------------------------------------------
(* The ends of the runs are the turn ends of the advantage estimator.       *)
LEMMA EndsOfRuns ==
    ASSUME Types, RangesAreRuns, pc # "scan", Len(mask) <= MaxLength
    PROVE  /\ \A k \in DOMAIN ranges : ranges[k][2] \in RewardMask
           /\ \A j \in RewardMask : j \in 1..Len(mask) /\ \E k \in DOMAIN ranges : ranges[k][2] = j
<1>0. Len(mask) \in Nat /\ Len(ranges) \in Nat /\ DOMAIN ranges = 1..Len(ranges)
      /\ \A k \in DOMAIN ranges : ranges[k] \in Nat \X Nat
    BY LenProperties, ElementOfSeq DEF Types
<1>1. ASSUME NEW k \in DOMAIN ranges PROVE ranges[k][2] \in RewardMask
  <2> DEFINE b == ranges[k][2]
  <2>1. Run(ranges[k][1], b) /\ b \in Nat /\ ranges[k][1] \in Nat
      BY <1>0, <1>1 DEF RangesAreRuns
  <2> HIDE DEF b
  <2>2. b \in 1..Len(mask) /\ mask[b] = 1 /\ (b < Len(mask) => mask[b + 1] = 0)
      BY <1>0, <2>1 DEF Run
  <2>3. PaddedMask[b] = 1 /\ PaddedMask[b + 1] = 0
      BY <1>0, <2>2 DEF PaddedMask
  <2> QED
      BY <1>0, <2>2, <2>3 DEF RewardMask, b
<1>2. ASSUME NEW j \in RewardMask
      PROVE  j \in 1..Len(mask) /\ \E k \in DOMAIN ranges : ranges[k][2] = j
  <2>1. j \in 1..MaxLength /\ PaddedMask[j] = 1 /\ PaddedMask[j + 1] = 0
      BY DEF RewardMask
  <2>2. j \in 1..Len(mask) /\ mask[j] = 1
      BY <1>0, <2>1 DEF PaddedMask
  <2>3. j + 1 <= Len(mask) => mask[j + 1] = 0
      BY <1>0, <2>1, <2>2 DEF PaddedMask
  <2>4. PICK k \in DOMAIN ranges : ranges[k][1] <= j /\ j <= ranges[k][2]
      BY <2>2 DEF RangesAreRuns
  <2>5. Run(ranges[k][1], ranges[k][2]) /\ ranges[k][1] \in Nat /\ ranges[k][2] \in Nat
      BY <1>0, <2>4 DEF RangesAreRuns
  <2>6. CASE j < ranges[k][2]
    <3>1. mask[j + 1] = 1
        BY <2>2, <2>4, <2>5, <2>6 DEF Run
    <3>2. j + 1 <= Len(mask)
        BY <1>0, <2>2, <2>5, <2>6 DEF Run
    <3> QED
        BY <2>3, <3>1, <3>2
  <2>7. j < ranges[k][2] \/ j = ranges[k][2]
      BY <2>2, <2>4, <2>5
  <2> QED
      BY <2>2, <2>6, <2>7
<1> QED
    BY <1>1, <1>2

(* Later runs end later.                                                    *)
LEMMA EndsInOrder ==
    ASSUME Types, RangesAreRuns, pc # "scan",
           NEW k \in DOMAIN ranges, NEW l \in DOMAIN ranges, k < l
    PROVE  ranges[k][2] < ranges[l][2]
<1> DEFINE T == {m \in DOMAIN ranges : k < m /\ ~ (ranges[k][2] < ranges[m][2])}
<1>0. Len(ranges) \in Nat /\ DOMAIN ranges = 1..Len(ranges)
      /\ \A m \in DOMAIN ranges : ranges[m][1] \in Nat /\ ranges[m][2] \in Nat
  <2>1. ranges \in Seq(Nat \X Nat)
      BY DEF Types
  <2>2. Len(ranges) \in Nat /\ DOMAIN ranges = 1..Len(ranges)
      BY <2>1, LenProperties
  <2>3. ASSUME NEW m \in DOMAIN ranges PROVE ranges[m] \in Nat \X Nat
      BY <2>1, <2>2, <2>3, ElementOfSeq
  <2> QED
      BY <2>2, <2>3
<1>1. \A m \in DOMAIN ranges : ranges[m][1] <= ranges[m][2]
    BY DEF RangesAreRuns, Run
<1>2. \A m \in DOMAIN ranges : m > 1 => ranges[m - 1][2] + 1 < ranges[m][1]
    BY DEF RangesAreRuns
<1>3. CASE T # {}
  <2>0. T \in SUBSET Nat
      BY <1>0
  <2>1. PICK m \in T : \A n \in T : m <= n
      BY <1>3, <2>0, Least
  <2>2. m \in DOMAIN ranges /\ m - 1 \in DOMAIN ranges /\ m > 1 /\ k <= m - 1 /\ m - 1 \notin T
      BY <1>0, <2>1
  <2>3. ranges[m - 1][2] < ranges[m][2]
      BY <1>0, <1>1, <1>2, <2>2
  <2>4. k = m - 1 \/ ranges[k][2] < ranges[m - 1][2]
      BY <1>0, <2>2
  <2>5. ranges[k][2] < ranges[m][2]
      BY <1>0, <2>2, <2>3, <2>4
  <2> QED
      BY <2>1, <2>5
<1> QED
    BY <1>3

(* The k-th run ends at the k-th turn end.                                  *)
LEMMA EndsCounted ==
    ASSUME Types, RangesAreRuns, pc # "scan", Len(mask) <= MaxLength
    PROVE  /\ \A k \in DOMAIN ranges : Cardinality({e \in RewardMask : e <= ranges[k][2]}) = k
           /\ Cardinality(RewardMask) = Len(ranges)
<1>0. Len(ranges) \in Nat /\ DOMAIN ranges = 1..Len(ranges)
      /\ \A m \in DOMAIN ranges : ranges[m][1] \in Nat /\ ranges[m][2] \in Nat
  <2>1. ranges \in Seq(Nat \X Nat)
      BY DEF Types
  <2>2. Len(ranges) \in Nat /\ DOMAIN ranges = 1..Len(ranges)
      BY <2>1, LenProperties
  <2>3. ASSUME NEW m \in DOMAIN ranges PROVE ranges[m] \in Nat \X Nat
      BY <2>1, <2>2, <2>3, ElementOfSeq
  <2> QED
      BY <2>2, <2>3
<1> DEFINE Upto(k) == {e \in RewardMask : \E m \in 1..k : e = ranges[m][2]}
<1>1. ASSUME NEW k \in 0..Len(ranges) PROVE Cardinality(Upto(k)) = k
  <2> DEFINE g == [m \in 1..k |-> ranges[m][2]]
  <2>1. 1..k \subseteq DOMAIN ranges
      BY <1>0
  <2>2. \A m \in 1..k : ranges[m][2] \in Upto(k)
      BY <2>1, EndsOfRuns
  <2>3. \A m, n \in 1..k : ranges[m][2] = ranges[n][2] => m = n
    <3> SUFFICES ASSUME NEW m \in 1..k, NEW n \in 1..k, ranges[m][2] = ranges[n][2], m # n PROVE FALSE
        OBVIOUS
    <3>1. m \in DOMAIN ranges /\ n \in DOMAIN ranges /\ (m < n \/ n < m)
        BY <2>1
    <3>2. ranges[m][2] < ranges[n][2] \/ ranges[n][2] < ranges[m][2]
        BY <3>1, EndsInOrder
    <3> QED
        BY <1>0, <3>1, <3>2
  <2>4. g \in Injection(1..k, Upto(k))
      BY <2>2, <2>3 DEF Injection, IsInjective
  <2>5. g \in Surjection(1..k, Upto(k))
      BY <2>2 DEF Surjection
  <2>6. ExistsBijection(1..k, Upto(k))
      BY <2>4, <2>5 DEF ExistsBijection, Bijection
  <2>7. k \in Nat
      BY <1>0
  <2> HIDE DEF Upto
  <2> QED
      BY <2>6, <2>7, FS_CountingElements
<1>2. ASSUME NEW k \in DOMAIN ranges PROVE {e \in RewardMask : e <= ranges[k][2]} = Upto(k)
  <2>1. ASSUME NEW e \in RewardMask, e <= ranges[k][2] PROVE \E m \in 1..k : e = ranges[m][2]
    <3>1. PICK m \in DOMAIN ranges : ranges[m][2] = e
        BY EndsOfRuns
    <3>2. m \in 1..k
      <4>1. CASE k < m
        <5>1. ranges[k][2] < ranges[m][2]
            BY <4>1, EndsInOrder
        <5> QED
            BY <1>0, <2>1, <3>1, <5>1
      <4> QED
          BY <1>0, <4>1
    <3> QED
        BY <3>1, <3>2
  <2>2. ASSUME NEW m \in 1..k PROVE ranges[m][2] <= ranges[k][2]
    <3>1. m \in DOMAIN ranges /\ (m < k \/ m = k)
        BY <1>0
    <3>2. m < k => ranges[m][2] < ranges[k][2]
        BY <3>1, EndsInOrder
    <3> QED
        BY <1>0, <3>1, <3>2
  <2> QED
      BY <2>1, <2>2
<1>3. RewardMask = Upto(Len(ranges))
    BY <1>0, EndsOfRuns
<1>4. Len(ranges) \in 0..Len(ranges) /\ \A k \in DOMAIN ranges : k \in 0..Len(ranges)
    BY <1>0
<1> HIDE DEF Upto
<1> QED
    BY <1>1, <1>2, <1>3, <1>4

-----------------------------------------------------------------------------
(* What is placed after the first m rewards of a rollout of several turns.  *)
Filled(m) ==
    /\ \A k \in 1..m : scores[ranges[k][2]] = rewards[k]
    /\ \A j \in 1..Len(mask) : (\A k \in 1..m : ranges[k][2] # j) => scores[j] = 0

(* What is placed when there is a single turn, or none.                     *)
Terminal ==
    /\ scores[Len(mask)] = rewards[Len(rewards)]
    /\ \A j \in 1..Len(mask) : j # Len(mask) => scores[j] = 0

Given ==
    /\ Len(mask) <= MaxLength
    /\ rewards \in Seq(Int)
    /\ Len(rewards) \in {0, 1, Cardinality(RewardMask)}

Placed == Smaller(Len(ranges), Len(rewards))

PlaceInv ==
    /\ scores \in [1..Len(mask) -> Int]
    /\ i \in Nat \ {0}
    /\ pc = "scan" => i = 1 /\ Filled(0)
    /\ pc = "place" => i - 1 <= Placed /\ (Len(ranges) <= 1 => i = 1) /\ Filled(i - 1)
    /\ pc = "done" /\ mask # <<>> =>
           IF rewards = <<>> THEN Filled(0) ELSE IF Len(ranges) <= 1 THEN Terminal ELSE Filled(Placed)

LEMMA ScoresAreSeq ==
    ASSUME NEW n \in Nat, NEW s \in [1..n -> Int] PROVE s \in Seq(Int) /\ Len(s) = n
OBVIOUS

LEMMA PlaceInit == Init => Given /\ PlaceInv
<1> SUFFICES ASSUME Init PROVE Given /\ PlaceInv
    OBVIOUS
<1>1. PICK n \in 0..MaxLength : mask \in [1..n -> {0, 1}]
    BY DEF Init
<1>2. mask \in Seq({0, 1}) /\ Len(mask) = n /\ n \in Nat
    BY <1>1
<1>3. RewardMask \subseteq 1..MaxLength
    BY DEF RewardMask
<1>3a. IsFiniteSet(1..MaxLength)
    BY FS_Interval
<1>4. IsFiniteSet(RewardMask)
    BY <1>3, <1>3a, FS_Subset
<1>5. Cardinality(RewardMask) \in Nat
    BY <1>4, FS_CardinalityType
<1>6. PICK m \in {0, 1, Cardinality(RewardMask)} : rewards \in [1..m -> RewardValues]
    BY DEF Init
<1>7. m \in Nat
    BY <1>5
<1>8. rewards \in [1..m -> Int]
    BY <1>6
<1>9. rewards \in Seq(Int) /\ Len(rewards) = m
    BY <1>7, <1>8, ScoresAreSeq
<1>10. Given
    BY <1>2, <1>6, <1>9 DEF Given
<1>11. scores = [j \in 1..Len(mask) |-> 0] /\ pc = "scan" /\ i = 1
    BY DEF Init
<1>12. scores \in [1..Len(mask) -> Int] /\ \A j \in 1..Len(mask) : scores[j] = 0
    BY <1>11
<1>16. Filled(0)
    BY <1>12 DEF Filled
<1> QED
    BY <1>10, <1>11, <1>12, <1>16 DEF PlaceInv

(* Steps that place nothing.                                                *)
LEMMA PlaceKept ==
    ASSUME UNCHANGED <<mask, rewards, i, scores>>, NEW m,
           m = 0 \/ ranges' = ranges, Filled(m)
    PROVE  Filled(m)'
<1>1. CASE ranges' = ranges
    BY <1>1 DEF Filled
<1>2. CASE m = 0
  <2>1. 1..m = {}
      BY <1>2
  <2> QED
      BY <1>2, <2>1 DEF Filled
<1> QED
    BY <1>1, <1>2

LEMMA PlaceTerminalInv ==
    ASSUME IInv, Given, PlaceInv, PlaceTerminal
    PROVE  scores' \in [1..Len(mask) -> Int] /\ Terminal'
<1> DEFINE p == Len(mask)
           v == rewards[Len(rewards)]
<1>1. /\ mask # <<>> /\ rewards # <<>> /\ Len(ranges) <= 1 /\ pc = "place"
      /\ scores' = [scores EXCEPT ![p] = v] /\ UNCHANGED <<mask, rewards>>
    BY DEF PlaceTerminal, input
<1>2. p \in Nat /\ p \in 1..p /\ rewards \in Seq(Int)
  <2>1. mask \in Seq({0, 1})
      BY DEF IInv, Types
  <2>2. p \in Nat /\ (p = 0 => mask = <<>>)
      BY <2>1, LenProperties, EmptySeq
  <2> QED
      BY <1>1, <2>2 DEF Given
<1>3. v \in Int
    BY <1>1, <1>2, EmptySeq
<1>4. Filled(0) /\ scores \in [1..p -> Int]
    BY <1>1 DEF PlaceInv
<1>6. \A j \in 1..p : scores[j] = 0
    BY <1>4 DEF Filled
<1> HIDE DEF v, p
<1>10. scores' \in [1..p -> Int] /\ scores'[p] = v /\ \A j \in 1..p : j # p => scores'[j] = 0
    BY <1>1, <1>2, <1>3, <1>4, <1>6
<1> QED
    BY <1>1, <1>10 DEF Terminal, v, p

LEMMA PlaceTurnInv ==
    ASSUME IInv, Given, PlaceInv, PlaceTurn, i <= Placed
    PROVE  /\ i' = i + 1 /\ pc' = pc /\ UNCHANGED <<mask, rewards, ranges>>
           /\ scores' \in [1..Len(mask) -> Int] /\ Filled(i - 1)'
<1> DEFINE e == ranges[i][2]
<1>0. /\ pc = "place" /\ Len(mask) \in Nat /\ Len(ranges) \in Nat /\ Len(rewards) \in Nat /\ i \in Nat \ {0}
      /\ DOMAIN ranges = 1..Len(ranges) /\ Types /\ RangesAreRuns /\ Len(mask) <= MaxLength
      /\ rewards \in Seq(Int)
    BY LenProperties DEF PlaceTurn, IInv, Given, PlaceInv, Types
<1>1. i \in 1..Len(ranges) /\ i \in 1..Len(rewards) /\ i \in Nat
    BY <1>0 DEF Placed, Smaller
<1>2. e \in RewardMask /\ e \in 1..Len(mask)
    BY <1>0, <1>1, EndsOfRuns
<1>3. Smaller(e, Len(mask)) = e
    BY <1>0, <1>2 DEF Smaller
<1>4. /\ scores' = [scores EXCEPT ![e] = rewards[i]] /\ i' = i + 1
      /\ UNCHANGED <<mask, rewards, ranges, pc>>
    BY <1>3 DEF PlaceTurn, input, Placed
<1>5. \A k \in 1..(i - 1) : ranges[k][2] # e /\ ranges[k][2] \in 1..Len(mask)
  <2> SUFFICES ASSUME NEW k \in 1..(i - 1) PROVE ranges[k][2] # e /\ ranges[k][2] \in 1..Len(mask)
      OBVIOUS
  <2>1. k \in DOMAIN ranges /\ i \in DOMAIN ranges /\ k < i
      BY <1>0, <1>1
  <2>2. ranges[k][2] < e
      BY <1>0, <2>1, EndsInOrder
  <2>3. ranges[k][2] \in 1..Len(mask)
      BY <1>0, <2>1, EndsOfRuns
  <2> QED
      BY <1>2, <2>2, <2>3
<1>6. Filled(i - 1) /\ scores \in [1..Len(mask) -> Int]
    BY <1>0 DEF PlaceInv
<1> HIDE DEF e
<1>9. rewards[i] \in Int
    BY <1>0, <1>1
<1>14. scores' \in [1..Len(mask) -> Int]
    BY <1>4, <1>6, <1>9
<1>15. \A k \in 1..i : scores'[ranges[k][2]] = rewards[k]
  <2> SUFFICES ASSUME NEW k \in 1..i PROVE scores'[ranges[k][2]] = rewards[k]
      OBVIOUS
  <2>1. CASE k = i
      BY <1>2, <1>4, <1>6, <2>1 DEF e
  <2>2. CASE k # i
    <3>1. k \in 1..(i - 1)
        BY <1>1, <2>2
    <3>2. scores[ranges[k][2]] = rewards[k]
        BY <1>6, <3>1 DEF Filled
    <3> QED
        BY <1>4, <1>5, <1>6, <3>1, <3>2
  <2> QED
      BY <2>1, <2>2
<1>16. ASSUME NEW j \in 1..Len(mask), \A k \in 1..i : ranges[k][2] # j PROVE scores'[j] = 0
  <2>1. j # e /\ \A k \in 1..(i - 1) : ranges[k][2] # j
      BY <1>1, <1>16 DEF e
  <2>2. scores[j] = 0
      BY <1>6, <1>16, <2>1 DEF Filled
  <2> QED
      BY <1>4, <1>6, <1>16, <2>1, <2>2
<1>17. i' - 1 = i
    BY <1>1, <1>4
<1>18. Filled(i - 1)'
    BY <1>4, <1>15, <1>16, <1>17 DEF Filled
<1> QED
    BY <1>4, <1>14, <1>18

LEMMA PlaceStep == ASSUME IInv, Given, PlaceInv, [Next]_vars PROVE Given' /\ PlaceInv'
<1>0. UNCHANGED <<mask, rewards>> /\ Len(mask) \in Nat /\ Len(ranges) \in Nat /\ Len(rewards) \in Nat
    BY LenProperties DEF Next, ScanToken, ScanEnds, PlaceNothing, PlaceTerminal, PlaceTurn, Idle, vars, input,
       IInv, Types, Given
<1>1. Given'
    BY <1>0 DEF Given, RewardMask, PaddedMask
<1>2. CASE ScanToken
  <2>1. UNCHANGED <<mask, rewards, i, scores>> /\ pc = "scan" /\ pc' = "scan"
      BY <1>2 DEF ScanToken, input
  <2>2. Filled(0)'
      BY <2>1, PlaceKept DEF PlaceInv
  <2> QED
      BY <1>1, <2>1, <2>2 DEF PlaceInv
<1>3. CASE ScanEnds
  <2>1. UNCHANGED <<mask, rewards, i, scores>> /\ pc = "scan" /\ pc' = "place" /\ i = 1
      BY <1>3 DEF ScanEnds, input, PlaceInv
  <2>2. Filled(0)'
      BY <2>1, PlaceKept DEF PlaceInv
  <2>3. i' - 1 = 0
      BY <2>1
  <2>4. IInv'
      BY <1>3, ScanEndsInv
  <2>5. Len(ranges)' \in Nat
      BY <2>4, LenProperties DEF IInv, Types
  <2>6. Placed' >= 0
      BY <1>0, <2>5 DEF Placed, Smaller
  <2> QED
      BY <1>1, <2>1, <2>2, <2>3, <2>6 DEF PlaceInv
<1>4. CASE PlaceNothing
  <2>1. /\ UNCHANGED <<mask, rewards, i, scores, ranges>> /\ pc = "place" /\ pc' = "done"
        /\ mask = <<>> \/ rewards = <<>>
      BY <1>4 DEF PlaceNothing, input
  <2>2. CASE rewards = <<>>
    <3>1. Len(rewards) = 0
        BY <2>2
    <3>2. i = 1
        BY <1>0, <2>1, <3>1 DEF PlaceInv, Placed, Smaller
    <3>3. i - 1 = 0
        BY <3>2
    <3>4. Filled(0)
        BY <2>1, <3>3 DEF PlaceInv
    <3>5. Filled(0)'
        BY <2>1, <3>4, PlaceKept
    <3> QED
        BY <1>1, <2>1, <2>2, <3>5 DEF PlaceInv
  <2>3. CASE mask = <<>>
      BY <1>1, <2>1, <2>3 DEF PlaceInv
  <2> QED
      BY <2>1, <2>2, <2>3
<1>5. CASE PlaceTerminal
  <2>1. /\ UNCHANGED <<mask, rewards, i, ranges>> /\ pc' = "done" /\ rewards # <<>> /\ Len(ranges) <= 1
      BY <1>5 DEF PlaceTerminal, input
  <2>2. scores' \in [1..Len(mask) -> Int] /\ Terminal'
      BY <1>5, PlaceTerminalInv
  <2> QED
      BY <1>1, <2>1, <2>2 DEF PlaceInv
<1>6. CASE PlaceTurn
  <2>1. pc = "place" /\ Len(ranges) > 1 /\ rewards # <<>>
      BY <1>6 DEF PlaceTurn
  <2>2. CASE i <= Placed
    <3>1. /\ i' = i + 1 /\ pc' = pc /\ UNCHANGED <<mask, rewards, ranges>>
          /\ scores' \in [1..Len(mask) -> Int] /\ Filled(i - 1)'
        BY <1>6, <2>2, PlaceTurnInv
    <3>2. i' \in Nat \ {0} /\ i' - 1 = i /\ Placed' = Placed
        BY <3>1 DEF PlaceInv, Placed
    <3> QED
        BY <1>0, <1>1, <2>1, <2>2, <3>1, <3>2 DEF PlaceInv
  <2>3. CASE ~(i <= Placed)
    <3>1. UNCHANGED <<mask, rewards, i, scores, ranges>> /\ pc' = "done"
        BY <1>6, <2>3 DEF PlaceTurn, input, Placed
    <3>2. Placed \in Nat /\ i \in Nat /\ i - 1 <= Placed
        BY <1>0, <2>1 DEF PlaceInv, Placed, Smaller
    <3>3. i - 1 = Placed
        BY <2>3, <3>2
    <3>4. Filled(Placed)
        BY <2>1, <3>3 DEF PlaceInv
    <3>5. Placed' = Placed
        BY <3>1 DEF Placed
    <3>6. Filled(Placed)'
        BY <3>1, <3>4, <3>5 DEF Filled
    <3> QED
        BY <1>0, <1>1, <2>1, <3>1, <3>6 DEF PlaceInv
  <2> QED
      BY <2>2, <2>3
<1>7. CASE Idle \/ UNCHANGED vars
  <2>1. UNCHANGED <<mask, rewards, i, scores, ranges, pc>>
      BY <1>7 DEF Idle, vars
  <2>2. \A m \in {0, i - 1, Placed} : Filled(m) => Filled(m)'
      BY <2>1 DEF Filled, Placed
  <2>3. Placed' = Placed /\ (Terminal => Terminal')
      BY <2>1 DEF Placed, Terminal
  <2> QED
      BY <1>1, <2>1, <2>2, <2>3 DEF PlaceInv
<1> QED
    BY <1>2, <1>3, <1>4, <1>5, <1>6, <1>7 DEF Next

(* Two ways to find the turns of a rollout agree: for every mask and every  *)
(* list of rewards a rollout can have, the k-th reward is read back from    *)
(* the k-th turn end: in every rollout of several turns, and in one of a    *)
(* single turn that does not end with an observation.                       *)
ListReadBack ==
    pc = "done" /\ mask # <<>> /\ (Cardinality(RewardMask) > 1 \/ mask[Len(mask)] = 1) =>
        \A j \in 1..Len(mask) :
            LET k == Cardinality({e \in RewardMask : e <= j})
            IN  scores[j] = IF j \in RewardMask /\ k <= Len(rewards) THEN rewards[k] ELSE 0

LEMMA ReadBack == ASSUME IInv, Given, PlaceInv PROVE ListReadBack
<1> SUFFICES ASSUME pc = "done", mask # <<>>,
                    Cardinality(RewardMask) > 1 \/ mask[Len(mask)] = 1,
                    NEW j \in 1..Len(mask)
             PROVE  LET k == Cardinality({e \in RewardMask : e <= j})
                    IN  scores[j] = IF j \in RewardMask /\ k <= Len(rewards) THEN rewards[k] ELSE 0
    BY DEF ListReadBack
<1> DEFINE k == Cardinality({e \in RewardMask : e <= j})
<1>0. /\ Len(mask) \in Nat /\ Len(ranges) \in Nat /\ Len(rewards) \in Nat /\ DOMAIN ranges = 1..Len(ranges)
      /\ Types /\ RangesAreRuns /\ Len(mask) <= MaxLength /\ Len(rewards) \in {0, 1, Len(ranges)}
  <2>1. /\ Len(mask) \in Nat /\ Len(ranges) \in Nat /\ Len(rewards) \in Nat /\ DOMAIN ranges = 1..Len(ranges)
        /\ Types /\ RangesAreRuns /\ Len(mask) <= MaxLength
      BY LenProperties DEF IInv, Types, Given
  <2>2. Cardinality(RewardMask) = Len(ranges)
      BY <2>1, EndsCounted
  <2> QED
      BY <2>1, <2>2 DEF Given
<1>1. Cardinality(RewardMask) = Len(ranges)
    BY <1>0, EndsCounted
<1>2. ASSUME NEW m \in DOMAIN ranges, ranges[m][2] = j PROVE j \in RewardMask /\ k = m
    BY <1>0, <1>2, EndsOfRuns, EndsCounted
<1>3. j \in RewardMask => \E m \in DOMAIN ranges : ranges[m][2] = j
    BY <1>0, EndsOfRuns
<1> HIDE DEF k
<1>4. CASE rewards = <<>>
  <2>1. scores[j] = 0
    <3>1. Filled(0) /\ 1..0 = {}
        BY <1>4 DEF PlaceInv
    <3> QED
        BY <3>1 DEF Filled
  <2>2. j \in RewardMask => ~(k <= Len(rewards))
    <3>1. Len(rewards) = 0
        BY <1>4
    <3> QED
        BY <1>0, <1>2, <1>3, <3>1
  <2> QED
      BY <2>1, <2>2 DEF k
<1>5. CASE rewards # <<>> /\ Len(ranges) <= 1
  <2>1. mask[Len(mask)] = 1 /\ Len(mask) \in 1..Len(mask)
      BY <1>0, <1>1, <1>5
  <2>2. PICK m \in DOMAIN ranges : ranges[m][1] <= Len(mask) /\ Len(mask) <= ranges[m][2]
      BY <2>1 DEF RangesAreRuns, IInv
  <2>3. m = 1 /\ Len(ranges) = 1
      BY <1>0, <1>5, <2>2
  <2>4. ranges[1][2] \in 1..Len(mask)
      BY <1>0, <2>2, <2>3, EndsOfRuns
  <2>5. ranges[1][2] = Len(mask)
      BY <1>0, <2>2, <2>3, <2>4
  <2>6. Len(rewards) = 1
      BY <1>0, <1>5, <2>3, EmptySeq DEF Given
  <2>7. Terminal
      BY <1>5 DEF PlaceInv
  <2>8. CASE j = Len(mask)
    <3>1. j \in RewardMask /\ k = 1
        BY <1>2, <2>2, <2>3, <2>5, <2>8
    <3> QED
        BY <2>6, <2>7, <2>8, <3>1 DEF Terminal, k
  <2>9. CASE j # Len(mask)
    <3>1. j \notin RewardMask
        BY <1>0, <1>3, <2>3, <2>5, <2>9
    <3> QED
        BY <2>7, <2>9, <3>1 DEF Terminal
  <2> QED
      BY <2>8, <2>9
<1>6. CASE rewards # <<>> /\ Len(ranges) > 1
  <2>1. Filled(Placed)
      BY <1>0, <1>6 DEF PlaceInv
  <2>2. Placed \in Nat /\ Placed <= Len(ranges) /\ \A m \in DOMAIN ranges : m <= Placed <=> m <= Len(rewards)
      BY <1>0 DEF Placed, Smaller
  <2>3. CASE j \in RewardMask /\ k <= Len(rewards)
    <3>1. PICK m \in DOMAIN ranges : ranges[m][2] = j
        BY <1>3, <2>3
    <3>2. k = m
        BY <1>2, <3>1
    <3>3. m \in 1..Placed
        BY <1>0, <2>2, <2>3, <3>2
    <3>4. scores[j] = rewards[k]
        BY <2>1, <3>1, <3>2, <3>3 DEF Filled
    <3> QED
        BY <2>3, <3>4 DEF k
  <2>4. CASE ~(j \in RewardMask /\ k <= Len(rewards))
    <3>1. ASSUME NEW m \in 1..Placed, ranges[m][2] = j PROVE FALSE
      <4>1. m \in DOMAIN ranges /\ m <= Len(rewards)
          BY <1>0, <2>2
      <4> QED
          BY <1>2, <2>4, <3>1, <4>1
    <3>2. scores[j] = 0
        BY <2>1, <3>1 DEF Filled
    <3> QED
        BY <2>4, <3>2 DEF k
  <2> QED
      BY <2>3, <2>4
<1> QED
    BY <1>0, <1>4, <1>5, <1>6 DEF k

-----------------------------------------------------------------------------
(* Sums over finite sets.  A smallest subset among some: without any        *)
(* element of it, it is not one of them.                                    *)
LEMMA Smallest ==
    ASSUME NEW S, IsFiniteSet(S), NEW Bad \in SUBSET (SUBSET S), Bad # {}
    PROVE  \E T \in Bad : IsFiniteSet(T) /\ \A x \in T : T \ {x} \notin Bad
<1>1. \A T \in Bad : IsFiniteSet(T) /\ Cardinality(T) \in Nat
    BY FS_Subset, FS_CardinalityType
<1> DEFINE sizes == {Cardinality(T) : T \in Bad}
<1>2. PICK m \in sizes : \A k \in sizes : m <= k
  <2>1. sizes \in SUBSET Nat /\ sizes # {}
      BY <1>1
  <2> HIDE DEF sizes
  <2> QED
      BY <2>1, Least
<1>3. PICK T \in Bad : Cardinality(T) = m
    OBVIOUS
<1>4. ASSUME NEW x \in T, T \ {x} \in Bad PROVE FALSE
  <2>1. Cardinality(T \ {x}) = Cardinality(T) - 1
      BY <1>1, FS_RemoveElement
  <2>2. m <= Cardinality(T \ {x})
      BY <1>2, <1>4
  <2> QED
      BY <1>1, <1>3, <2>1, <2>2
<1> QED
    BY <1>1, <1>4

(* The sums of F over the subsets of S.                                     *)
Any(T) == CHOOSE y \in T : TRUE
SetSums(g, F, S) == g = [T \in SUBSET S |-> IF T = {} THEN 0 ELSE F[Any(T)] + g[T \ {Any(T)}]]
SumOf(F, S) == (CHOOSE g : SetSums(g, F, S))[S]

LEMMA AnyIsMember == ASSUME NEW T, T # {} PROVE Any(T) \in T
BY DEF Any

LEMMA SetSumsExist == ASSUME NEW S, IsFiniteSet(S), NEW F PROVE \E g : SetSums(g, F, S)
<1> DEFINE Sub(n) == {T \in SUBSET S : Cardinality(T) <= n}
           Step(g, T) == IF T = {} THEN 0 ELSE F[Any(T)] + g[T \ {Any(T)}]
           Upto(g, n) == g = [T \in Sub(n) |-> Step(g, T)]
           Bad == {n \in Nat : ~ \E g : Upto(g, n)}
<1>1. \A T \in SUBSET S : IsFiniteSet(T) /\ Cardinality(T) \in Nat
    BY FS_Subset, FS_CardinalityType
<1>2. ASSUME Bad # {} PROVE FALSE
  <2>1. PICK m \in Bad : \A k \in Bad : m <= k
      BY <1>2, Least
  <2>2. CASE m = 0
    <3> DEFINE g == [T \in Sub(0) |-> 0]
    <3>1. \A T \in Sub(0) : T = {}
        BY <1>1, FS_EmptySet
    <3>2. Upto(g, 0)
        BY <3>1
    <3> QED
        BY <2>2, <3>2
  <2>3. CASE m # 0
    <3>0. m \in Nat
        OBVIOUS
    <3>1. m - 1 \in Nat /\ m - 1 \notin Bad
      <4> HIDE DEF Bad
      <4> QED
          BY <2>1, <2>3, <3>0
    <3>2. PICK h : Upto(h, m - 1)
        BY <3>1
    <3> DEFINE g == [T \in Sub(m) |-> Step(h, T)]
    <3>3. ASSUME NEW T \in Sub(m), T # {} PROVE T \ {Any(T)} \in Sub(m - 1) /\ T \ {Any(T)} \in Sub(m)
      <4>1. Cardinality(T \ {Any(T)}) = Cardinality(T) - 1
          BY <1>1, <3>3, AnyIsMember, FS_RemoveElement
      <4> QED
          BY <1>1, <4>1
    <3>4. \A U \in Sub(m - 1) : h[U] = Step(h, U)
        BY <3>2
    <3>5. ASSUME NEW T \in Sub(m), T # {} PROVE g[T \ {Any(T)}] = h[T \ {Any(T)}]
      <4> DEFINE U == T \ {Any(T)}
      <4>1. U \in Sub(m - 1) /\ U \in Sub(m)
          BY <3>3, <3>5
      <4>2. g[U] = Step(h, U)
          BY <4>1
      <4>3. h[U] = Step(h, U)
          BY <4>1, <3>4
      <4> QED
          BY <4>2, <4>3
    <3>6. \A T \in Sub(m) : Step(g, T) = Step(h, T)
      <4> HIDE DEF Sub, g
      <4> QED
          BY <3>5
    <3>7. Upto(g, m)
      <4> HIDE DEF Sub, Step
      <4> QED
          BY <3>6
    <3> QED
        BY <2>1, <3>7
  <2> QED
      BY <2>2, <2>3
<1>3. Cardinality(S) \in Nat
    BY <1>1
<1>4. PICK g : Upto(g, Cardinality(S))
    BY <1>2, <1>3
<1>5. Sub(Cardinality(S)) = SUBSET S
    BY FS_Subset
<1>6. SetSums(g, F, S)
    BY <1>4, <1>5 DEF SetSums
<1> QED
    BY <1>6

LEMMA SetSumsStep ==
    ASSUME NEW S, NEW F, NEW g, SetSums(g, F, S)
    PROVE  g[{}] = 0 /\ \A T \in SUBSET S : T # {} => g[T] = F[Any(T)] + g[T \ {Any(T)}]
BY DEF SetSums

LEMMA SetSumsAreInts ==
    ASSUME NEW S, IsFiniteSet(S), NEW F, \A x \in S : F[x] \in Int, NEW g, SetSums(g, F, S),
           NEW U \in SUBSET S
    PROVE  g[U] \in Int
<1> DEFINE Bad == {T \in SUBSET S : g[T] \notin Int}
<1>8. g[{}] = 0 /\ \A T \in SUBSET S : T # {} => g[T] = F[Any(T)] + g[T \ {Any(T)}]
    BY DEF SetSums
<1>1. ASSUME Bad # {} PROVE FALSE
  <2>1. PICK T \in Bad : \A x \in T : T \ {x} \notin Bad
      BY <1>1, Smallest
  <2>2. T # {}
      BY <2>1, <1>8
  <2>3. Any(T) \in T /\ Any(T) \in S
      BY <2>2, AnyIsMember
  <2>4. g[T] = F[Any(T)] + g[T \ {Any(T)}]
      BY <2>2, <1>8
  <2>5. g[T \ {Any(T)}] \in Int
      BY <2>1, <2>3
  <2> QED
      BY <2>1, <2>3, <2>4, <2>5
<1> QED
    BY <1>1

(* Any element may be taken last.                                           *)
LEMMA AnyLast ==
    ASSUME NEW S, IsFiniteSet(S), NEW F, \A x \in S : F[x] \in Int, NEW g, SetSums(g, F, S),
           NEW U \in SUBSET S, NEW e \in U
    PROVE  g[U] = F[e] + g[U \ {e}]
<1> DEFINE Bad == {T \in SUBSET S : ~ \A x \in T : g[T] = F[x] + g[T \ {x}]}
<1>8. g[{}] = 0 /\ \A T \in SUBSET S : T # {} => g[T] = F[Any(T)] + g[T \ {Any(T)}]
    BY DEF SetSums
<1>1. ASSUME Bad # {} PROVE FALSE
  <2>1. PICK T \in Bad : \A x \in T : T \ {x} \notin Bad
      BY <1>1, Smallest
  <2>2. PICK x \in T : g[T] # F[x] + g[T \ {x}]
      BY <2>1
  <2> DEFINE a == Any(T)
  <2>3. a \in T /\ T \in SUBSET S
      BY <2>1, <2>2, AnyIsMember
  <2>4. g[T] = F[a] + g[T \ {a}]
      BY <2>3, <1>8
  <2> HIDE DEF a
  <2>5. a # x
      BY <2>2, <2>4
  <2> DEFINE R == (T \ {a}) \ {x}
  <2>6. g[T \ {a}] = F[x] + g[R]
      BY <2>1, <2>3, <2>5
  <2>7. g[T \ {x}] = F[a] + g[(T \ {x}) \ {a}]
      BY <2>1, <2>3, <2>5
  <2>8. (T \ {x}) \ {a} = R /\ R \in SUBSET S
      BY <2>3
  <2>9. g[R] \in Int
      BY <2>8, SetSumsAreInts
  <2>10. F[a] \in Int /\ F[x] \in Int
      BY <2>3
  <2> HIDE DEF R
  <2>11. F[a] + (F[x] + g[R]) = F[x] + (F[a] + g[R])
      BY <2>9, <2>10
  <2> QED
      BY <2>2, <2>4, <2>6, <2>7, <2>8, <2>11, Zenon
<1> QED
    BY <1>1

(* Sums are linear.                                                         *)
LEMMA Distribute ==
    ASSUME NEW c \in Int, NEW d \in Int, NEW x \in Int, NEW y \in Int, NEW n \in Int
    PROVE  (c * x - d) + (c * y - (n - 1) * d) = c * (x + y) - n * d
OBVIOUS

LEMMA SumsAreLinear ==
    ASSUME NEW S, IsFiniteSet(S), NEW F, \A x \in S : F[x] \in Int, NEW c \in Int, NEW d \in Int,
           NEW G, \A x \in S : G[x] = c * F[x] - d,
           NEW g, SetSums(g, F, S), NEW h, SetSums(h, G, S)
    PROVE  h[S] = c * g[S] - Cardinality(S) * d
<1> DEFINE Bad == {T \in SUBSET S : h[T] # c * g[T] - Cardinality(T) * d}
<1>8. g[{}] = 0 /\ \A T \in SUBSET S : T # {} => g[T] = F[Any(T)] + g[T \ {Any(T)}]
    BY DEF SetSums
<1>9. h[{}] = 0 /\ \A T \in SUBSET S : T # {} => h[T] = G[Any(T)] + h[T \ {Any(T)}]
    BY DEF SetSums
<1>1. ASSUME Bad # {} PROVE FALSE
  <2>1. PICK T \in Bad : IsFiniteSet(T) /\ \A x \in T : T \ {x} \notin Bad
      BY <1>1, Smallest
  <2>2. CASE T = {}
    <3>1. h[T] = 0 /\ g[T] = 0 /\ Cardinality(T) = 0
        BY <2>2, <1>8, <1>9, FS_EmptySet
    <3>2. c * 0 - 0 * d = 0
        OBVIOUS
    <3> QED
        BY <2>1, <3>1, <3>2
  <2>3. CASE T # {}
    <3> DEFINE a == Any(T)
               U == T \ {a}
    <3>1. a \in T /\ T \in SUBSET S
        BY <2>3, AnyIsMember
    <3>2. g[T] = F[a] + g[U] /\ h[T] = G[a] + h[U]
        BY <2>3, <1>8, <1>9
    <3> HIDE DEF a
    <3>3. h[U] = c * g[U] - Cardinality(U) * d
        BY <2>1, <3>1
    <3>4. Cardinality(U) = Cardinality(T) - 1 /\ Cardinality(T) \in Nat
        BY <2>1, <3>1, FS_RemoveElement, FS_CardinalityType
    <3>5. g[U] \in Int /\ F[a] \in Int /\ G[a] = c * F[a] - d
        BY <3>1, SetSumsAreInts
    <3> DEFINE n == Cardinality(T)
    <3>6. h[T] = (c * F[a] - d) + (c * g[U] - (n - 1) * d)
        BY <3>2, <3>3, <3>4, <3>5
    <3>7. h[T] = c * (F[a] + g[U]) - n * d
      <4> HIDE DEF U, n
      <4>1. n \in Int
          BY <3>4 DEF n
      <4> QED
          BY <3>5, <3>6, <4>1, Distribute
    <3> QED
        BY <2>1, <3>2, <3>7
  <2> QED
      BY <2>2, <2>3
<1> QED
    BY <1>1

(* Summands that are paired one to one have the same sum.                   *)
Pairs(b, S, R) ==
    /\ \A x \in S : b[x] \in R
    /\ \A x, y \in S : b[x] = b[y] => x = y
    /\ \A z \in R : \E x \in S : b[x] = z
Image(b, T) == {b[x] : x \in T}

LEMMA PairedSums ==
    ASSUME NEW S, IsFiniteSet(S), NEW R, IsFiniteSet(R), NEW b, Pairs(b, S, R),
           NEW F, NEW G, \A x \in S : G[b[x]] = F[x], \A z \in R : G[z] \in Int,
           NEW g, SetSums(g, F, S), NEW h, SetSums(h, G, R)
    PROVE  h[R] = g[S]
<1> DEFINE Bad == {T \in SUBSET S : h[Image(b, T)] # g[T]}
<1>0. /\ \A x \in S : b[x] \in R
      /\ \A x, y \in S : b[x] = b[y] => x = y
      /\ Image(b, S) = R
    BY DEF Pairs, Image
<1>8. g[{}] = 0 /\ \A T \in SUBSET S : T # {} => g[T] = F[Any(T)] + g[T \ {Any(T)}]
    BY DEF SetSums
<1>9. h[{}] = 0
    BY DEF SetSums
<1>1. ASSUME Bad # {} PROVE FALSE
  <2>1. PICK T \in Bad : \A x \in T : T \ {x} \notin Bad
      BY <1>1, Smallest
  <2>2. CASE T = {}
    <3>1. Image(b, T) = {}
        BY <2>2 DEF Image
    <3>2. h[Image(b, T)] = 0 /\ g[T] = 0
        BY <2>2, <3>1, <1>8, <1>9
    <3> QED
        BY <2>1, <3>2
  <2>3. CASE T # {}
    <3> DEFINE a == Any(T)
               U == T \ {a}
    <3>1. a \in T /\ T \in SUBSET S
        BY <2>3, AnyIsMember
    <3>2. g[T] = F[a] + g[U]
        BY <2>3, <1>8, <1>9
    <3> HIDE DEF a
    <3>3. h[Image(b, U)] = g[U]
        BY <2>1, <3>1
    <3>4. Image(b, T) \in SUBSET R /\ b[a] \in Image(b, T) /\ Image(b, T) \ {b[a]} = Image(b, U)
        BY <1>0, <3>1 DEF Image
    <3> HIDE DEF U
    <3>5. h[Image(b, T)] = G[b[a]] + h[Image(b, U)]
      <4> DEFINE V == Image(b, T)
                 e == b[a]
      <4>1. V \in SUBSET R /\ e \in V
          BY <3>4
      <4> HIDE DEF V, e
      <4>2. h[V] = G[e] + h[V \ {e}]
          BY <4>1, AnyLast
      <4> QED
          BY <3>4, <4>2 DEF V, e
    <3>6. G[b[a]] = F[a]
        BY <3>1
    <3> QED
        BY <2>1, <3>2, <3>3, <3>5, <3>6
  <2> QED
      BY <2>2, <2>3
<1>2. S \notin Bad
    BY <1>1
<1> QED
    BY <1>0, <1>2

-----------------------------------------------------------------------------
(* The batch, and the rewards of its rollouts one after the other.          *)
USE PathAssumption

LEMMA RolloutFacts ==
    ASSUME NEW x \in Rollouts
    PROVE  /\ x.mask \in Seq({0, 1}) /\ Len(x.mask) \in Nat /\ Len(x.mask) <= MaxLength
           /\ x.mask \in UNION {[1..n -> {0, 1}] : n \in 0..MaxLength}
           /\ IsFiniteSet(TurnEnds(x.mask)) /\ Cardinality(TurnEnds(x.mask)) \in Nat
           /\ x.given \in UNION {[1..n -> RewardValues] : n \in {0, 1, Cardinality(TurnEnds(x.mask))}}
           /\ x.given \in Seq(RewardValues) /\ Len(x.given) \in {0, 1, Cardinality(TurnEnds(x.mask))}
<1>0. PICK m \in UNION {[1..n -> {0, 1}] : n \in 0..MaxLength} :
          \E r \in UNION {[1..n -> RewardValues] : n \in {0, 1, Cardinality(TurnEnds(m))}} :
              x = [mask |-> m, given |-> r]
    BY DEF Rollouts
<1>1. PICK r \in UNION {[1..n -> RewardValues] : n \in {0, 1, Cardinality(TurnEnds(m))}} :
          x = [mask |-> m, given |-> r]
    BY <1>0
<1>2. PICK n \in 0..MaxLength : m \in [1..n -> {0, 1}]
    OBVIOUS
<1>3. n \in Nat /\ n <= MaxLength
    BY <1>2
<1>4. m \in Seq({0, 1}) /\ Len(m) = n
    BY <1>2, <1>3
<1>5. IsFiniteSet(1..n)
    BY <1>3, FS_Interval
<1>6. TurnEnds(m) \subseteq 1..n
    BY <1>2 DEF TurnEnds
<1>7. IsFiniteSet(TurnEnds(m)) /\ Cardinality(TurnEnds(m)) \in Nat
    BY <1>5, <1>6, FS_Subset, FS_CardinalityType
<1>8. PICK k \in {0, 1, Cardinality(TurnEnds(m))} : r \in [1..k -> RewardValues]
    OBVIOUS
<1>9. k \in Nat
    BY <1>7
<1>10. r \in Seq(RewardValues) /\ Len(r) = k
    BY <1>8, <1>9
<1>11. x.mask = m /\ x.given = r
    BY <1>1
<1> QED
    BY <1>1, <1>3, <1>4, <1>7, <1>8, <1>10, <1>11

LEMMA EndsOfMask ==
    mask \in Seq({0, 1}) /\ Len(mask) <= MaxLength => RewardMask = TurnEnds(mask)
<1> SUFFICES ASSUME mask \in Seq({0, 1}), Len(mask) <= MaxLength PROVE RewardMask = TurnEnds(mask)
    OBVIOUS
<1> DEFINE n == Len(mask)
<1>1. n \in Nat /\ DOMAIN mask = 1..n /\ n <= MaxLength
    BY LenProperties
<1>2. \A t \in 1..n : mask[t] \in {0, 1}
    BY LenProperties
<1>3. \A t \in 1..(MaxLength + 1) : PaddedMask[t] = IF t <= n THEN mask[t] ELSE 0
    BY DEF PaddedMask
<1>4. TurnEnds(mask) = {t \in 1..n : mask[t] = 1 /\ (t = n \/ mask[t + 1] = 0)}
    BY <1>1 DEF TurnEnds
<1> HIDE DEF n
<1>5. \A t \in 1..MaxLength : t \in 1..(MaxLength + 1) /\ t + 1 \in 1..(MaxLength + 1)
    BY ConstantsAssumption
<1>6. ASSUME NEW t \in RewardMask PROVE t \in TurnEnds(mask)
  <2>1. t \in 1..MaxLength /\ PaddedMask[t] = 1 /\ PaddedMask[t + 1] = 0
      BY DEF RewardMask
  <2>2. t <= n /\ mask[t] = 1
      BY <1>3, <1>5, <2>1
  <2>3. t \in 1..n
      BY <1>1, <2>1, <2>2
  <2>4. t = n \/ t + 1 <= n
      BY <1>1, <2>3
  <2>5. t + 1 <= n => mask[t + 1] = 0
      BY <1>3, <1>5, <2>1
  <2> QED
      BY <1>4, <2>2, <2>3, <2>4, <2>5
<1>7. ASSUME NEW t \in TurnEnds(mask) PROVE t \in RewardMask
  <2>1. t \in 1..n /\ mask[t] = 1 /\ (t = n \/ mask[t + 1] = 0)
      BY <1>4
  <2>2. t \in 1..MaxLength
      BY <1>1, <2>1, ConstantsAssumption
  <2>3. PaddedMask[t] = 1
      BY <1>3, <1>5, <2>1, <2>2
  <2>4. t = n => ~(t + 1 <= n)
      BY <1>1
  <2>5. PaddedMask[t + 1] = 0
      BY <1>3, <1>5, <2>1, <2>2, <2>4
  <2> QED
      BY <2>2, <2>3, <2>5 DEF RewardMask
<1> QED
    BY <1>6, <1>7

PathTypes ==
    /\ batch \in [Samples -> Rollouts]
    /\ index \in [Samples -> Samples]
    /\ compute \in {"default", "custom"}
    /\ rollout \in 1..(B + 1)
    /\ rewardTensor \in [Samples -> [Width -> Int]]
    /\ rollout <= B => mask = batch[rollout].mask /\ rewards = batch[rollout].given

(* The rollout that is being scored, as TurnRewards sees it.                *)
ScoringInv == IInv /\ Given /\ PlaceInv

LEMMA ScoringInit == Init => ScoringInv
BY InitInv, PlaceInit DEF ScoringInv

LEMMA ScoringNext == ASSUME ScoringInv, [Next]_vars PROVE ScoringInv'
BY StepInv, PlaceStep DEF ScoringInv

LEMMA RolloutSize == PathTypes => B \in Nat /\ B + 1 \in Nat /\ rollout \in Nat
BY DEF PathTypes

(* The next rollout is taken up as TurnRewards begins.                      *)
LEMMA StoreBegins ==
    ASSUME PathTypes, rollout <= B, NEW row \in [Width -> Int], Store(row)
    PROVE  PathTypes' /\ Init'
<1>1. /\ rewardTensor' = [rewardTensor EXCEPT ![rollout] = row] /\ rollout' = rollout + 1
      /\ UNCHANGED <<batch, index, compute>> /\ pc' = "scan" /\ idx' = 1 /\ start' = 0 /\ ranges' = <<>> /\ i' = 1
      /\ scores' = [t \in DOMAIN mask' |-> 0]
      /\ mask' = (IF rollout < B THEN batch[rollout + 1].mask ELSE <<>>)
      /\ rewards' = (IF rollout < B THEN batch[rollout + 1].given ELSE <<>>)
    BY DEF Store
<1>2. rollout \in Samples /\ rollout' \in 1..(B + 1)
    BY <1>1 DEF PathTypes, Samples
<1>3. rewardTensor' \in [Samples -> [Width -> Int]]
    BY <1>1, <1>2 DEF PathTypes
<1>4. (mask \in Seq({0, 1}) /\ Len(mask) <= MaxLength => RewardMask = TurnEnds(mask))'
    BY EndsOfMask, PTL
<1>5. CASE rollout < B
  <2>1. rollout + 1 \in Samples /\ batch[rollout + 1] \in Rollouts
      BY <1>2, <1>5 DEF PathTypes, Samples
  <2> DEFINE x == batch[rollout + 1]
  <2>2. mask' = x.mask /\ rewards' = x.given
      BY <1>1, <1>5
  <2>3. /\ x.mask \in Seq({0, 1}) /\ Len(x.mask) <= MaxLength /\ Len(x.mask) \in Nat
        /\ x.mask \in UNION {[1..n -> {0, 1}] : n \in 0..MaxLength}
        /\ x.given \in UNION {[1..n -> RewardValues] : n \in {0, 1, Cardinality(TurnEnds(x.mask))}}
      BY <2>1, RolloutFacts
  <2>4. RewardMask' = TurnEnds(x.mask)
      BY <1>4, <2>2, <2>3
  <2>5. DOMAIN mask' = 1..Len(mask')
      BY <2>2, <2>3, LenProperties
  <2> HIDE DEF x
  <2>6. Init'
      BY <1>1, <2>2, <2>3, <2>4, <2>5 DEF Init
  <2>7. PathTypes'
      BY <1>1, <1>2, <1>3, <2>2 DEF PathTypes, x
  <2> QED
      BY <2>6, <2>7
<1>6. CASE ~(rollout < B)
  <2>1. mask' = <<>> /\ rewards' = <<>>
      BY <1>1, <1>6
  <2>2. ~(rollout' <= B)
      BY <1>1, <1>2, <1>6 DEF Samples
  <2>3. mask' \in [1..0 -> {0, 1}] /\ rewards' \in [1..0 -> RewardValues] /\ Len(mask') = 0
      BY <2>1
  <2>4. 0 \in 0..MaxLength
      BY ConstantsAssumption
  <2>5. scores' = [t \in 1..Len(mask') |-> 0]
      BY <1>1, <2>1
  <2>6. Init'
      BY <1>1, <2>3, <2>4, <2>5 DEF Init
  <2>7. PathTypes'
      BY <1>1, <1>2, <1>3, <2>2 DEF PathTypes
  <2> QED
      BY <2>6, <2>7
<1> QED
    BY <1>5, <1>6

(* The rows that are stored.                                                *)
TurnsRow == [t \in Width |-> IF t <= Len(scores) THEN scores[t] ELSE 0]

LEMMA ScoresFacts ==
    ASSUME ScoringInv
    PROVE  scores \in [1..Len(mask) -> Int] /\ Len(mask) \in Nat /\ Len(scores) = Len(mask)
<1>1. scores \in [1..Len(mask) -> Int] /\ Len(mask) \in Nat
    BY LenProperties DEF ScoringInv, PlaceInv, IInv, Types
<1> QED
    BY <1>1, ScoresAreSeq

LEMMA RowsAreInts ==
    ASSUME ScoringInv PROVE TurnsRow \in [Width -> Int] /\ \A r \in Int : OnLastToken(r) \in [Width -> Int]
<1>1. ASSUME NEW t \in Width, t <= Len(scores) PROVE scores[t] \in Int
    BY <1>1, ScoresFacts DEF Width
<1>2. TurnsRow \in [Width -> Int]
    BY <1>1 DEF TurnsRow
<1>3. \A r \in Int : OnLastToken(r) \in [Width -> Int]
    BY DEF OnLastToken
<1> QED
    BY <1>2, <1>3

-----------------------------------------------------------------------------
(* The members of a finite set of numbers, by their rank.                   *)
Rank(E, t) == Cardinality({e \in E : e <= t})
Before(E, t) == {e \in E : e < t}

LEMMA RankFollows ==
    ASSUME NEW E \in SUBSET Nat, IsFiniteSet(E), NEW t \in E
    PROVE  Rank(E, t) = Cardinality(Before(E, t)) + 1 /\ Rank(E, t) \in 1..Cardinality(E)
<1>0. \A e \in E : e \in Nat /\ (e <= t <=> e < t \/ e = t) /\ ~(t < t)
    OBVIOUS
<1>1. {e \in E : e <= t} = Before(E, t) \cup {t} /\ t \notin Before(E, t)
    BY <1>0 DEF Before
<1>2. IsFiniteSet(Before(E, t)) /\ Before(E, t) \subseteq E
    BY FS_Subset DEF Before
<1>3. Cardinality(Before(E, t)) \in Nat
    BY <1>2, FS_CardinalityType
<1>4. Rank(E, t) = Cardinality(Before(E, t)) + 1
    BY <1>1, <1>2, FS_AddElement DEF Rank
<1>5. {e \in E : e <= t} \subseteq E
    OBVIOUS
<1>6. Rank(E, t) <= Cardinality(E) /\ Cardinality(E) \in Nat
    BY <1>5, FS_Subset, FS_CardinalityType DEF Rank
<1> QED
    BY <1>3, <1>4, <1>6

LEMMA RanksGrow ==
    ASSUME NEW E \in SUBSET Nat, IsFiniteSet(E), NEW s \in E, NEW t \in E, s < t
    PROVE  Rank(E, s) < Rank(E, t)
<1>0. \A e \in E : e <= s => e < t
    OBVIOUS
<1>1. {e \in E : e <= s} \subseteq Before(E, t)
    BY <1>0 DEF Before
<1>2. IsFiniteSet(Before(E, t)) /\ Before(E, t) \subseteq E
    BY FS_Subset DEF Before
<1>3. Rank(E, s) <= Cardinality(Before(E, t)) /\ Cardinality(Before(E, t)) \in Nat
    BY <1>1, <1>2, FS_Subset, FS_CardinalityType DEF Rank
<1>4. Rank(E, t) = Cardinality(Before(E, t)) + 1 /\ Rank(E, s) \in 1..Cardinality(E)
    BY RankFollows
<1> QED
    BY <1>3, <1>4

LEMMA RanksDiffer ==
    ASSUME NEW E \in SUBSET Nat, IsFiniteSet(E), NEW s \in E, NEW t \in E, Rank(E, s) = Rank(E, t)
    PROVE  s = t
<1>1. Rank(E, s) \in Int
    BY RankFollows
<1>2. CASE s < t
    BY <1>1, <1>2, RanksGrow
<1>3. CASE t < s
    BY <1>1, <1>3, RanksGrow
<1> QED
    BY <1>2, <1>3

LEMMA RankOfLast ==
    ASSUME NEW E \in SUBSET Nat, IsFiniteSet(E), NEW t \in E
    PROVE  Rank(E, t) = Cardinality(E) <=> \A e \in E : e <= t
<1>1. ASSUME \A e \in E : e <= t PROVE Rank(E, t) = Cardinality(E)
  <2>1. {e \in E : e <= t} = E
      BY <1>1
  <2> QED
      BY <2>1 DEF Rank
<1>2. ASSUME NEW e \in E, t < e PROVE Rank(E, t) # Cardinality(E)
  <2>1. Rank(E, t) < Rank(E, e) /\ Rank(E, e) \in 1..Cardinality(E) /\ Rank(E, t) \in 1..Cardinality(E)
      BY <1>2, RanksGrow, RankFollows
  <2> QED
      BY <2>1
<1> QED
    BY <1>1, <1>2

LEMMA RanksAreAll ==
    ASSUME NEW E \in SUBSET Nat, IsFiniteSet(E), NEW k \in 1..Cardinality(E)
    PROVE  \E t \in E : Rank(E, t) = k
<1> DEFINE f == [t \in E |-> Rank(E, t)]
           n == Cardinality(E)
<1>1. n \in Nat
    BY FS_CardinalityType
<1>2. IsFiniteSet(1..n) /\ Cardinality(1..n) = n
    BY <1>1, FS_Interval
<1>3. f \in [E -> 1..n]
    BY RankFollows
<1>4. \A s, t \in E : f[s] = f[t] => s = t
    BY RanksDiffer
<1> HIDE DEF f, n
<1>5. f \in Injection(E, 1..n)
    BY <1>3, <1>4 DEF Injection, IsInjective
<1>6. Cardinality(E) = Cardinality(1..n)
    BY <1>2 DEF n
<1>7. f \in Surjection(E, 1..n)
    BY <1>2, <1>5, <1>6, FS_Injection
<1>8. \E t \in E : f[t] = k
    BY <1>7 DEF Surjection, n
<1> QED
    BY <1>8 DEF f

(* The greatest member before t, and none.                                  *)
LEMMA RankOfPrevious ==
    ASSUME NEW E \in SUBSET Nat, NEW s \in E, NEW t \in Int, s < t, \A e \in E : e < t => e <= s
    PROVE  Cardinality(Before(E, t)) = Rank(E, s)
<1>0. \A e \in E : e < t <=> e <= s
    OBVIOUS
<1>1. Before(E, t) = {e \in E : e <= s}
    BY <1>0 DEF Before
<1> QED
    BY <1>1 DEF Rank

LEMMA NoneBefore ==
    ASSUME NEW E, NEW t, \A e \in E : ~(e < t) PROVE Cardinality(Before(E, t)) = 0
<1>1. Before(E, t) = {}
    BY DEF Before
<1> QED
    BY <1>1, FS_EmptySet

LEMMA AllBefore ==
    ASSUME NEW E, NEW t, \A e \in E : e < t PROVE Cardinality(Before(E, t)) = Cardinality(E)
<1>1. Before(E, t) = E
    BY DEF Before
<1> QED
    BY <1>1

(* Finite sets of numbers have a greatest and a least member.               *)
LEMMA Extremes ==
    ASSUME NEW E \in SUBSET Nat, IsFiniteSet(E), E # {}
    PROVE  (\E m \in E : \A e \in E : e <= m) /\ (\E m \in E : \A e \in E : m <= e)
<1>1. Cardinality(E) \in Nat /\ Cardinality(E) # 0
    BY FS_CardinalityType, FS_EmptySet
<1>2. Cardinality(E) \in 1..Cardinality(E)
    BY <1>1
<1>3. PICK m \in E : Rank(E, m) = Cardinality(E)
    BY <1>2, RanksAreAll
<1>4. \A e \in E : e <= m
    BY <1>3, RankOfLast
<1>5. \E l \in E : \A e \in E : l <= e
    BY Least
<1> QED
    BY <1>4, <1>5

-----------------------------------------------------------------------------
(* What a row of the tensor holds, and what it holds at the turn ends of    *)
(* its rollout.                                                             *)
Ends(n) == TurnEnds(batch[n].mask)
RowRead(n, row) == batch[n].given # <<>> => \A t \in Width : row[t] = ScoreAt(n, t)
RowIs(n, row) ==
    \A t \in Ends(n) :
        LET k == Rank(Ends(n), t)
            given == batch[n].given
            last == Len(batch[n].mask)
        IN  row[t] = IF given # <<>> /\ compute = "custom" /\ Turns(n) > 1
                     THEN IF k <= Len(given) THEN given[k] ELSE 0
                     ELSE IF k < Turns(n) \/ ~EndsGenerated(n) THEN 0
                     ELSE IF given = <<>> THEN row[last]
                     ELSE ScoreAt(n, last)
RowEarned(n) == \A t \in Ends(n) : rewardTensor[n][t] = Earned(n, Rank(Ends(n), t))
RowHolds(n) == RowRead(n, rewardTensor[n]) /\ RowEarned(n)

LEMMA RowIsEarned == \A n : RowEarned(n) <=> RowIs(n, rewardTensor[n])
BY DEF RowEarned, RowIs, Earned

LEMMA EndsFacts ==
    ASSUME PathTypes, NEW n \in Samples
    PROVE  /\ batch[n] \in Rollouts /\ Len(batch[n].mask) \in Nat /\ Len(batch[n].mask) <= MaxLength
           /\ batch[n].mask \in Seq({0, 1}) /\ DOMAIN batch[n].mask = 1..Len(batch[n].mask)
           /\ \A t \in Ends(n) : t \in 1..Len(batch[n].mask)
           /\ Ends(n) \in SUBSET Nat /\ Ends(n) \in SUBSET Width /\ IsFiniteSet(Ends(n))
           /\ Turns(n) = Cardinality(Ends(n)) /\ Turns(n) \in Nat
<1>1. batch[n] \in Rollouts
    BY DEF PathTypes
<1> DEFINE m == batch[n].mask
<1>2. m \in Seq({0, 1}) /\ Len(m) \in Nat /\ Len(m) <= MaxLength /\ IsFiniteSet(TurnEnds(m))
    BY <1>1, RolloutFacts
<1> HIDE DEF m
<1>3. DOMAIN m = 1..Len(m)
    BY <1>2, LenProperties
<1>4. \A t \in TurnEnds(m) : t \in 1..Len(m)
    BY <1>3 DEF TurnEnds
<1>5. \A t \in 1..Len(m) : t \in Nat /\ t \in Width
    BY <1>2, ConstantsAssumption DEF Width
<1>6. TurnEnds(m) \in SUBSET Nat /\ TurnEnds(m) \in SUBSET Width
    BY <1>4, <1>5
<1>7. Cardinality(TurnEnds(m)) \in Nat
    BY <1>2, FS_CardinalityType
<1>8. Ends(n) = TurnEnds(m) /\ Turns(n) = Cardinality(TurnEnds(m))
    BY DEF Ends, Turns, m
<1> QED
    BY <1>1, <1>2, <1>3, <1>4, <1>6, <1>7, <1>8 DEF m

(* The last token of a response with a turn end there.                      *)
LEMMA LastEnd ==
    ASSUME PathTypes, NEW n \in Samples, NEW t \in Ends(n)
    PROVE  /\ t = Len(batch[n].mask) => EndsGenerated(n) /\ Rank(Ends(n), t) = Turns(n)
           /\ t # Len(batch[n].mask) /\ EndsGenerated(n) => Rank(Ends(n), t) < Turns(n)
<1> DEFINE last == Len(batch[n].mask)
           E == Ends(n)
<1>0. E \in SUBSET Nat /\ IsFiniteSet(E) /\ last \in Nat /\ Turns(n) = Cardinality(E) /\ Turns(n) \in Nat
      /\ t \in E /\ \A e \in E : e <= last
    BY EndsFacts
<1>1. EndsGenerated(n) <=> last \in E
    BY DEF EndsGenerated, Ends
<1> HIDE DEF last, E
<1>2. ASSUME t = last PROVE Rank(E, t) = Turns(n)
    BY <1>0, <1>2, RankOfLast
<1>3. ASSUME t # last, last \in E PROVE Rank(E, t) < Turns(n)
  <2>1. t < last
      BY <1>0, <1>3
  <2>2. Rank(E, t) < Rank(E, last) /\ Rank(E, last) \in 1..Cardinality(E) /\ Rank(E, t) \in 1..Cardinality(E)
      BY <1>0, <1>3, <2>1, RanksGrow, RankFollows
  <2> QED
      BY <1>0, <2>2
<1> QED
    BY <1>0, <1>1, <1>2, <1>3 DEF last, E

LEMMA OutcomeIsEarned ==
    ASSUME PathTypes, ScoringInv, rollout <= B, rewards = <<>>, NEW r \in RewardValues
    PROVE  RowRead(rollout, OnLastToken(r)) /\ RowIs(rollout, OnLastToken(r))
<1> DEFINE n == rollout
           last == Len(mask)
           row == OnLastToken(r)
<1>0. n \in Samples /\ mask = batch[n].mask /\ batch[n].given = <<>>
  <2>1. rollout \in Samples
      BY ConstantsAssumption, RolloutSize DEF PathTypes, Samples
  <2> QED
      BY <2>1 DEF PathTypes
<1>1. ASSUME NEW t \in Ends(n) PROVE row[t] = IF Rank(Ends(n), t) < Turns(n) \/ ~EndsGenerated(n) THEN 0 ELSE row[last]
  <2>1. t \in Width /\ t \in 1..last /\ last \in Width
    <3>1. t \in 1..last /\ last \in Nat /\ last <= MaxLength
        BY <1>0, EndsFacts
    <3> QED
        BY <3>1, ConstantsAssumption DEF Width
  <2>2. mask # <<>>
    <3>1. Len(<<>>) = 0
        BY EmptySeq
    <3>2. 0 \notin Width
        BY DEF Width
    <3> QED
        BY <2>1, <3>1, <3>2
  <2>3. row[t] = IF t = last THEN r ELSE 0
      BY <2>1, <2>2 DEF OnLastToken
  <2>4. row[last] = r
      BY <2>1, <2>2 DEF OnLastToken
  <2> HIDE DEF row
  <2>5. /\ t = last => EndsGenerated(n) /\ Rank(Ends(n), t) = Turns(n)
        /\ t # last /\ EndsGenerated(n) => Rank(Ends(n), t) < Turns(n)
      BY <1>0, LastEnd
  <2>6. Turns(n) \in Nat
      BY <1>0, EndsFacts
  <2>7. t = last => ~(Rank(Ends(n), t) < Turns(n))
      BY <2>5, <2>6
  <2> QED
      BY <2>3, <2>4, <2>5, <2>7
<1>2. RowRead(n, row)
    BY <1>0 DEF RowRead
<1> HIDE DEF row
<1>3. RowIs(n, row)
    BY <1>0, <1>1 DEF RowIs
<1> QED
    BY <1>2, <1>3 DEF row

(* What compute_score of siop_reward returns, token by token.               *)
LEMMA ListIsRead ==
    ASSUME PathTypes, ScoringInv, rollout <= B, rewards # <<>>, pc = "done", NEW t \in 1..Len(mask)
    PROVE  scores[t] = RewardAt(rollout, t)
<1> DEFINE n == rollout
           last == Len(mask)
           E == Ends(n)
           k == Rank(E, t)
<1>0. n \in Samples /\ mask = batch[n].mask /\ rewards = batch[n].given
  <2>1. rollout \in Samples
      BY ConstantsAssumption, RolloutSize DEF PathTypes, Samples
  <2> QED
      BY <2>1 DEF PathTypes
<1>1. /\ mask \in Seq({0, 1}) /\ last \in Nat /\ last <= MaxLength /\ IsFiniteSet(E)
      /\ Turns(n) = Cardinality(E) /\ Turns(n) \in Nat
    BY <1>0, EndsFacts
<1>2. E = RewardMask
    BY <1>0, <1>1, EndsOfMask DEF Ends
<1>3. mask # <<>>
    BY <1>1, EmptySeq
<1>4. RewardAt(n, t) = IF Turns(n) > 1
                       THEN IF t \in E /\ k <= Len(rewards) THEN rewards[k] ELSE 0
                       ELSE IF t = last THEN rewards[Len(rewards)] ELSE 0
    BY <1>0 DEF RewardAt, Rank, Ends
<1>5. CASE Turns(n) > 1
  <2>1. ListReadBack
      BY ReadBack DEF ScoringInv
  <2>2. scores[t] = IF t \in RewardMask /\ k <= Len(rewards) THEN rewards[k] ELSE 0
      BY <1>1, <1>2, <1>3, <1>5, <2>1 DEF ListReadBack, Rank
  <2> QED
      BY <1>2, <1>4, <1>5, <2>2
<1>6. CASE ~(Turns(n) > 1)
  <2>1. Types /\ RangesAreRuns
      BY DEF ScoringInv, IInv
  <2>2. Cardinality(RewardMask) = Len(ranges)
      BY <1>1, <2>1, EndsCounted
  <2>3. Len(ranges) <= 1
      BY <1>1, <1>2, <1>6, <2>2
  <2>4. Terminal
      BY <1>3, <2>3 DEF ScoringInv, PlaceInv
  <2> QED
      BY <1>4, <1>6, <2>4 DEF Terminal
<1> QED
    BY <1>5, <1>6

(* The list fills the row; its first score is put on the last token.        *)
LEMMA RowsAreRead ==
    ASSUME PathTypes, ScoringInv, rollout <= B, rewards # <<>>, pc = "done"
    PROVE  /\ compute = "custom" => RowRead(rollout, TurnsRow)
           /\ compute = "default" /\ scores # <<>> =>
                  scores[1] \in Int /\ RowRead(rollout, OnLastToken(scores[1]))
<1> DEFINE n == rollout
           last == Len(mask)
<1>0. n \in Samples /\ mask = batch[n].mask /\ rewards = batch[n].given
  <2>1. rollout \in Samples
      BY ConstantsAssumption, RolloutSize DEF PathTypes, Samples
  <2> QED
      BY <2>1 DEF PathTypes
<1>1. scores \in [1..last -> Int] /\ last \in Nat /\ Len(scores) = last
    BY ScoresFacts
<1>2. \A t \in 1..last : scores[t] = RewardAt(n, t)
    BY ListIsRead
<1>3. ASSUME compute = "custom", NEW t \in Width PROVE TurnsRow[t] = ScoreAt(n, t)
  <2>1. TurnsRow[t] = IF t <= last THEN scores[t] ELSE 0
      BY <1>1 DEF TurnsRow
  <2>2. ScoreAt(n, t) = RewardAt(n, t)
      BY <1>3 DEF ScoreAt
  <2>3. CASE t <= last
    <3>1. t \in 1..last
        BY <1>1, <2>3 DEF Width
    <3> QED
        BY <1>2, <2>1, <2>2, <2>3, <3>1
  <2>4. CASE ~(t <= last)
    <3>1. t \notin Ends(n) /\ t # last
        BY <1>0, <1>1, <2>4, EndsFacts
    <3>2. RewardAt(n, t) = 0
        BY <1>0, <3>1 DEF RewardAt, Ends
    <3> QED
        BY <2>1, <2>2, <2>4, <3>2
  <2> QED
      BY <2>3, <2>4
<1>4. ASSUME compute = "default", scores # <<>>
      PROVE  scores[1] \in Int /\ RowRead(n, OnLastToken(scores[1]))
  <2>1. last # 0 /\ 1 \in 1..last
    <3>1. scores \in Seq(Int)
        BY <1>1
    <3>2. Len(scores) # 0
        BY <1>4, <3>1, EmptySeq
    <3> QED
        BY <1>1, <3>2
  <2>2. scores[1] \in Int /\ scores[1] = RewardAt(n, 1)
      BY <1>1, <1>2, <2>1
  <2>3. mask # <<>>
      BY <2>1
  <2>4. \A t \in Width : OnLastToken(scores[1])[t] = IF t = last THEN scores[1] ELSE 0
      BY <2>3 DEF OnLastToken
  <2>5. \A t \in Width : ScoreAt(n, t) = IF t = last THEN RewardAt(n, 1) ELSE 0
      BY <1>0, <1>4 DEF ScoreAt
  <2> QED
      BY <2>2, <2>4, <2>5 DEF RowRead
<1> QED
    BY <1>3, <1>4 DEF RowRead

(* At the turn ends a row that holds its process rewards has what the turns *)
(* have earned.                                                             *)
LEMMA ReadIsEarned ==
    ASSUME PathTypes, NEW n \in Samples, batch[n].given # <<>>, NEW row, RowRead(n, row)
    PROVE  RowIs(n, row)
<1> DEFINE last == Len(batch[n].mask)
           given == batch[n].given
<1>1. ASSUME NEW t \in Ends(n)
      PROVE  LET k == Rank(Ends(n), t)
             IN  row[t] = IF compute = "custom" /\ Turns(n) > 1
                          THEN IF k <= Len(given) THEN given[k] ELSE 0
                          ELSE IF k < Turns(n) \/ ~EndsGenerated(n) THEN 0 ELSE ScoreAt(n, last)
  <2> DEFINE k == Rank(Ends(n), t)
  <2>1. t \in Width /\ t \in TurnEnds(batch[n].mask) /\ Turns(n) \in Nat
    <3>1. t \in Width /\ Turns(n) \in Nat
        BY EndsFacts
    <3> QED
        BY <3>1 DEF Ends
  <2>2. row[t] = ScoreAt(n, t)
      BY <2>1 DEF RowRead
  <2>3. RewardAt(n, t) = IF Turns(n) > 1
                         THEN IF k <= Len(given) THEN given[k] ELSE 0
                         ELSE IF t = last THEN given[Len(given)] ELSE 0
      BY <2>1 DEF RewardAt, Rank, Ends
  <2>4. /\ t = last => EndsGenerated(n) /\ k = Turns(n)
        /\ t # last /\ EndsGenerated(n) => k < Turns(n)
      BY LastEnd
  <2>5. t = last => ~(k < Turns(n))
      BY <2>1, <2>4
  <2>6. CASE compute = "custom" /\ Turns(n) > 1
    <3>1. ScoreAt(n, t) = RewardAt(n, t)
        BY <2>6 DEF ScoreAt
    <3> QED
        BY <2>2, <2>3, <2>6, <3>1
  <2>7. CASE ~(compute = "custom" /\ Turns(n) > 1)
    <3>1. t # last => ScoreAt(n, t) = 0
        BY <2>3, <2>7 DEF ScoreAt
    <3> QED
        BY <2>2, <2>4, <2>5, <2>7, <3>1
  <2> QED
      BY <2>6, <2>7
<1> QED
    BY <1>1 DEF RowIs

-----------------------------------------------------------------------------
(* The group of a query, by the turn ends of its rollouts.                  *)
Marked(u) == {p \in Samples \X Width : index[p[1]] = u /\ p[2] \in Ends(p[1])}

LEMMA EndsOfRow ==
    ASSUME PathTypes, NEW n \in Samples PROVE Adv!RewardMask(ResponseMask[n]) = Ends(n)
<1> DEFINE m == batch[n].mask
           row == ResponseMask[n]
           last == Len(m)
<1>1. last \in Nat /\ last <= MaxLength /\ DOMAIN m = 1..last
    BY EndsFacts
<1>2. \A t \in Width : row[t] = IF t <= last THEN m[t] ELSE 0
    BY DEF ResponseMask
<1>3. \A t \in Width : t + 1 \in Width \/ t = MaxLength
    BY ConstantsAssumption DEF Width
<1>4. Ends(n) = {t \in 1..last : m[t] = 1 /\ (t = last \/ m[t + 1] = 0)}
    BY <1>1 DEF Ends, TurnEnds
<1>5. Adv!RewardMask(row) = {t \in Width : row[t] = 1 /\ (t = MaxLength \/ row[t + 1] = 0)}
    BY DEF Adv!RewardMask, Adv!Tokens, Width
<1> HIDE DEF m, row, last
<1>6. ASSUME NEW t \in Adv!RewardMask(row) PROVE t \in Ends(n)
  <2>1. t \in Width /\ row[t] = 1 /\ (t = MaxLength \/ row[t + 1] = 0)
      BY <1>5
  <2>2. t \in 1..last /\ m[t] = 1
      BY <1>1, <1>2, <2>1 DEF Width
  <2>3. t = last \/ (t # MaxLength /\ t + 1 \in Width /\ t + 1 <= last)
      BY <1>1, <1>3, <2>1, <2>2
  <2>4. t = last \/ m[t + 1] = 0
      BY <1>2, <2>1, <2>3
  <2> QED
      BY <1>4, <2>2, <2>4
<1>7. ASSUME NEW t \in Ends(n) PROVE t \in Adv!RewardMask(row)
  <2>1. t \in 1..last /\ m[t] = 1 /\ (t = last \/ m[t + 1] = 0)
      BY <1>4
  <2>2. t \in Width
      BY <1>1, <2>1, ConstantsAssumption DEF Width
  <2>3. row[t] = 1
      BY <1>2, <2>1, <2>2
  <2>4. t = last => ~(t + 1 <= last)
      BY <1>1
  <2>5. t = MaxLength \/ row[t + 1] = 0
      BY <1>2, <1>3, <2>1, <2>2, <2>4
  <2> QED
      BY <1>5, <2>2, <2>3, <2>5
<1> QED
    BY <1>6, <1>7 DEF row

LEMMA GroupIsMarked == ASSUME PathTypes, NEW u PROVE Adv!Group(u) = Marked(u)
<1>1. \A n \in Samples : Adv!RewardMask(ResponseMask[n]) = Ends(n) /\ Ends(n) \in SUBSET Width
    BY EndsOfRow, EndsFacts
<1>2. Adv!Group(u) = UNION {{n} \X Adv!RewardMask(ResponseMask[n]) : n \in {j \in Samples : index[j] = u}}
    BY DEF Adv!Group, Adv!Samples, Samples
<1>3. ASSUME NEW p \in Adv!Group(u) PROVE p \in Marked(u)
  <2>1. PICK n \in {j \in Samples : index[j] = u} : p \in {n} \X Ends(n)
      BY <1>1, <1>2
  <2>2. p = <<p[1], p[2]>> /\ p[1] = n /\ p[2] \in Ends(n)
      BY <2>1
  <2> QED
      BY <1>1, <2>2 DEF Marked
<1>4. ASSUME NEW p \in Marked(u) PROVE p \in Adv!Group(u)
  <2>1. p \in {p[1]} \X Ends(p[1]) /\ p[1] \in {j \in Samples : index[j] = u}
      BY DEF Marked
  <2>2. p \in {p[1]} \X Adv!RewardMask(ResponseMask[p[1]])
      BY <1>1, <2>1
  <2> QED
      BY <1>2, <2>1, <2>2
<1> QED
    BY <1>3, <1>4

LEMMA MarkedFinite == ASSUME NEW u PROVE IsFiniteSet(Marked(u)) /\ Cardinality(Marked(u)) \in Nat
<1>1. IsFiniteSet(Samples) /\ IsFiniteSet(Width)
    BY FS_Interval, ConstantsAssumption, PathAssumption DEF Samples, Width
<1>2. IsFiniteSet(Samples \X Width)
    BY <1>1, FS_Product
<1>3. Marked(u) \subseteq Samples \X Width
    BY DEF Marked
<1> QED
    BY <1>2, <1>3, FS_Subset, FS_CardinalityType

(* The sums of the specification.                                           *)
RewardsOf(u) == [p \in Marked(u) |-> rewardTensor[p[1]][p[2]]]
NormalizedOf(u) == [p \in Marked(u) |-> normalized[p[1]][p[2]]]

LEMMA GroupSumIsSum ==
    ASSUME PathTypes, NEW u
    PROVE  \E h : SetSums(h, RewardsOf(u), Marked(u)) /\ Adv!GroupSum(u) = h[Marked(u)]
<1> DEFINE S == Marked(u)
           e(p) == rewardTensor[p[1]][p[2]]
           F == [p \in S |-> e(p)]
           Q(g) == g = [T \in SUBSET S |-> IF T = {} THEN 0 ELSE e(Any(T)) + g[T \ {Any(T)}]]
<1>1. IsFiniteSet(S) /\ Adv!Group(u) = S
    BY MarkedFinite, GroupIsMarked
<1>2. ASSUME NEW g PROVE SetSums(g, F, S) <=> Q(g)
  <2> HIDE DEF S, e
  <2>1. \A T \in SUBSET S : T # {} => F[Any(T)] = e(Any(T))
      BY AnyIsMember
  <2> QED
      BY <2>1 DEF SetSums
<1>3. Adv!MapThenSumSet(LAMBDA p : rewardTensor[p[1]][p[2]], S) = (CHOOSE g : Q(g))[S]
    BY DEF Adv!MapThenSumSet, Adv!MapThenFoldSet, Any
<1>4. Adv!GroupSum(u) = (CHOOSE g : Q(g))[S]
    BY <1>1, <1>3 DEF Adv!GroupSum
<1> DEFINE h == CHOOSE g : Q(g)
<1> HIDE DEF S, F, Q
<1>5. SetSums(h, F, S)
    BY <1>1, <1>2, SetSumsExist
<1> QED
    BY <1>4, <1>5 DEF RewardsOf, S, F

LEMMA CentredSumIsSum ==
    ASSUME PathTypes, NEW u
    PROVE  \E h : /\ SetSums(h, NormalizedOf(u), Marked(u))
                  /\ Adv!MapThenSumSet(LAMBDA p : normalized[p[1]][p[2]], Adv!Group(u)) = h[Marked(u)]
<1> DEFINE S == Marked(u)
           e(p) == normalized[p[1]][p[2]]
           F == [p \in S |-> e(p)]
           Q(g) == g = [T \in SUBSET S |-> IF T = {} THEN 0 ELSE e(Any(T)) + g[T \ {Any(T)}]]
<1>1. IsFiniteSet(S) /\ Adv!Group(u) = S
    BY MarkedFinite, GroupIsMarked
<1>2. ASSUME NEW g PROVE SetSums(g, F, S) <=> Q(g)
  <2> HIDE DEF S, e
  <2>1. \A T \in SUBSET S : T # {} => F[Any(T)] = e(Any(T))
      BY AnyIsMember
  <2> QED
      BY <2>1 DEF SetSums
<1>3. Adv!MapThenSumSet(LAMBDA p : normalized[p[1]][p[2]], S) = (CHOOSE g : Q(g))[S]
    BY DEF Adv!MapThenSumSet, Adv!MapThenFoldSet, Any
<1> DEFINE h == CHOOSE g : Q(g)
<1>4. Adv!MapThenSumSet(LAMBDA p : normalized[p[1]][p[2]], Adv!Group(u)) = h[S]
    BY <1>1, <1>3
<1> HIDE DEF S, F, Q
<1>5. SetSums(h, F, S)
    BY <1>1, <1>2, SetSumsExist
<1> QED
    BY <1>4, <1>5 DEF NormalizedOf, S, F

(* A normalised turn end.                                                   *)
NormInv ==
    \A n \in Samples : \A t \in Ends(n) :
        normalized[n][t] =
            IF index[n] \in todo \/ Cardinality(Marked(index[n])) <= 1 THEN 0
            ELSE Cardinality(Marked(index[n])) * rewardTensor[n][t] - Adv!GroupSum(index[n])

LEMMA NormalizedSumsToZero ==
    ASSUME PathTypes, NormInv, todo = {}, NEW u,
           NEW h, SetSums(h, NormalizedOf(u), Marked(u))
    PROVE  h[Marked(u)] = 0
<1> DEFINE S == Marked(u)
           F == RewardsOf(u)
           G == NormalizedOf(u)
           c == IF Cardinality(S) <= 1 THEN 0 ELSE Cardinality(S)
<1>1. PICK g : SetSums(g, F, S) /\ Adv!GroupSum(u) = g[S]
    BY GroupSumIsSum
<1> DEFINE d == IF Cardinality(S) <= 1 THEN 0 ELSE g[S]
<1>2. IsFiniteSet(S) /\ Cardinality(S) \in Nat /\ S \in SUBSET S
    BY MarkedFinite
<1>3. \A p \in S : F[p] \in Int
  <2>1. ASSUME NEW p \in S PROVE rewardTensor[p[1]][p[2]] \in Int
    <3>1. p[1] \in Samples /\ p[2] \in Width
        BY DEF Marked
    <3> QED
        BY <3>1 DEF PathTypes
  <2> QED
      BY <2>1 DEF RewardsOf
<1>4. \A p \in S : G[p] = IF Cardinality(S) <= 1 THEN 0 ELSE Cardinality(S) * F[p] - g[S]
  <2>1. ASSUME NEW p \in S PROVE p[1] \in Samples /\ p[2] \in Ends(p[1]) /\ index[p[1]] = u
      BY DEF Marked
  <2>2. ASSUME NEW p \in S
        PROVE  normalized[p[1]][p[2]] = IF Cardinality(S) <= 1 THEN 0
                                        ELSE Cardinality(S) * rewardTensor[p[1]][p[2]] - g[S]
      BY <1>1, <2>1 DEF NormInv
  <2> QED
      BY <2>2 DEF NormalizedOf, RewardsOf
<1> HIDE DEF S, F, G
<1>5. g[S] \in Int
    BY <1>1, <1>2, <1>3, SetSumsAreInts
<1>6. c \in Int /\ d \in Int
    BY <1>2, <1>5
<1>7. \A p \in S : G[p] = c * F[p] - d
  <2>1. CASE Cardinality(S) <= 1
    <3>1. \A p \in S : 0 * F[p] - 0 = 0
        BY <1>3
    <3> QED
        BY <1>4, <2>1, <3>1
  <2>2. CASE ~(Cardinality(S) <= 1)
      BY <1>4, <2>2
  <2> QED
      BY <2>1, <2>2
<1>8. SetSums(h, G, S)
    BY DEF S, G
<1>9. c * g[S] - Cardinality(S) * d = 0
  <2>1. CASE Cardinality(S) <= 1
    <3>1. c = 0 /\ d = 0
        BY <2>1
    <3>2. 0 * g[S] - Cardinality(S) * 0 = 0
        BY <1>2, <1>5
    <3> QED
        BY <3>1, <3>2
  <2>2. CASE ~(Cardinality(S) <= 1)
    <3>1. c = Cardinality(S) /\ d = g[S]
        BY <2>2
    <3>2. Cardinality(S) * g[S] - Cardinality(S) * g[S] = 0
        BY <1>2, <1>5
    <3> QED
        BY <3>1, <3>2
  <2> QED
      BY <2>1, <2>2
<1> HIDE DEF c, d
<1>10. h[S] = c * g[S] - Cardinality(S) * d
    BY <1>1, <1>2, <1>3, <1>6, <1>7, <1>8, SumsAreLinear
<1> QED
    BY <1>9, <1>10 DEF S

LEMMA CentredGroups ==
    ASSUME PathTypes, rollout > B => NormInv PROVE GroupsAreCentred
<1> SUFFICES ASSUME rollout > B, todo = {}, NEW u \in Samples
             PROVE  Adv!MapThenSumSet(LAMBDA p : normalized[p[1]][p[2]], Adv!Group(u)) = 0
    BY DEF GroupsAreCentred, Adv!GroupsAreCentred, Adv!Samples, Samples
<1>1. PICK h : /\ SetSums(h, NormalizedOf(u), Marked(u))
               /\ Adv!MapThenSumSet(LAMBDA p : normalized[p[1]][p[2]], Adv!Group(u)) = h[Marked(u)]
    BY CentredSumIsSum
<1> QED
    BY <1>1, NormalizedSumsToZero

-----------------------------------------------------------------------------
(* The credit of a rollout's turns, which is defined from the last one back.*)
Credits(f, T, C, c) == f = [m \in 1..(T + 1) |-> IF m > T THEN 0 ELSE C[m] + c * f[m + 1]]

LEMMA CreditsExist == ASSUME NEW T \in Nat, NEW C, NEW c PROVE \E f : Credits(f, T, C, c)
<1> DEFINE From(j) == {m \in 1..(T + 1) : m + j > T}
           Step(f, m) == IF m > T THEN 0 ELSE C[m] + c * f[m + 1]
           Back(f, j) == f = [m \in From(j) |-> Step(f, m)]
           Bad == {j \in Nat : ~ \E f : Back(f, j)}
<1>1. ASSUME Bad # {} PROVE FALSE
  <2>1. PICK j \in Bad : \A k \in Bad : j <= k
      BY <1>1, Least
  <2>2. CASE j = 0
    <3> DEFINE f == [m \in From(0) |-> 0]
    <3>1. Back(f, 0)
        OBVIOUS
    <3> QED
        BY <2>2, <3>1
  <2>3. CASE j # 0
    <3>0. j \in Nat
        OBVIOUS
    <3>1. j - 1 \in Nat /\ j - 1 \notin Bad
      <4> HIDE DEF Bad
      <4> QED
          BY <2>1, <2>3, <3>0
    <3>2. PICK h : Back(h, j - 1)
        BY <3>1
    <3> DEFINE f == [m \in From(j) |-> Step(h, m)]
    <3>3. ASSUME NEW m \in From(j), ~(m > T) PROVE m + 1 \in From(j - 1) /\ m + 1 \in From(j)
        BY <3>0, <3>3
    <3>4. \A m \in From(j - 1) : h[m] = Step(h, m)
        BY <3>2
    <3>5. ASSUME NEW m \in From(j), ~(m > T) PROVE f[m + 1] = h[m + 1]
      <4> DEFINE n == m + 1
      <4>1. n \in From(j - 1) /\ n \in From(j)
          BY <3>3, <3>5
      <4> HIDE DEF n
      <4>2. f[n] = Step(h, n)
          BY <4>1
      <4>3. h[n] = Step(h, n)
          BY <4>1, <3>4
      <4>4. f[n] = h[n]
          BY <4>2, <4>3
      <4> QED
          BY <4>4 DEF n
    <3>6. \A m \in From(j) : Step(f, m) = Step(h, m)
      <4> HIDE DEF From, f
      <4> QED
          BY <3>5
    <3>7. Back(f, j)
      <4> HIDE DEF From, Step
      <4> QED
          BY <3>6
    <3> QED
        BY <2>1, <3>7
  <2> QED
      BY <2>2, <2>3
<1>2. PICK f : Back(f, T)
    BY <1>1
<1>3. From(T) = 1..(T + 1)
    OBVIOUS
<1>4. Credits(f, T, C, c)
    BY <1>2, <1>3 DEF Credits
<1> QED
    BY <1>4

LEMMA TurnCreditStep ==
    ASSUME PathTypes, NEW n \in Samples
    PROVE  /\ TurnCredit(n, Turns(n) + 1) = 0
           /\ \A k \in 1..Turns(n) : TurnCredit(n, k) = Centred(n, k) + Gamma * TurnCredit(n, k + 1)
<1> DEFINE T == Turns(n)
           e(m) == Centred(n, m)
           C == [m \in 1..T |-> e(m)]
           Q(f) == f = [m \in 1..(T + 1) |-> IF m > T THEN 0 ELSE e(m) + Gamma * f[m + 1]]
<1>1. T \in Nat
    BY EndsFacts
<1>2. ASSUME NEW f PROVE Credits(f, T, C, Gamma) <=> Q(f)
  <2> HIDE DEF T, e
  <2>1. \A m \in 1..(T + 1) : ~(m > T) => C[m] = e(m)
      BY <1>1
  <2> QED
      BY <2>1 DEF Credits
<1> DEFINE f == CHOOSE g : Q(g)
<1>3. ASSUME NEW k PROVE TurnCredit(n, k) = f[k]
    BY DEF TurnCredit
<1> HIDE DEF f, Q, C, T, e
<1>4. Credits(f, T, C, Gamma)
  <2>1. \E g : Q(g)
      BY <1>1, <1>2, CreditsExist
  <2> QED
      BY <1>2, <2>1 DEF f
<1>5. Q(f)
    BY <1>2, <1>4
<1>6. f[T + 1] = 0 /\ \A k \in 1..T : f[k] = e(k) + Gamma * f[k + 1]
  <2>1. f = [m \in 1..(T + 1) |-> IF m > T THEN 0 ELSE e(m) + Gamma * f[m + 1]]
      BY <1>5 DEF Q
  <2>2. T + 1 \in 1..(T + 1) /\ T + 1 > T
      BY <1>1
  <2>3. \A k \in 1..T : k \in 1..(T + 1) /\ ~(k > T)
      BY <1>1
  <2> QED
      BY <2>1, <2>2, <2>3
<1> QED
    BY <1>3, <1>6 DEF T, e

(* A turn end, by the number of its turn.                                   *)
Numbered(p) == <<p[1], Rank(Ends(p[1]), p[2])>>
Numbering(u) == [p \in Marked(u) |-> Numbered(p)]
EarnedBy(u) == [p \in TurnsOf(u) |-> Earned(p[1], p[2])]

LEMMA TurnsOfQuery ==
    \A u, p : p \in TurnsOf(u) <=> \E n \in Samples : index[n] = u /\ \E k \in 1..Turns(n) : p = <<n, k>>
BY DEF TurnsOf

LEMMA TurnsAreMarked == ASSUME PathTypes, NEW u PROVE Pairs(Numbering(u), Marked(u), TurnsOf(u))
<1> DEFINE S == Marked(u)
           b == Numbering(u)
<1>0. ASSUME NEW p \in S
      PROVE  /\ p[1] \in Samples /\ index[p[1]] = u /\ p[2] \in Ends(p[1]) /\ p = <<p[1], p[2]>>
             /\ b[p] = <<p[1], Rank(Ends(p[1]), p[2])>>
    BY DEF Marked, Numbering, Numbered
<1>1. ASSUME NEW p \in S PROVE b[p] \in TurnsOf(u)
  <2>1. Rank(Ends(p[1]), p[2]) \in 1..Turns(p[1])
      BY <1>0, EndsFacts, RankFollows
  <2> QED
      BY <1>0, <2>1, TurnsOfQuery
<1>2. ASSUME NEW p \in S, NEW q \in S, b[p] = b[q] PROVE p = q
  <2> DEFINE n == p[1]
             s == p[2]
             t == q[2]
  <2>1. n = q[1] /\ Rank(Ends(n), s) = Rank(Ends(n), t)
      BY <1>0, <1>2
  <2>2. n \in Samples /\ s \in Ends(n) /\ t \in Ends(n)
      BY <1>0, <2>1
  <2>3. Ends(n) \in SUBSET Nat /\ IsFiniteSet(Ends(n))
      BY <2>2, EndsFacts
  <2>4. s = t
    <3> HIDE DEF n, s, t
    <3> QED
        BY <2>1, <2>2, <2>3, RanksDiffer
  <2> QED
      BY <1>0, <2>1, <2>4
<1>3. ASSUME NEW z \in TurnsOf(u) PROVE \E p \in S : b[p] = z
  <2>1. PICK n \in Samples : index[n] = u /\ \E k \in 1..Turns(n) : z = <<n, k>>
      BY TurnsOfQuery
  <2>2. PICK k \in 1..Turns(n) : z = <<n, k>>
      BY <2>1
  <2>3. PICK t \in Ends(n) : Rank(Ends(n), t) = k
      BY EndsFacts, RanksAreAll
  <2>4. <<n, t>> \in S
    <3>1. t \in Width
        BY EndsFacts
    <3> QED
        BY <2>1, <3>1 DEF Marked
  <2>5. b[<<n, t>>] = z
      BY <2>2, <2>3, <2>4 DEF Numbering, Numbered
  <2> QED
      BY <2>4, <2>5
<1> HIDE DEF S, b
<1>4. Pairs(b, S, TurnsOf(u))
    BY <1>1, <1>2, <1>3 DEF Pairs
<1> QED
    BY <1>4 DEF S, b

LEMMA TurnsCounted ==
    ASSUME PathTypes, NEW u
    PROVE  IsFiniteSet(TurnsOf(u)) /\ Cardinality(TurnsOf(u)) = Cardinality(Marked(u))
<1> DEFINE S == Marked(u)
           R == TurnsOf(u)
           b == Numbering(u)
<1>1. IsFiniteSet(S) /\ Pairs(b, S, R)
    BY MarkedFinite, TurnsAreMarked
<1>2. b = [p \in S |-> b[p]]
    BY DEF Numbering
<1> HIDE DEF S, R, b
<1>3. b \in [S -> R]
    BY <1>1, <1>2 DEF Pairs
<1>4. b \in Injection(S, R)
    BY <1>1, <1>3 DEF Pairs, Injection, IsInjective
<1>5. b \in Surjection(S, R)
    BY <1>1, <1>3 DEF Pairs, Surjection
<1>6. ExistsBijection(S, R)
    BY <1>4, <1>5 DEF ExistsBijection, Bijection
<1>7. IsFiniteSet(R) /\ Cardinality(R) = Cardinality(S)
    BY <1>1, <1>6, FS_Bijection
<1> QED
    BY <1>7 DEF R, S

LEMMA EarnedSumIsSum ==
    ASSUME PathTypes, NEW u
    PROVE  \E h : /\ SetSums(h, EarnedBy(u), TurnsOf(u))
                  /\ MapThenSumSet(LAMBDA p : Earned(p[1], p[2]), TurnsOf(u)) = h[TurnsOf(u)]
<1> DEFINE S == TurnsOf(u)
           e(p) == Earned(p[1], p[2])
           F == [p \in S |-> e(p)]
           Q(g) == g = [T \in SUBSET S |-> IF T = {} THEN 0 ELSE e(Any(T)) + g[T \ {Any(T)}]]
<1>1. IsFiniteSet(S)
    BY TurnsCounted
<1>2. ASSUME NEW g PROVE SetSums(g, F, S) <=> Q(g)
  <2> HIDE DEF S, e
  <2>1. \A T \in SUBSET S : T # {} => F[Any(T)] = e(Any(T))
      BY AnyIsMember
  <2> QED
      BY <2>1 DEF SetSums
<1> DEFINE h == CHOOSE g : Q(g)
<1>3. MapThenSumSet(LAMBDA p : Earned(p[1], p[2]), S) = h[S]
    BY DEF MapThenSumSet, MapThenFoldSet, Any
<1> HIDE DEF S, F, Q
<1>4. SetSums(h, F, S)
    BY <1>1, <1>2, SetSumsExist
<1> QED
    BY <1>3, <1>4 DEF EarnedBy, S, F

(* When all rows hold what was earned, the group's sum is that of its turns *)
(* and a normalised turn end the centred reward of its turn.                *)
LEMMA GroupSumIsEarned ==
    ASSUME PathTypes, \A n \in Samples : RowEarned(n), NEW u
    PROVE  Adv!GroupSum(u) = MapThenSumSet(LAMBDA p : Earned(p[1], p[2]), TurnsOf(u))
<1> DEFINE S == Marked(u)
           R == TurnsOf(u)
           b == Numbering(u)
           F == RewardsOf(u)
           G == EarnedBy(u)
<1>1. PICK g : SetSums(g, F, S) /\ Adv!GroupSum(u) = g[S]
    BY GroupSumIsSum
<1>2. PICK h : SetSums(h, G, R) /\ MapThenSumSet(LAMBDA p : Earned(p[1], p[2]), TurnsOf(u)) = h[R]
    BY EarnedSumIsSum
<1>3. IsFiniteSet(S) /\ IsFiniteSet(R) /\ Pairs(b, S, R)
    BY MarkedFinite, TurnsCounted, TurnsAreMarked
<1>4. ASSUME NEW p \in S PROVE G[b[p]] = F[p] /\ F[p] \in Int
  <2> DEFINE n == p[1]
             t == p[2]
  <2>1. n \in Samples /\ t \in Ends(n) /\ t \in Width
      BY DEF Marked
  <2>2. b[p] = <<n, Rank(Ends(n), t)>> /\ b[p] \in R
      BY <1>3 DEF Numbering, Numbered, Pairs
  <2>3. G[b[p]] = Earned(n, Rank(Ends(n), t))
      BY <2>2 DEF EarnedBy
  <2>4. rewardTensor[n][t] = Earned(n, Rank(Ends(n), t))
      BY <2>1 DEF RowEarned
  <2>5. F[p] = rewardTensor[n][t]
      BY DEF RewardsOf
  <2>6. rewardTensor[n][t] \in Int
      BY <2>1 DEF PathTypes
  <2> QED
      BY <2>3, <2>4, <2>5, <2>6
<1> HIDE DEF S, R, b, F, G
<1>5. \A z \in R : G[z] \in Int
  <2> TAKE z \in R
  <2>1. PICK p \in S : b[p] = z
      BY <1>3 DEF Pairs
  <2> QED
      BY <1>4, <2>1
<1>6. h[R] = g[S]
    BY <1>1, <1>2, <1>3, <1>4, <1>5, PairedSums
<1> QED
    BY <1>1, <1>2, <1>6

LEMMA NormalizedIsCentred ==
    ASSUME PathTypes, \A n \in Samples : RowEarned(n), NormInv, todo = {},
           NEW n \in Samples, NEW t \in Ends(n)
    PROVE  normalized[n][t] = Centred(n, Rank(Ends(n), t))
<1> DEFINE u == index[n]
           c == Cardinality(Marked(u))
           k == Rank(Ends(n), t)
           sum == MapThenSumSet(LAMBDA p : Earned(p[1], p[2]), TurnsOf(u))
<1>1. normalized[n][t] = IF c <= 1 THEN 0 ELSE c * rewardTensor[n][t] - Adv!GroupSum(u)
    BY DEF NormInv
<1>2. rewardTensor[n][t] = Earned(n, k)
    BY DEF RowEarned
<1>3. Adv!GroupSum(u) = sum
    BY GroupSumIsEarned
<1>4. Cardinality(TurnsOf(u)) = c
    BY TurnsCounted
<1>5. Centred(n, k) = IF Cardinality(TurnsOf(u)) <= 1 THEN 0 ELSE Cardinality(TurnsOf(u)) * Earned(n, k) - sum
    BY DEF Centred
<1> HIDE DEF u, c, k, sum
<1> QED
    BY <1>1, <1>2, <1>3, <1>4, <1>5 DEF k

-----------------------------------------------------------------------------
(* The two passes of the advantage over a rollout: which turns have their   *)
(* sum, and which tokens their credit.                                      *)
CreditAt(n, t) ==
    IF ResponseMask[n][t] = 0 THEN 0 ELSE TurnCredit(n, Cardinality(Before(Ends(n), t)) + 1)

BackInv ==
    /\ sample \in 1..(B + 1) /\ pos \in 1..(MaxLength + 1)
    /\ DOMAIN turnAdv = Width
    /\ sample <= B =>
           /\ nextAdv = TurnCredit(sample, Cardinality(Before(Ends(sample), pos)) + 1)
           /\ \A t \in Ends(sample) : pos <= t => turnAdv[t] = TurnCredit(sample, Rank(Ends(sample), t))

ForthInv ==
    /\ DOMAIN returns = Samples
    /\ prevEnd \in 0..MaxLength
    /\ sample <= B /\ prevEnd # 0 =>
           prevEnd \in Ends(sample) /\ \A e \in Ends(sample) : ~(e < pos)
    /\ \A n \in Samples : \A t \in Width :
           returns[n][t] = IF n < sample \/ (n = sample /\ t <= prevEnd) THEN CreditAt(n, t) ELSE 0

AdvInv == NormInv /\ BackInv /\ ForthInv

LEMMA AdvSets ==
    ASSUME PathTypes, BackInv, sample <= B
    PROVE  /\ sample \in Samples /\ Adv!Ends = Ends(sample)
           /\ Adv!ToAccumulate = {t \in Ends(sample) : t < pos}
           /\ Adv!ToBroadcast = {t \in Ends(sample) : t > prevEnd}
           /\ Adv!ToAccumulate \in SUBSET Nat /\ IsFiniteSet(Adv!ToAccumulate)
           /\ Adv!ToBroadcast \in SUBSET Nat /\ IsFiniteSet(Adv!ToBroadcast)
<1>1. sample \in Samples
    BY PathAssumption DEF BackInv, Samples
<1>2. Adv!Ends = Ends(sample)
    BY <1>1, EndsOfRow DEF Adv!Ends
<1>3. Adv!ToAccumulate = {t \in Ends(sample) : t < pos} /\ Adv!ToBroadcast = {t \in Ends(sample) : t > prevEnd}
    BY <1>2 DEF Adv!ToAccumulate, Adv!ToBroadcast
<1>4. Ends(sample) \in SUBSET Nat /\ IsFiniteSet(Ends(sample))
    BY <1>1, EndsFacts
<1>5. Adv!ToAccumulate \subseteq Ends(sample) /\ Adv!ToBroadcast \subseteq Ends(sample)
    BY <1>3
<1> QED
    BY <1>1, <1>2, <1>3, <1>4, <1>5, FS_Subset

LEMMA MaxIsGreatest ==
    ASSUME NEW E \in SUBSET Nat, IsFiniteSet(E), E # {}
    PROVE  Adv!Max(E) \in E /\ \A e \in E : e <= Adv!Max(E)
<1>1. PICK m \in E : \A e \in E : e <= m
    BY Extremes
<1>2. \A e \in E : e \in Int /\ m >= e
    BY <1>1
<1>3. \E x \in E : \A y \in E : x >= y
    BY <1>2
<1>4. Adv!Max(E) \in E /\ \A y \in E : Adv!Max(E) >= y
    BY <1>3 DEF Adv!Max
<1> QED
    BY <1>2, <1>4

LEMMA MinIsLeast ==
    ASSUME NEW E \in SUBSET Nat, IsFiniteSet(E), E # {}
    PROVE  Adv!Min(E) \in E /\ \A e \in E : Adv!Min(E) <= e
<1>1. PICK m \in E : \A e \in E : m <= e
    BY Extremes
<1>4. Adv!Min(E) \in E /\ \A y \in E : Adv!Min(E) <= y
    BY <1>1 DEF Adv!Min
<1> QED
    BY <1>4

LEMMA AdvBegins == PathTypes /\ Adv!Init => AdvInv
<1> SUFFICES ASSUME PathTypes, Adv!Init PROVE AdvInv
    OBVIOUS
<1>1. /\ todo = {index[n] : n \in Samples}
      /\ normalized = [n \in Samples |-> [t \in Width |-> 0]]
      /\ sample = 1 /\ pos = MaxLength + 1 /\ nextAdv = 0
      /\ turnAdv = [t \in Width |-> 0] /\ prevEnd = 0
      /\ returns = [n \in Samples |-> [t \in Width |-> 0]]
    BY DEF Adv!Init, Adv!Samples, Adv!Tokens, Samples, Width
<1>2. NormInv
  <2> SUFFICES ASSUME NEW n \in Samples, NEW t \in Ends(n) PROVE normalized[n][t] = 0 /\ index[n] \in todo
      BY DEF NormInv
  <2>1. t \in Width
      BY EndsFacts
  <2> QED
      BY <1>1, <2>1
<1>3. 1 \in Samples /\ Ends(1) \in SUBSET Width /\ Turns(1) = Cardinality(Ends(1))
  <2>1. 1 \in Samples
      BY PathAssumption DEF Samples
  <2> QED
      BY <2>1, EndsFacts
<1>4. \A e \in Ends(1) : e < pos /\ ~(pos <= e)
    BY <1>1, <1>3, ConstantsAssumption DEF Width
<1>5. BackInv
  <2>1. Cardinality(Before(Ends(1), pos)) = Turns(1)
      BY <1>3, <1>4, AllBefore
  <2>2. nextAdv = TurnCredit(1, Turns(1) + 1)
      BY <1>1, <1>3, TurnCreditStep
  <2>3. 1 \in 1..(B + 1) /\ MaxLength + 1 \in 1..(MaxLength + 1)
      BY PathAssumption, ConstantsAssumption
  <2> QED
      BY <1>1, <1>4, <2>1, <2>2, <2>3 DEF BackInv
<1>6. ForthInv
  <2>1. 0 \in 0..MaxLength
      BY ConstantsAssumption
  <2>2. ASSUME NEW n \in Samples, NEW t \in Width PROVE ~(n < sample) /\ ~(t <= prevEnd) /\ returns[n][t] = 0
      BY <1>1 DEF Samples, Width
  <2> QED
      BY <1>1, <2>1, <2>2 DEF ForthInv
<1> QED
    BY <1>2, <1>5, <1>6 DEF AdvInv

(* What the rewards and the batch determine does not change any more.       *)
CreditsKept ==
    /\ UNCHANGED <<path, ResponseMask>>
    /\ \A n : Ends(n)' = Ends(n) /\ \A k : TurnCredit(n, k)' = TurnCredit(n, k)
    /\ \A u : Marked(u)' = Marked(u) /\ Adv!GroupSum(u)' = Adv!GroupSum(u)
    /\ \A n, t : CreditAt(n, t)' = CreditAt(n, t)

LEMMA KeptByAdvantage == ASSUME UNCHANGED path PROVE CreditsKept
<1>1. batch' = batch /\ index' = index /\ compute' = compute /\ rewardTensor' = rewardTensor
    BY DEF path
<1>2. ResponseMask' = ResponseMask
    BY <1>1 DEF ResponseMask
<1>3. ASSUME NEW n, NEW k PROVE TurnCredit(n, k)' = TurnCredit(n, k)
    BY <1>1, SMT DEF TurnCredit, Centred, TurnsOf, Earned, ScoreAt, RewardAt, EndsGenerated, Turns, TurnEnds, MapThenSumSet, MapThenFoldSet
<1>4. ASSUME NEW n PROVE Ends(n)' = Ends(n)
    BY <1>1 DEF Ends
<1>5. ASSUME NEW u PROVE Marked(u)' = Marked(u)
    BY <1>1, <1>4 DEF Marked
<1>6. ASSUME NEW u PROVE Adv!GroupSum(u)' = Adv!GroupSum(u)
    BY <1>1, <1>2, SMT DEF Adv!GroupSum, Adv!Group, Adv!RewardMask, Adv!MapThenSumSet, Adv!MapThenFoldSet
<1>7. ASSUME NEW n, NEW t PROVE CreditAt(n, t)' = CreditAt(n, t)
    BY <1>2, <1>3, <1>4 DEF CreditAt, Before
<1> QED
    BY <1>2, <1>3, <1>4, <1>5, <1>6, <1>7 DEF CreditsKept

RowsEarned == \A n \in Samples : RowEarned(n)

LEMMA NormalizeInv ==
    ASSUME PathTypes, AdvInv, CreditsKept, NEW u \in todo, Adv!NormalizeGroup(u) PROVE AdvInv'
<1>1. /\ todo' = todo \ {u} /\ UNCHANGED <<sample, pos, nextAdv, turnAdv, prevEnd, returns>>
      /\ normalized' = [n \in Samples |-> [t \in Width |->
             IF <<n, t>> \in Adv!Group(u) /\ Cardinality(Adv!Group(u)) > 1
             THEN Cardinality(Adv!Group(u)) * rewardTensor[n][t] - Adv!GroupSum(u)
             ELSE normalized[n][t]]]
  <2>1. todo' = todo \ {u} /\ UNCHANGED <<sample, pos, nextAdv, turnAdv, prevEnd, returns>>
      BY DEF Adv!NormalizeGroup
  <2>2. normalized' = [n \in Adv!Samples |-> [t \in Adv!Tokens |->
             IF <<n, t>> \in Adv!Group(u) /\ Cardinality(Adv!Group(u)) > 1
             THEN Cardinality(Adv!Group(u)) * rewardTensor[n][t] - Adv!GroupSum(u)
             ELSE normalized[n][t]]]
      BY Zenon DEF Adv!NormalizeGroup, Adv!Cardinality, Cardinality
  <2>3. Adv!Samples = Samples /\ Adv!Tokens = Width
      BY DEF Adv!Samples, Adv!Tokens, Samples, Width
  <2> QED
      BY <2>1, <2>2, <2>3, Zenon
<1>2. Adv!Group(u) = Marked(u) /\ Cardinality(Marked(u)) \in Nat
    BY GroupIsMarked, MarkedFinite
<1>3. /\ \A n : Ends(n)' = Ends(n) /\ \A k : TurnCredit(n, k)' = TurnCredit(n, k)
      /\ \A v : Marked(v)' = Marked(v) /\ Adv!GroupSum(v)' = Adv!GroupSum(v)
      /\ \A n, t : CreditAt(n, t)' = CreditAt(n, t)
      /\ index' = index /\ rewardTensor' = rewardTensor
    BY DEF CreditsKept, path
<1>4. NormInv'
  <2>1. ASSUME NEW n \in Samples, NEW t \in Ends(n)
        PROVE  normalized'[n][t] =
                   IF index[n] \in todo' \/ Cardinality(Marked(index[n])) <= 1 THEN 0
                   ELSE Cardinality(Marked(index[n])) * rewardTensor[n][t] - Adv!GroupSum(index[n])
    <3>1. t \in Width
        BY EndsFacts
    <3>2. <<n, t>> \in Marked(u) <=> index[n] = u
        BY <3>1 DEF Marked
    <3>3. normalized'[n][t] = IF index[n] = u /\ Cardinality(Marked(u)) > 1
                              THEN Cardinality(Marked(u)) * rewardTensor[n][t] - Adv!GroupSum(u)
                              ELSE normalized[n][t]
        BY <1>1, <1>2, <3>1, <3>2
    <3>4. normalized[n][t] =
              IF index[n] \in todo \/ Cardinality(Marked(index[n])) <= 1 THEN 0
              ELSE Cardinality(Marked(index[n])) * rewardTensor[n][t] - Adv!GroupSum(index[n])
        BY DEF AdvInv, NormInv
    <3>5. CASE index[n] = u
        BY <1>1, <1>2, <3>3, <3>4, <3>5
    <3>6. CASE index[n] # u
        BY <1>1, <3>3, <3>4, <3>6
    <3> QED
        BY <3>5, <3>6
  <2> QED
      BY <1>3, <2>1 DEF NormInv
<1>5. BackInv'
    BY <1>1, <1>3 DEF AdvInv, BackInv
<1>6. ForthInv'
    BY <1>1, <1>3 DEF AdvInv, ForthInv
<1> QED
    BY <1>4, <1>5, <1>6 DEF AdvInv

LEMMA NormKept == ASSUME NormInv, CreditsKept, UNCHANGED <<todo, normalized>> PROVE NormInv'
<1>1. /\ \A n : Ends(n)' = Ends(n)
      /\ \A v : Marked(v)' = Marked(v) /\ Adv!GroupSum(v)' = Adv!GroupSum(v)
      /\ index' = index /\ rewardTensor' = rewardTensor
    BY DEF CreditsKept, path
<1> QED
    BY <1>1 DEF NormInv

LEMMA AccumulateInv ==
    ASSUME PathTypes, RowsEarned, AdvInv, CreditsKept, Adv!Accumulate PROVE AdvInv'
<1> DEFINE s == sample
           E == Ends(s)
           e == Adv!Max(Adv!ToAccumulate)
<1>1. /\ todo = {} /\ s <= B /\ Adv!ToAccumulate # {}
      /\ pos' = e /\ nextAdv' = normalized[s][e] + Gamma * nextAdv
      /\ turnAdv' = [turnAdv EXCEPT ![e] = nextAdv']
      /\ UNCHANGED <<todo, normalized, sample, prevEnd, returns>>
    BY DEF Adv!Accumulate, Adv!Active
<1>2. s \in Samples /\ Adv!ToAccumulate = {t \in E : t < pos}
      /\ Adv!ToAccumulate \in SUBSET Nat /\ IsFiniteSet(Adv!ToAccumulate)
    BY <1>1, AdvSets DEF AdvInv
<1>3. e \in Adv!ToAccumulate /\ \A x \in Adv!ToAccumulate : x <= e
    BY <1>1, <1>2, MaxIsGreatest
<1>4. e \in E /\ e < pos /\ \A x \in E : x < pos => x <= e
    BY <1>2, <1>3
<1>5. /\ \A n : Ends(n)' = Ends(n) /\ \A k : TurnCredit(n, k)' = TurnCredit(n, k)
      /\ \A n, t : CreditAt(n, t)' = CreditAt(n, t)
    BY DEF CreditsKept
<1>6. normalized[s][e] = Centred(s, Rank(E, e))
    BY <1>1, <1>2, <1>4, NormalizedIsCentred DEF AdvInv, RowsEarned
<1>7. E \in SUBSET Nat /\ E \in SUBSET Width /\ IsFiniteSet(E) /\ Turns(s) = Cardinality(E)
    BY <1>2, EndsFacts
<1>8. /\ pos \in 1..(MaxLength + 1) /\ DOMAIN turnAdv = Width
      /\ nextAdv = TurnCredit(s, Cardinality(Before(E, pos)) + 1)
      /\ \A t \in E : pos <= t => turnAdv[t] = TurnCredit(s, Rank(E, t))
      /\ s \in 1..(B + 1)
    BY <1>1 DEF AdvInv, BackInv
<1> HIDE DEF s, E, e
<1>9. Cardinality(Before(E, pos)) = Rank(E, e)
  <2>1. pos \in Int
      BY <1>8
  <2> QED
      BY <1>4, <1>7, <2>1, RankOfPrevious
<1>10. Rank(E, e) \in 1..Turns(s) /\ Rank(E, e) = Cardinality(Before(E, e)) + 1
    BY <1>4, <1>7, RankFollows
<1>11. TurnCredit(s, Rank(E, e)) = Centred(s, Rank(E, e)) + Gamma * TurnCredit(s, Rank(E, e) + 1)
    BY <1>2, <1>10, TurnCreditStep
<1>12. nextAdv' = TurnCredit(s, Rank(E, e))
    BY <1>1, <1>6, <1>8, <1>9, <1>11
<1>13. ASSUME NEW t \in E, e <= t PROVE turnAdv'[t] = TurnCredit(s, Rank(E, t))
  <2>1. t \in Width /\ e \in Width /\ t \in Nat /\ e \in Nat /\ pos \in Int
      BY <1>4, <1>7, <1>8
  <2>2. CASE t = e
      BY <1>1, <1>8, <1>12, <2>1, <2>2
  <2>3. CASE t # e
    <3>1. pos <= t
        BY <1>4, <1>13, <2>1, <2>3
    <3> QED
        BY <1>1, <1>8, <2>3, <3>1
  <2> QED
      BY <2>2, <2>3
<1>14. pos' \in 1..(MaxLength + 1)
    BY <1>1, <1>4, <1>7, ConstantsAssumption DEF Width
<1>15. BackInv'
  <2>1. sample' = s /\ E = Ends(s)
      BY <1>1 DEF s, E
  <2>2. nextAdv' = TurnCredit(s, Cardinality(Before(E, pos')) + 1)
      BY <1>1, <1>10, <1>12
  <2>3. DOMAIN turnAdv' = Width
      BY <1>1, <1>8
  <2>6. s \in 1..(B + 1)
      BY <1>8
  <2>4. nextAdv' = TurnCredit(sample, Cardinality(Before(Ends(sample), pos)) + 1)'
      BY <1>5, <2>1, <2>2
  <2>5. \A t \in Ends(sample)' : pos' <= t => turnAdv'[t] = TurnCredit(sample, Rank(Ends(sample), t))'
    <3>1. \A t \in E : pos' <= t => turnAdv'[t] = TurnCredit(s, Rank(E, t))
        BY <1>1, <1>13
    <3> QED
        BY <1>5, <2>1, <3>1
  <2> QED
      BY <1>14, <2>1, <2>3, <2>4, <2>5, <2>6 DEF BackInv
<1>16. ForthInv'
  <2>1. prevEnd = 0
    <3>1. prevEnd # 0 => \A x \in E : ~(x < pos)
        BY <1>1 DEF AdvInv, ForthInv, s, E
    <3> QED
        BY <1>4, <3>1
  <2> QED
      BY <1>1, <1>5, <2>1 DEF AdvInv, ForthInv
<1>17. NormInv'
    BY <1>1, NormKept DEF AdvInv
<1> QED
    BY <1>15, <1>16, <1>17 DEF AdvInv

LEMMA BroadcastInv ==
    ASSUME PathTypes, RowsEarned, AdvInv, CreditsKept, Adv!Broadcast PROVE AdvInv'
<1> DEFINE s == sample
           E == Ends(s)
           e == Adv!Min(Adv!ToBroadcast)
           m == ResponseMask[s]
<1>1. /\ todo = {} /\ s <= B /\ Adv!ToAccumulate = {} /\ Adv!ToBroadcast # {}
      /\ returns' = [returns EXCEPT ![s] = [t \in Width |->
             IF prevEnd < t /\ t <= e /\ m[t] = 1 THEN turnAdv[e] ELSE returns[s][t]]]
      /\ prevEnd' = e
      /\ UNCHANGED <<todo, normalized, sample, pos, nextAdv, turnAdv>>
    BY DEF Adv!Broadcast, Adv!Active, Adv!InTurn, Adv!Tokens, Width
<1>2. /\ s \in Samples /\ Adv!ToAccumulate = {t \in E : t < pos} /\ Adv!ToBroadcast = {t \in E : t > prevEnd}
      /\ Adv!ToBroadcast \in SUBSET Nat /\ IsFiniteSet(Adv!ToBroadcast)
    BY <1>1, AdvSets DEF AdvInv
<1>3. e \in Adv!ToBroadcast /\ \A x \in Adv!ToBroadcast : e <= x
    BY <1>1, <1>2, MinIsLeast
<1>4. e \in E /\ e > prevEnd /\ \A x \in E : x > prevEnd => e <= x
    BY <1>2, <1>3
<1>5. /\ \A n : Ends(n)' = Ends(n) /\ \A k : TurnCredit(n, k)' = TurnCredit(n, k)
      /\ \A n, t : CreditAt(n, t)' = CreditAt(n, t)
    BY DEF CreditsKept
<1>6. E \in SUBSET Nat /\ E \in SUBSET Width /\ IsFiniteSet(E)
    BY <1>2, EndsFacts
<1>7. /\ pos \in 1..(MaxLength + 1) /\ \A t \in E : pos <= t => turnAdv[t] = TurnCredit(s, Rank(E, t))
      /\ \A t \in E : ~(t < pos)
    BY <1>1, <1>2 DEF AdvInv, BackInv
<1>8. /\ DOMAIN returns = Samples /\ prevEnd \in 0..MaxLength
      /\ \A n \in Samples : \A t \in Width :
             returns[n][t] = IF n < s \/ (n = s /\ t <= prevEnd) THEN CreditAt(n, t) ELSE 0
    BY DEF AdvInv, ForthInv
<1>9. \A t \in Width : t \in Nat /\ m[t] \in {0, 1}
  <2>1. ASSUME NEW t \in Width PROVE m[t] \in {0, 1}
    <3>1. m[t] = IF t <= Len(batch[s].mask) THEN batch[s].mask[t] ELSE 0
        BY <1>2 DEF ResponseMask
    <3>2. t <= Len(batch[s].mask) => batch[s].mask[t] \in {0, 1}
      <4>1. batch[s].mask \in Seq({0, 1}) /\ Len(batch[s].mask) \in Nat
          BY <1>2, EndsFacts
      <4> QED
          BY <4>1, ElementOfSeq DEF Width
    <3> QED
        BY <3>1, <3>2
  <2> QED
      BY <2>1 DEF Width
<1>10. \A t \in Width : CreditAt(s, t) = IF m[t] = 0 THEN 0 ELSE TurnCredit(s, Cardinality(Before(E, t)) + 1)
    BY DEF CreditAt
<1> HIDE DEF s, E, e, m
<1>11. turnAdv[e] = TurnCredit(s, Rank(E, e)) /\ e \in Nat /\ prevEnd \in Nat
  <2>1. pos <= e /\ e \in Nat
      BY <1>4, <1>6, <1>7
  <2> QED
      BY <1>4, <1>7, <1>8, <2>1
<1>12. ASSUME NEW t \in Width, prevEnd < t, t <= e, m[t] = 1 PROVE turnAdv[e] = CreditAt(s, t)
  <2>1. \A x \in E : x \in Nat /\ (x < t <=> x < e)
      BY <1>4, <1>6, <1>9, <1>11, <1>12
  <2>2. Before(E, t) = Before(E, e)
      BY <2>1 DEF Before
  <2>3. Rank(E, e) = Cardinality(Before(E, e)) + 1
      BY <1>4, <1>6, RankFollows
  <2> QED
      BY <1>10, <1>11, <1>12, <2>2, <2>3
<1>13. ASSUME NEW n \in Samples, NEW t \in Width
       PROVE  returns'[n][t] = IF n < s \/ (n = s /\ t <= e) THEN CreditAt(n, t) ELSE 0
  <2>1. n \in Int /\ s \in Int /\ t \in Nat
      BY <1>2, <1>9 DEF Samples
  <2>2. CASE n # s
      BY <1>1, <1>8, <2>2
  <2>3. CASE n = s
    <3>1. returns'[s][t] = IF prevEnd < t /\ t <= e /\ m[t] = 1 THEN turnAdv[e] ELSE returns[s][t]
        BY <1>1, <1>2, <1>8
    <3>2. returns[s][t] = IF t <= prevEnd THEN CreditAt(s, t) ELSE 0
        BY <1>2, <1>8, <2>1
    <3>3. CASE t <= prevEnd
      <4>1. ~(prevEnd < t) /\ t <= e
          BY <1>4, <1>11, <2>1, <3>3
      <4> QED
          BY <2>1, <2>3, <3>1, <3>2, <3>3, <4>1
    <3>4. CASE prevEnd < t /\ t <= e
      <4>1. CASE m[t] = 1
          BY <1>12, <2>3, <3>1, <3>4, <4>1
      <4>2. CASE m[t] # 1
        <5>1. m[t] = 0 /\ CreditAt(s, t) = 0 /\ ~(t <= prevEnd)
            BY <1>9, <1>10, <1>11, <2>1, <3>4, <4>2
        <5> QED
            BY <2>3, <3>1, <3>2, <5>1
      <4> QED
          BY <4>1, <4>2
    <3>5. CASE ~(t <= e)
      <4>1. ~(t <= prevEnd) /\ ~(n < s)
          BY <1>4, <1>11, <2>1, <2>3, <3>5
      <4> QED
          BY <2>3, <3>1, <3>2, <3>5, <4>1
    <3> QED
        BY <1>11, <2>1, <3>3, <3>4, <3>5
  <2> QED
      BY <2>2, <2>3
<1>14. ForthInv'
  <2>1. sample' = s /\ E = Ends(s)
      BY <1>1 DEF s, E
  <2>2. DOMAIN returns' = Samples
      BY <1>1, <1>8
  <2>3. prevEnd' \in 0..MaxLength
      BY <1>1, <1>4, <1>6, ConstantsAssumption DEF Width
  <2>4. prevEnd' \in Ends(sample)' /\ \A x \in Ends(sample)' : ~(x < pos')
      BY <1>1, <1>4, <1>5, <1>7, <2>1
  <2>5. \A n \in Samples : \A t \in Width :
            returns'[n][t] = IF n < sample' \/ (n = sample' /\ t <= prevEnd') THEN CreditAt(n, t)' ELSE 0
      BY <1>1, <1>5, <1>13, <2>1
  <2> QED
      BY <2>2, <2>3, <2>4, <2>5 DEF ForthInv
<1>15. BackInv'
    BY <1>1, <1>5 DEF AdvInv, BackInv
<1>16. NormInv'
    BY <1>1, NormKept DEF AdvInv
<1> QED
    BY <1>14, <1>15, <1>16 DEF AdvInv

(* A generated token has a turn end at it or after it.                      *)
LEMMA EndAfter ==
    ASSUME PathTypes, NEW n \in Samples, NEW t \in Width, ResponseMask[n][t] # 0
    PROVE  \E e \in Ends(n) : t <= e
<1> DEFINE m == batch[n].mask
           last == Len(m)
<1>1. m \in Seq({0, 1}) /\ last \in Nat /\ DOMAIN m = 1..last
    BY EndsFacts
<1>2. \A x \in 1..last : m[x] \in {0, 1}
    BY <1>1, ElementOfSeq
<1>3. t <= last /\ m[t] # 0 /\ t \in Nat /\ t >= 1
    BY DEF ResponseMask, Width
<1>4. Ends(n) = {x \in 1..last : m[x] = 1 /\ (x = last \/ m[x + 1] = 0)}
    BY <1>1 DEF Ends, TurnEnds
<1> HIDE DEF m, last
<1> SUFFICES ASSUME \A e \in Ends(n) : ~(t <= e) PROVE FALSE
    OBVIOUS
<1> DEFINE Bad == {x \in t..last : m[x] # 1}
<1>5. ASSUME Bad # {} PROVE FALSE
  <2>1. Bad \in SUBSET Nat
      BY <1>1, <1>3
  <2>2. PICK x \in Bad : \A y \in Bad : x <= y
      BY <1>5, <2>1, Least
  <2>3. x \in t..last /\ m[x] # 1
      OBVIOUS
  <2>4. t \in 1..last
      BY <1>1, <1>3
  <2>5. x # t
      BY <1>2, <1>3, <2>3, <2>4
  <2> DEFINE y == x - 1
  <2>6. y \in t..last /\ y + 1 = x /\ ~(x <= y) /\ y \in 1..last /\ x \in 1..last
      BY <1>1, <1>3, <2>3, <2>5
  <2>7. y \notin Bad
      BY <2>2, <2>6
  <2> HIDE DEF y
  <2>8. m[y] = 1 /\ m[y + 1] = 0
      BY <1>2, <2>3, <2>6, <2>7
  <2>9. y \in Ends(n) /\ t <= y
      BY <1>4, <2>6, <2>8
  <2> QED
      BY <2>9
<1>6. last \in t..last /\ last \in 1..last
    BY <1>1, <1>3
<1>7. m[last] = 1
    BY <1>5, <1>6
<1> QED
    BY <1>3, <1>4, <1>6, <1>7

LEMMA NextSampleInv ==
    ASSUME PathTypes, RowsEarned, AdvInv, CreditsKept, Adv!NextSample PROVE AdvInv'
<1> DEFINE s == sample
<1>1. /\ s <= B /\ Adv!ToAccumulate = {} /\ Adv!ToBroadcast = {}
      /\ sample' = s + 1 /\ pos' = MaxLength + 1 /\ nextAdv' = 0
      /\ turnAdv' = [t \in Width |-> 0] /\ prevEnd' = 0
      /\ UNCHANGED <<todo, normalized, returns>>
    BY DEF Adv!NextSample, Adv!Active, Adv!Tokens, Width
<1>2. s \in Samples /\ Adv!ToBroadcast = {t \in Ends(s) : t > prevEnd}
    BY <1>1, AdvSets DEF AdvInv
<1>3. /\ \A n : Ends(n)' = Ends(n) /\ \A k : TurnCredit(n, k)' = TurnCredit(n, k)
      /\ \A n, t : CreditAt(n, t)' = CreditAt(n, t)
    BY DEF CreditsKept
<1>4. /\ DOMAIN returns = Samples /\ prevEnd \in 0..MaxLength
      /\ \A n \in Samples : \A t \in Width :
             returns[n][t] = IF n < s \/ (n = s /\ t <= prevEnd) THEN CreditAt(n, t) ELSE 0
    BY DEF AdvInv, ForthInv
<1>5. ASSUME NEW t \in Width, ~(t <= prevEnd) PROVE CreditAt(s, t) = 0
  <2>1. ASSUME ResponseMask[s][t] # 0 PROVE FALSE
    <3>1. PICK e \in Ends(s) : t <= e
        BY <1>2, <2>1, EndAfter
    <3>2. e \in Nat /\ t \in Nat /\ prevEnd \in Nat
        BY <1>2, <1>4, EndsFacts DEF Width
    <3>3. e > prevEnd
        BY <1>5, <3>1, <3>2
    <3> QED
        BY <1>1, <1>2, <3>3
  <2> QED
      BY <2>1 DEF CreditAt
<1> HIDE DEF s
<1>6. ASSUME NEW n \in Samples, NEW t \in Width
      PROVE  ~(t <= 0) /\ returns[n][t] = IF n < s + 1 THEN CreditAt(n, t) ELSE 0
  <2>1. n \in Int /\ s \in Int /\ t \in Nat /\ t >= 1
      BY <1>2 DEF Samples, Width
  <2>2. returns[n][t] = IF n < s \/ (n = s /\ t <= prevEnd) THEN CreditAt(n, t) ELSE 0
      BY <1>4
  <2>3. CASE n < s
      BY <2>1, <2>2, <2>3
  <2>4. CASE n = s
      BY <1>5, <2>1, <2>2, <2>4
  <2>5. CASE n > s
      BY <2>1, <2>2, <2>5
  <2> QED
      BY <2>1, <2>3, <2>4, <2>5
<1>7. ForthInv'
  <2>1. 0 \in 0..MaxLength
      BY ConstantsAssumption
  <2> QED
      BY <1>1, <1>3, <1>4, <1>6, <2>1 DEF ForthInv
<1>8. BackInv'
  <2>0. s + 1 \in 1..(B + 1) /\ MaxLength + 1 \in 1..(MaxLength + 1) /\ (s + 1 <= B => s + 1 \in Samples)
      BY <1>1, <1>2, PathAssumption, ConstantsAssumption DEF Samples
  <2>1. ASSUME s + 1 <= B
        PROVE  /\ TurnCredit(s + 1, Cardinality(Before(Ends(s + 1), MaxLength + 1)) + 1) = 0
               /\ \A t \in Ends(s + 1) : ~(MaxLength + 1 <= t)
    <3> DEFINE n == s + 1
    <3>1. n \in Samples
        BY <2>0, <2>1
    <3> HIDE DEF n
    <3>2. Ends(n) \in SUBSET Width /\ Turns(n) = Cardinality(Ends(n))
        BY <3>1, EndsFacts
    <3>3. \A e \in Ends(n) : e < MaxLength + 1 /\ ~(MaxLength + 1 <= e)
        BY <3>2, ConstantsAssumption DEF Width
    <3>4. Cardinality(Before(Ends(n), MaxLength + 1)) = Turns(n)
        BY <3>2, <3>3, AllBefore
    <3>5. TurnCredit(n, Turns(n) + 1) = 0
        BY <3>1, TurnCreditStep
    <3> QED
        BY <3>3, <3>4, <3>5 DEF n
  <2>2. DOMAIN turnAdv' = Width
      BY <1>1
  <2> QED
      BY <1>1, <1>3, <2>0, <2>1, <2>2 DEF BackInv
<1>9. NormInv'
    BY <1>1, NormKept DEF AdvInv
<1> QED
    BY <1>7, <1>8, <1>9 DEF AdvInv

LEMMA AdvNext ==
    ASSUME PathTypes, RowsEarned, AdvInv, UNCHANGED path, Adv!Next PROVE AdvInv'
<1>1. CreditsKept
    BY KeptByAdvantage
<1>2. ASSUME NEW u \in todo, Adv!NormalizeGroup(u) PROVE AdvInv'
    BY <1>1, <1>2, NormalizeInv
<1>3. CASE Adv!Accumulate
    BY <1>1, <1>3, AccumulateInv
<1>4. CASE Adv!Broadcast
    BY <1>1, <1>4, BroadcastInv
<1>5. CASE Adv!NextSample
    BY <1>1, <1>5, NextSampleInv
<1> QED
    BY <1>2, <1>3, <1>4, <1>5 DEF Adv!Next

-----------------------------------------------------------------------------
(* The whole path: while rollouts are scored the advantage waits at its     *)
(* beginning; when it begins, every row holds what its turns have earned.   *)
PathInv ==
    /\ PathTypes /\ ScoringInv
    /\ rewards = <<>> => pc = "scan"
    /\ \A n \in Samples : n < rollout => RowHolds(n)
    /\ rollout <= B => Adv!Init
    /\ AdvInv

LEMMA PathBegins == PathInit => PathInv
<1> SUFFICES ASSUME PathInit PROVE PathInv
    OBVIOUS
<1>1. /\ batch \in [Samples -> Rollouts] /\ index \in [Samples -> Samples] /\ rollout = 1
      /\ compute \in {"default", "custom"}
      /\ rewardTensor = [n \in Samples |-> [t \in Width |-> 0]]
      /\ mask = batch[1].mask /\ rewards = batch[1].given /\ Init /\ Adv!Init
    BY PathAssumption DEF PathInit
<1>2. 1 \in 1..(B + 1)
    BY PathAssumption
<1>3. rewardTensor \in [Samples -> [Width -> Int]]
    BY <1>1
<1>4. PathTypes
    BY <1>1, <1>2, <1>3 DEF PathTypes
<1>5. ScoringInv
    BY <1>1, ScoringInit
<1>6. AdvInv
    BY <1>1, <1>4, AdvBegins
<1>7. pc = "scan"
    BY <1>1 DEF Init
<1>8. \A n \in Samples : ~(n < rollout)
    BY <1>1 DEF Samples
<1> QED
    BY <1>1, <1>4, <1>5, <1>6, <1>7, <1>8 DEF PathInv

(* A row that was stored holds what it held when nothing but other rows     *)
(* changes.                                                                 *)
LEMMA RowsKept ==
    ASSUME batch' = batch, compute' = compute, NEW n, NEW row, rewardTensor'[n] = row,
           RowRead(n, row), RowIs(n, row)
    PROVE  RowHolds(n)'
<1>1. \A t : ScoreAt(n, t)' = ScoreAt(n, t)
    BY DEF ScoreAt, RewardAt, Turns
<1>2. RowRead(n, rewardTensor[n])'
    BY <1>1 DEF RowRead
<1>3. RowEarned(n)' <=> RowIs(n, rewardTensor[n])'
    BY DEF RowEarned, RowIs, Earned
<1>4. RowIs(n, rewardTensor[n])'
    BY <1>1 DEF RowIs, Ends, Turns, EndsGenerated
<1> QED
    BY <1>2, <1>3, <1>4 DEF RowHolds

LEMMA HeldRowsKept ==
    ASSUME batch' = batch, compute' = compute, NEW n, rewardTensor'[n] = rewardTensor[n], RowHolds(n)
    PROVE  RowHolds(n)'
<1>1. RowRead(n, rewardTensor[n]) /\ RowIs(n, rewardTensor[n])
    BY RowIsEarned DEF RowHolds
<1> QED
    BY <1>1, RowsKept

LEMMA AdvWaits == ASSUME Adv!Init, UNCHANGED <<index, advantage>> PROVE Adv!Init'
BY DEF Adv!Init, advantage

LEMMA AdvBeginsNext == ASSUME PathTypes', Adv!Init' PROVE AdvInv'
<1>1. (PathTypes /\ Adv!Init => AdvInv)'
    BY AdvBegins, PTL
<1> QED
    BY <1>1

LEMMA AdvKept == ASSUME AdvInv, UNCHANGED <<path, advantage>> PROVE AdvInv'
<1>1. CreditsKept
    BY KeptByAdvantage
<1>2. UNCHANGED <<todo, normalized, sample, pos, nextAdv, turnAdv, prevEnd, returns>>
    BY DEF advantage
<1>3. /\ \A n : Ends(n)' = Ends(n) /\ \A k : TurnCredit(n, k)' = TurnCredit(n, k)
      /\ \A n, t : CreditAt(n, t)' = CreditAt(n, t)
    BY <1>1 DEF CreditsKept
<1>4. NormInv'
    BY <1>1, <1>2, NormKept DEF AdvInv
<1>5. BackInv'
    BY <1>2, <1>3 DEF AdvInv, BackInv
<1>6. ForthInv'
    BY <1>2, <1>3 DEF AdvInv, ForthInv
<1> QED
    BY <1>4, <1>5, <1>6 DEF AdvInv

LEMMA ScoreTurnsInv == ASSUME PathInv, ScoreTurns PROVE PathInv'
<1>1. /\ rollout <= B /\ rewards # <<>> /\ UNCHANGED <<path, advantage>> /\ Next
    BY DEF ScoreTurns, Next
<1>2. UNCHANGED <<batch, index, compute, rollout, rewardTensor>>
    BY <1>1 DEF path
<1>3. UNCHANGED <<mask, rewards>>
    BY DEF ScoreTurns, ScanToken, ScanEnds, PlaceNothing, PlaceTerminal, PlaceTurn, input
<1>4. PathTypes'
    BY <1>2, <1>3 DEF PathInv, PathTypes
<1>5. ScoringInv'
    BY <1>1, ScoringNext DEF PathInv
<1>6. Adv!Init'
    BY <1>1, <1>2, AdvWaits DEF PathInv
<1>7. AdvInv'
    BY <1>4, <1>6, AdvBeginsNext
<1>8. \A n \in Samples : n < rollout' => RowHolds(n)'
    BY <1>2, HeldRowsKept DEF PathInv
<1> QED
    BY <1>1, <1>3, <1>4, <1>5, <1>6, <1>7, <1>8 DEF PathInv

LEMMA StoreInv ==
    ASSUME PathInv, rollout <= B, NEW row \in [Width -> Int],
           RowRead(rollout, row), RowIs(rollout, row), Store(row)
    PROVE  PathInv'
<1>1. /\ rewardTensor' = [rewardTensor EXCEPT ![rollout] = row] /\ rollout' = rollout + 1
      /\ UNCHANGED <<batch, index, compute, advantage>> /\ pc' = "scan"
    BY DEF Store
<1>2. PathTypes' /\ Init'
    BY StoreBegins DEF PathInv
<1>3. ScoringInv'
  <2>1. (Init => ScoringInv)'
      BY ScoringInit, PTL
  <2> QED
      BY <1>2, <2>1
<1>4. Adv!Init'
    BY <1>1, AdvWaits DEF PathInv
<1>5. AdvInv'
    BY <1>2, <1>4, AdvBeginsNext
<1>6. rollout \in Samples /\ rollout \in Int /\ DOMAIN rewardTensor = Samples
    BY PathAssumption DEF PathInv, PathTypes, Samples
<1>7. ASSUME NEW n \in Samples, n < rollout' PROVE RowHolds(n)'
  <2>1. CASE n = rollout
    <3>1. rewardTensor'[n] = row
        BY <1>1, <1>6, <2>1
    <3> QED
        BY <1>1, <2>1, <3>1, RowsKept
  <2>2. CASE n # rollout
    <3>1. rewardTensor'[n] = rewardTensor[n]
        BY <1>1, <1>6, <2>2
    <3>2. n < rollout
        BY <1>1, <1>6, <1>7, <2>2 DEF Samples
    <3>3. RowHolds(n)
        BY <3>2 DEF PathInv
    <3> QED
        BY <1>1, <3>1, <3>3, HeldRowsKept
  <2> QED
      BY <2>1, <2>2
<1> QED
    BY <1>1, <1>2, <1>3, <1>4, <1>5, <1>7 DEF PathInv

LEMMA PathStep == PathInv /\ [PathNext]_pathVars => PathInv'
<1> SUFFICES ASSUME PathInv, [PathNext]_pathVars PROVE PathInv'
    OBVIOUS
<1>1. CASE ScoreTurns
    BY <1>1, ScoreTurnsInv
<1>2. CASE StoreTurns
  <2>1. rollout <= B /\ pc = "done" /\ compute = "custom" /\ Store(TurnsRow)
      BY <1>2 DEF StoreTurns, TurnsRow
  <2>2. rewards # <<>> /\ rewards = batch[rollout].given /\ rollout \in Samples
      BY <2>1, RolloutSize DEF PathInv, PathTypes, Samples
  <2>3. TurnsRow \in [Width -> Int] /\ RowRead(rollout, TurnsRow)
      BY <2>1, <2>2, RowsAreInts, RowsAreRead DEF PathInv
  <2>4. RowIs(rollout, TurnsRow)
      BY <2>2, <2>3, ReadIsEarned DEF PathInv
  <2> QED
      BY <2>1, <2>3, <2>4, StoreInv
<1>2a. CASE StoreFirst
  <2> DEFINE row == OnLastToken(scores[1])
  <2>1. rollout <= B /\ pc = "done" /\ compute = "default" /\ scores # <<>> /\ Store(row)
      BY <1>2a DEF StoreFirst
  <2>2. rewards # <<>> /\ rewards = batch[rollout].given /\ rollout \in Samples
      BY <2>1, RolloutSize DEF PathInv, PathTypes, Samples
  <2>3. scores[1] \in Int /\ RowRead(rollout, row)
      BY <2>1, <2>2, RowsAreRead DEF PathInv
  <2>4. row \in [Width -> Int]
      BY <2>3, RowsAreInts DEF PathInv
  <2> HIDE DEF row
  <2>5. RowIs(rollout, row)
      BY <2>2, <2>3, ReadIsEarned DEF PathInv
  <2> QED
      BY <2>1, <2>3, <2>4, <2>5, StoreInv
<1>3. CASE StoreOutcome
  <2>1. rollout <= B /\ rewards = <<>>
      BY <1>3 DEF StoreOutcome
  <2>2. PICK r \in RewardValues : Store(OnLastToken(r))
      BY <1>3 DEF StoreOutcome
  <2>3. r \in Int
      BY ConstantsAssumption
  <2>4. OnLastToken(r) \in [Width -> Int] /\ RowRead(rollout, OnLastToken(r)) /\ RowIs(rollout, OnLastToken(r))
      BY <2>1, <2>3, RowsAreInts, OutcomeIsEarned DEF PathInv
  <2> QED
      BY <2>1, <2>2, <2>4, StoreInv
<1>4. ASSUME UNCHANGED <<scoring, path>> PROVE PathTypes' /\ ScoringInv' /\ (rewards' = <<>> => pc' = "scan")
                                                /\ \A n \in Samples : n < rollout' => RowHolds(n)'
  <2>1. UNCHANGED <<batch, index, compute, rollout, rewardTensor>> /\ UNCHANGED vars
      BY <1>4 DEF scoring, path, vars
  <2>2. PathTypes' /\ (rewards' = <<>> => pc' = "scan")
      BY <2>1 DEF PathInv, PathTypes, vars
  <2>3. ScoringInv'
      BY <2>1, ScoringNext DEF PathInv
  <2>4. \A n \in Samples : n < rollout' => RowHolds(n)'
      BY <2>1, HeldRowsKept DEF PathInv
  <2> QED
      BY <2>2, <2>3, <2>4
<1>5. CASE ComputeAdvantage
  <2>1. rollout > B /\ UNCHANGED <<scoring, path>> /\ UNCHANGED path /\ Adv!Next
      BY <1>5 DEF ComputeAdvantage
  <2>2. RowsEarned
    <3>1. \A n \in Samples : n < rollout
        BY <2>1, RolloutSize DEF PathInv, Samples
    <3> QED
        BY <3>1 DEF PathInv, RowsEarned, RowHolds
  <2>3. AdvInv'
      BY <2>1, <2>2, AdvNext DEF PathInv
  <2>4. ~(rollout' <= B)
      BY <2>1, RolloutSize DEF PathInv, path
  <2> QED
      BY <1>4, <2>1, <2>3, <2>4 DEF PathInv
<1>6. CASE UNCHANGED pathVars
  <2>1. UNCHANGED <<scoring, path>> /\ UNCHANGED <<path, advantage>> /\ UNCHANGED <<index, advantage>> /\ rollout' = rollout
      BY <1>6 DEF pathVars, path
  <2>2. AdvInv'
      BY <2>1, AdvKept DEF PathInv
  <2>3. rollout' <= B => Adv!Init'
      BY <2>1, AdvWaits DEF PathInv
  <2> QED
      BY <1>4, <2>1, <2>2, <2>3 DEF PathInv
<1> QED
    BY <1>1, <1>2, <1>2a, <1>3, <1>5, <1>6 DEF PathNext, PathEnds

(* In a batch of any size, whatever its masks and process rewards, a row    *)
(* that was scored holds its own rollout's process rewards, as the score    *)
(* function leaves them, and nothing else.                                  *)
THEOREM RewardsAreReadBack == PathSpec => []RewardsReadBack
<1>1. PathInv => RewardsReadBack
    BY DEF PathInv, RowHolds, RowRead, RewardsReadBack
<1> QED
    BY <1>1, PathBegins, PathStep, PTL DEF PathSpec

(* In a batch of any size the normalised rewards of a query cancel out.     *)
THEOREM GroupsAlwaysCentred == PathSpec => []GroupsAreCentred
<1>1. PathInv => GroupsAreCentred
    BY CentredGroups DEF PathInv, AdvInv
<1> QED
    BY <1>1, PathBegins, PathStep, PTL DEF PathSpec

(* In a batch of any size, whatever its masks, queries and rewards, a token *)
(* is credited with what its own and the later turns of its own rollout     *)
(* have earned.                                                             *)
LEMMA EarnedCredit == PathInv => CreditIsEarned
<1> SUFFICES ASSUME PathInv, Computed, NEW n \in Samples, NEW t \in Width
             PROVE  returns[n][t] =
                        IF ResponseMask[n][t] = 0 THEN 0
                        ELSE TurnCredit(n, Cardinality({e \in TurnEnds(batch[n].mask) : e < t}) + 1)
    BY DEF CreditIsEarned
<1>1. n < sample
  <2>1. sample > B /\ sample \in 1..(B + 1)
      BY DEF Computed, Adv!Done, PathInv, AdvInv, BackInv
  <2> QED
      BY <2>1, PathAssumption DEF Samples
<1>2. returns[n][t] = CreditAt(n, t)
    BY <1>1 DEF PathInv, AdvInv, ForthInv
<1> QED
    BY <1>2 DEF CreditAt, Before, Ends

THEOREM CreditAlwaysEarned == PathSpec => []CreditIsEarned
BY EarnedCredit, PathBegins, PathStep, PTL DEF PathSpec
==============================================================================
