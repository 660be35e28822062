--------------------------- MODULE BatchPathProofs ---------------------------
(***************************************************************************)
(* For any workloads and any number of sets: a merge of karmarkar_karp     *)
(* never makes the worst spread worse, and the assertions on its result    *)
(* never fail.  For any batch and any numbers of workers and ranks: the    *)
(* calls of the batch path are such calls, and every row gets back the     *)
(* result computed from it.                                                *)
(*                                                                         *)
(* The sets of a state are in decreasing order, so that combining the      *)
(* largest of one state with the smallest of the other leaves, between any *)
(* two of the combined sets, a difference that one of the two states       *)
(* already had.                                                            *)
(*                                                                         *)
(* What padding, sorting, chunking and flattening do to a batch is said in *)
(* one term: a sequence Lists a set.                                       *)
(***************************************************************************)
EXTENDS BatchPath, FiniteSetTheorems, SequenceTheorems, NaturalsInduction,
        WellFoundedInduction, TLAPS

SetType(c) == [sum : Nat, items : SUBSET Items(c), first : Nat]

Decreasing(c, s) == \A m, n \in Positions(c) : m <= n => s[m].sum >= s[n].sum

StatesInv ==
    /\ Admissible(call)
    /\ \A s \in states : s \in [Positions(call) -> SetType(call)] /\ Decreasing(call, s)

-----------------------------------------------------------------------------
LEMMA CallFacts ==
    ASSUME NEW c, Admissible(c)
    PROVE  /\ c.k \in Nat \ {0} /\ c.work \in Seq(Nat) /\ Len(c.work) \in Nat
           /\ Items(c) = 1..Len(c.work) /\ \A n \in Items(c) : c.work[n] \in Nat
           /\ Positions(c) = 1..c.k /\ 1 \in Positions(c) /\ c.k \in Positions(c)
BY DEF Admissible, Items, Positions

LEMMA MergedType ==
    ASSUME NEW c, Admissible(c), NEW a \in SetType(c), NEW b \in SetType(c)
    PROVE  Merged(a, b) \in SetType(c) /\ Merged(a, b).sum = a.sum + b.sum
BY DEF Merged, SetType

(* Between any two of the combined sets there is no more than one of the    *)
(* spreads.                                                                 *)
LEMMA CombinedSpread ==
    ASSUME NEW c, Admissible(c),
           NEW s \in [Positions(c) -> SetType(c)], Decreasing(c, s),
           NEW t \in [Positions(c) -> SetType(c)], Decreasing(c, t),
           NEW a \in Positions(c), NEW b \in Positions(c)
    PROVE  \/ Combined(c, s, t)[a].sum - Combined(c, s, t)[b].sum <= Spread(c, s)
           \/ Combined(c, s, t)[a].sum - Combined(c, s, t)[b].sum <= Spread(c, t)
<1> DEFINE u == c.k + 1 - a
           v == c.k + 1 - b
<1>1. c.k \in Nat \ {0} /\ a \in 1..c.k /\ b \in 1..c.k
    BY CallFacts
<1>2. u \in Positions(c) /\ v \in Positions(c) /\ 1 \in Positions(c) /\ c.k \in Positions(c)
    BY <1>1, CallFacts
<1>3. \A n \in Positions(c) : s[n].sum \in Nat /\ t[n].sum \in Nat
    BY DEF SetType
<1>4. /\ Combined(c, s, t)[a].sum = s[a].sum + t[u].sum
      /\ Combined(c, s, t)[b].sum = s[b].sum + t[v].sum
    BY <1>2, MergedType DEF Combined
<1>5. CASE a <= b
  <2>1. v <= u
      BY <1>1, <1>5
  <2>2. t[v].sum >= t[u].sum
      BY <1>2, <2>1 DEF Decreasing
  <2>3. s[1].sum >= s[a].sum /\ s[b].sum >= s[c.k].sum
      BY <1>1, <1>2 DEF Decreasing
  <2> QED
      BY <1>2, <1>3, <1>4, <2>2, <2>3 DEF Spread
<1>6. CASE b <= a
  <2>1. u <= v
      BY <1>1, <1>6
  <2>2. s[b].sum >= s[a].sum
      BY <1>6 DEF Decreasing
  <2>3. t[1].sum >= t[u].sum /\ t[v].sum >= t[c.k].sum
      BY <1>1, <1>2 DEF Decreasing
  <2> QED
      BY <1>2, <1>3, <1>4, <2>2, <2>3 DEF Spread
<1> QED
    BY <1>1, <1>5, <1>6

(* A sorted rearrangement has its sets in decreasing order, and they are    *)
(* those it was made from.                                                  *)
LEMMA SortingFacts ==
    ASSUME NEW c, Admissible(c), NEW f \in [Positions(c) -> SetType(c)], NEW m \in Sortings(c, f)
    PROVE  /\ m \in [Positions(c) -> SetType(c)] /\ Decreasing(c, m)
           /\ \A n \in Positions(c) : \E l \in Positions(c) : m[n] = f[l]
<1>1. PICK p \in Bijection(Positions(c), Positions(c)) : m = [n \in Positions(c) |-> f[p[n]]]
    BY DEF Sortings
<1>2. p \in [Positions(c) -> Positions(c)]
    BY <1>1 DEF Bijection, Injection
<1>3. m \in [Positions(c) -> SetType(c)] /\ \A n \in Positions(c) : m[n] = f[p[n]]
    BY <1>1, <1>2
<1>4. ASSUME NEW i \in Positions(c), NEW j \in Positions(c), i <= j PROVE m[i].sum >= m[j].sum
  <2>1. m[i].sum \in Nat /\ m[j].sum \in Nat
      BY <1>3 DEF SetType
  <2>2. CASE i = j
      BY <2>1, <2>2
  <2>3. CASE i < j
    <3>1. ~Less(m[i], m[j])
        BY <2>3 DEF Sortings
    <3> QED
        BY <2>1, <3>1 DEF Less
  <2> QED
      BY <1>4, <2>2, <2>3, CallFacts
<1> QED
    BY <1>2, <1>3, <1>4 DEF Decreasing

-----------------------------------------------------------------------------
LEMMA IntervalFinite == \A n \in Nat : IsFiniteSet(1..n) /\ Cardinality(1..n) = n
<1> TAKE n \in Nat
<1>1. IsFiniteSet(1..n) /\ Cardinality(1..n) = IF 1 > n THEN 0 ELSE n - 1 + 1
    BY FS_Interval
<1> QED
    BY <1>1

LEMMA ItemsFinite ==
    ASSUME NEW c, Admissible(c)
    PROVE  IsFiniteSet(Items(c)) /\ Cardinality(Items(c)) = Len(c.work)
BY IntervalFinite, CallFacts

(* The places of the items in the sorted list are the numbers below their   *)
(* number, each taken once.                                                 *)
LEMMA RankFacts ==
    ASSUME NEW c, Admissible(c), NEW i \in Items(c)
    PROVE  /\ Rank(c, i) \in Nat /\ Rank(c, i) < Len(c.work)
           /\ \A j \in Items(c) : Before(c, i, j) => Rank(c, i) < Rank(c, j)
<1> DEFINE Ahead(j) == {l \in Items(c) : Before(c, l, j)}
<1>1. /\ IsFiniteSet(Items(c)) /\ Cardinality(Items(c)) = Len(c.work)
      /\ \A n \in Items(c) : c.work[n] \in Nat /\ n \in Nat
    BY CallFacts, ItemsFinite
<1>2. \A j \in Items(c) : IsFiniteSet(Ahead(j)) /\ Cardinality(Ahead(j)) \in Nat
    BY <1>1, FS_Subset, FS_CardinalityType
<1>3. i \notin Ahead(i)
    BY <1>1 DEF Before
<1>4. Cardinality(Ahead(i)) < Len(c.work)
  <2>1. Ahead(i) \in SUBSET Items(c) /\ Ahead(i) # Items(c)
      BY <1>3
  <2>2. /\ Cardinality(Ahead(i)) <= Cardinality(Items(c))
        /\ Cardinality(Ahead(i)) # Cardinality(Items(c))
      BY <1>1, <2>1, FS_Subset
  <2>3. \A m, n \in Nat : m <= n /\ m # n => m < n
      OBVIOUS
  <2> QED
      BY <1>1, <1>2, <2>2, <2>3, CallFacts
<1>5. ASSUME NEW j \in Items(c), Before(c, i, j) PROVE Cardinality(Ahead(i)) < Cardinality(Ahead(j))
  <2>1. Ahead(i) \in SUBSET Ahead(j)
      BY <1>1, <1>5 DEF Before
  <2>2. i \in Ahead(j)
      BY <1>5
  <2>3. /\ Cardinality(Ahead(i)) <= Cardinality(Ahead(j))
        /\ Cardinality(Ahead(i)) # Cardinality(Ahead(j))
      BY <1>2, <1>3, <2>1, <2>2, FS_Subset
  <2> QED
      BY <1>2, <2>3
<1> QED
    BY <1>2, <1>4, <1>5 DEF Rank

LEMMA NthFacts ==
    ASSUME NEW c, Admissible(c), NEW n \in Items(c)
    PROVE  Nth(c, n) \in Items(c) /\ Rank(c, Nth(c, n)) = n - 1
<1> DEFINE place == [i \in Items(c) |-> Rank(c, i) + 1]
<1>1. Items(c) = 1..Len(c.work) /\ Len(c.work) \in Nat /\ \A i \in Items(c) : c.work[i] \in Nat
    BY CallFacts
<1>2. IsFiniteSet(Items(c))
    BY ItemsFinite
<1>3. place \in [Items(c) -> Items(c)]
    BY <1>1, RankFacts
<1>4. ASSUME NEW i \in Items(c), NEW j \in Items(c), place[i] = place[j] PROVE i = j
  <2>1. Rank(c, i) = Rank(c, j) /\ Rank(c, i) \in Nat
      BY <1>4, RankFacts
  <2>2. ~Before(c, i, j) /\ ~Before(c, j, i)
      BY <2>1, RankFacts
  <2> QED
      BY <1>1, <2>2 DEF Before
<1>5. place \in Injection(Items(c), Items(c))
    BY <1>3, <1>4 DEF Injection, IsInjective
<1>6. place \in Surjection(Items(c), Items(c))
    BY <1>2, <1>5, FS_Injection
<1>7. PICK i \in Items(c) : place[i] = n
    BY <1>6 DEF Surjection
<1>8. Rank(c, i) = n - 1
    BY <1>1, <1>7, RankFacts
<1> QED
    BY <1>8 DEF Nth

LEMMA NthSorted ==
    ASSUME NEW c, Admissible(c), NEW m \in Items(c), NEW n \in Items(c), m <= n
    PROVE  c.work[Nth(c, m)] <= c.work[Nth(c, n)]
<1>1. Items(c) = 1..Len(c.work) /\ Len(c.work) \in Nat /\ \A i \in Items(c) : c.work[i] \in Nat
    BY CallFacts
<1>2. /\ Nth(c, m) \in Items(c) /\ Rank(c, Nth(c, m)) = m - 1
      /\ Nth(c, n) \in Items(c) /\ Rank(c, Nth(c, n)) = n - 1
    BY NthFacts
<1>3. ~Before(c, Nth(c, n), Nth(c, m))
    BY <1>1, <1>2, RankFacts
<1> QED
    BY <1>1, <1>2, <1>3 DEF Before

LEMMA DivisionFact ==
    ASSUME NEW n \in Nat, NEW k \in Nat \ {0}, NEW g \in 0..(n \div k - 1), NEW i \in 1..k
    PROVE  g * k + i \in 1..n
<1>1. n \div k \in Nat /\ k * (n \div k) <= n
    OBVIOUS
<1>2. PICK q \in Nat : q = n \div k
    BY <1>1
<1>3. k * (g + 1) <= k * q
    BY <1>2
<1>4. k * (g + 1) = g * k + k
    BY <1>2
<1> QED
    BY <1>1, <1>2, <1>3, <1>4

LEMMA GroupItems ==
    ASSUME NEW c, Admissible(c), NEW g \in Groups(c), NEW n \in Positions(c)
    PROVE  /\ c.k + 1 - n \in Positions(c) /\ g * c.k + (c.k + 1 - n) \in Items(c)
           /\ GroupOf(c, g)[c.k + 1 - n] = OneItem(c, Nth(c, g * c.k + (c.k + 1 - n)))
<1>1. /\ c.k \in Nat \ {0} /\ Items(c) = 1..Len(c.work) /\ Len(c.work) \in Nat
      /\ Positions(c) = 1..c.k
    BY CallFacts
<1>2. c.k + 1 - n \in 1..c.k
    BY <1>1
<1>3. g * c.k + (c.k + 1 - n) \in 1..Len(c.work)
    BY <1>1, <1>2, DivisionFact DEF Groups
<1> QED
    BY <1>1, <1>2, <1>3 DEF GroupOf

(* The states karmarkar_karp starts from.                                   *)
LEMMA InitialStatesInv ==
    ASSUME NEW c, Admissible(c), NEW s \in InitialStates(c)
    PROVE  s \in [Positions(c) -> SetType(c)] /\ Decreasing(c, s)
<1>1. /\ c.k \in Nat \ {0} /\ Items(c) = 1..Len(c.work) /\ Len(c.work) \in Nat
      /\ Positions(c) = 1..c.k /\ \A i \in Items(c) : c.work[i] \in Nat
    BY CallFacts
<1>2. \A i \in Items(c) : OneItem(c, i) \in SetType(c) /\ OneItem(c, i).sum = c.work[i]
    BY <1>1 DEF OneItem, SetType
<1>3. NoItem \in SetType(c) /\ NoItem.sum = 0
    BY DEF NoItem, SetType
<1>4. CASE c.equal
  <2>1. PICK g \in Groups(c) : s = [n \in Positions(c) |-> GroupOf(c, g)[c.k + 1 - n]]
      BY <1>4 DEF InitialStates
  <2> DEFINE item(n) == g * c.k + (c.k + 1 - n)
  <2>2. \A n \in Positions(c) : item(n) \in Items(c)
      BY GroupItems
  <2>3. \A n \in Positions(c) : s[n] = OneItem(c, Nth(c, item(n)))
      BY <2>1, GroupItems
  <2>4. \A n \in Positions(c) : Nth(c, item(n)) \in Items(c)
      BY <2>2, NthFacts
  <2>5. s \in [Positions(c) -> SetType(c)]
      BY <1>2, <2>1, <2>3, <2>4
  <2>6. ASSUME NEW m \in Positions(c), NEW n \in Positions(c), m <= n
        PROVE  s[m].sum >= s[n].sum
    <3>1. item(n) <= item(m)
      <4>1. \A a \in Int, i, j, k \in Nat : i <= j => a + (k + 1 - j) <= a + (k + 1 - i)
          OBVIOUS
      <4>2. g * c.k \in Int
          BY <1>1 DEF Groups
      <4> QED
          BY <1>1, <2>6, <4>1, <4>2
    <3>2. c.work[Nth(c, item(n))] <= c.work[Nth(c, item(m))]
        BY <2>2, <3>1, NthSorted
    <3>3. s[m].sum = c.work[Nth(c, item(m))] /\ s[n].sum = c.work[Nth(c, item(n))]
        BY <1>2, <2>3, <2>4
    <3> QED
        BY <1>1, <2>4, <3>2, <3>3
  <2> QED
      BY <2>5, <2>6 DEF Decreasing
<1>5. CASE ~c.equal
  <2>1. PICK i \in Items(c) : s = ItemAlone(c, i)
      BY <1>5 DEF InitialStates
  <2>2. s \in [Positions(c) -> SetType(c)]
      BY <1>2, <1>3, <2>1 DEF ItemAlone
  <2>3. ASSUME NEW m \in Positions(c), NEW n \in Positions(c), m <= n
        PROVE  s[m].sum >= s[n].sum
    <3>1. s[m] = IF m = 1 THEN OneItem(c, i) ELSE NoItem
        BY <2>1 DEF ItemAlone
    <3>2. s[n] = IF n = 1 THEN OneItem(c, i) ELSE NoItem
        BY <2>1 DEF ItemAlone
    <3> QED
        BY <1>1, <1>2, <1>3, <2>3, <3>1, <3>2
  <2> QED
      BY <2>2, <2>3 DEF Decreasing
<1> QED
    BY <1>4, <1>5

-----------------------------------------------------------------------------
(* A merged state is of the kind it was merged from, and its spread is no   *)
(* larger than that of one of the two.                                      *)
LEMMA MergedState ==
    ASSUME NEW c, Admissible(c),
           NEW s \in [Positions(c) -> SetType(c)], Decreasing(c, s),
           NEW t \in [Positions(c) -> SetType(c)], Decreasing(c, t),
           NEW m \in Sortings(c, Combined(c, s, t))
    PROVE  /\ m \in [Positions(c) -> SetType(c)] /\ Decreasing(c, m)
           /\ Spread(c, m) <= Spread(c, s) \/ Spread(c, m) <= Spread(c, t)
<1>1. /\ c.k \in Nat \ {0} /\ Positions(c) = 1..c.k
      /\ 1 \in Positions(c) /\ c.k \in Positions(c)
    BY CallFacts
<1>2. Combined(c, s, t) \in [Positions(c) -> SetType(c)]
  <2>1. \A n \in Positions(c) : c.k + 1 - n \in Positions(c)
      BY <1>1
  <2> QED
      BY <2>1, MergedType DEF Combined
<1>3. /\ m \in [Positions(c) -> SetType(c)] /\ Decreasing(c, m)
      /\ \A n \in Positions(c) : \E l \in Positions(c) : m[n] = Combined(c, s, t)[l]
    BY <1>2, SortingFacts
<1>4. PICK a \in Positions(c), b \in Positions(c) :
          m[1] = Combined(c, s, t)[a] /\ m[c.k] = Combined(c, s, t)[b]
    BY <1>1, <1>3
<1> QED
    BY <1>3, <1>4, CombinedSpread DEF Spread

LEMMA StatesStep == StatesInv /\ [Next]_vars => StatesInv'
<1> SUFFICES ASSUME StatesInv, [Next]_vars PROVE StatesInv'
    OBVIOUS
<1>1. CASE Merge
  <2>1. PICK s0 \in states, s1 \in states :
            \E m \in Sortings(call, Combined(call, s0, s1)) :
                states' = (states \ {s0, s1}) \cup {m}
      BY <1>1 DEF Merge, Replaced
  <2> PICK m \in Sortings(call, Combined(call, s0, s1)) :
          states' = (states \ {s0, s1}) \cup {m}
      BY <2>1
  <2>2. m \in [Positions(call) -> SetType(call)] /\ Decreasing(call, m)
      BY <2>1, MergedState DEF StatesInv
  <2> QED
      BY <1>1, <2>1, <2>2 DEF StatesInv, Merge
<1>2. CASE UNCHANGED vars
    BY <1>2 DEF StatesInv, vars
<1> QED
    BY <1>1, <1>2 DEF Next, Idle

LEMMA StepBalances ==
    StatesInv /\ [Next]_vars
    => [call' = call /\ Cardinality(states') < Cardinality(states) =>
            \A m \in states' : \E s \in states : Spread(call, m) <= Spread(call, s)]_vars
<1> SUFFICES ASSUME StatesInv, Next,
                    Cardinality(states') < Cardinality(states),
                    NEW m \in states'
             PROVE  \E s \in states : Spread(call, m) <= Spread(call, s)
    OBVIOUS
<1>1. CASE m \in states
  <2>1. Spread(call, m) \in Int
    <3>1. m[1].sum \in Nat /\ m[call.k].sum \in Nat
        BY <1>1, CallFacts DEF StatesInv, SetType
    <3> QED
        BY <3>1 DEF Spread
  <2> QED
      BY <1>1, <2>1
<1>2. CASE m \notin states
  <2>1. Merge
      BY <1>2 DEF Next, Idle, vars
  <2>2. PICK s0 \in states, s1 \in states : m \in Sortings(call, Combined(call, s0, s1))
      BY <1>2, <2>1 DEF Merge, Replaced
  <2>3. Spread(call, m) <= Spread(call, s0) \/ Spread(call, m) <= Spread(call, s1)
      BY <2>2, MergedState DEF StatesInv
  <2> QED
      BY <2>3
<1> QED
    BY <1>1, <1>2

(* karmarkar_karp: no merge leaves a state whose largest and smallest sets  *)
(* are further apart than those of the states there were, for any workloads *)
(* and any number of sets, with and without equal_size.                     *)
THEOREM MergingAlwaysBalances == Spec => MergingBalances
<1>1. Init => StatesInv
    BY InitialStatesInv, CallsAssumption DEF Init, StatesInv
<1> QED
    BY <1>1, StatesStep, StepBalances, PTL DEF Spec, MergingBalances

-----------------------------------------------------------------------------
(* The assertions behind the partitioning.  Every item stays in exactly one *)
(* set; a state with an empty set has at most one item in each of the       *)
(* others, so that no set is empty once all the items, at least as many as  *)
(* there are sets, are in one state; with equal_size the sets of a state    *)
(* have as many items as each other.                                        *)
Holds(c, ss, n, s, m) ==
    /\ n \in s[m].items
    /\ \A t \in ss, l \in Positions(c) : n \in t[l].items => t = s /\ l = m

Dealt(c, ss) == \A n \in Items(c) : \E s \in ss, m \in Positions(c) : Holds(c, ss, n, s, m)

EmptyLast(c, s) ==
    \A m, n \in Positions(c) : m <= n /\ s[m].items = {} => s[n].items = {}
OneEach(c, s) == \A n \in Positions(c) : \A i, j \in s[n].items : i = j
Filling(c, s) ==
    /\ \A n \in Positions(c) : s[n].items = {} => s[n].sum = 0
    /\ EmptyLast(c, s)
    /\ (\E n \in Positions(c) : s[n].items = {}) => OneEach(c, s)

Even(c, s) == \A m, n \in Positions(c) : Cardinality(s[m].items) = Cardinality(s[n].items)

ExactInv ==
    /\ StatesInv
    /\ IsFiniteSet(states)
    /\ Dealt(call, states)
    /\ \A s \in states : Filling(call, s) /\ (call.equal => Even(call, s))

LEMMA SubsetsFinite ==
    ASSUME NEW c, Admissible(c), NEW S \in SUBSET Items(c)
    PROVE  IsFiniteSet(S) /\ Cardinality(S) \in Nat /\ (Cardinality(S) = 0 <=> S = {})
BY ItemsFinite, FS_Subset, FS_CardinalityType, FS_EmptySet

LEMMA GroupUnique ==
    ASSUME NEW k \in Nat \ {0}, NEW g \in Nat, NEW h \in Nat, NEW i \in 1..k, NEW j \in 1..k,
           g * k + i = h * k + j
    PROVE  g = h /\ i = j
<1>1. \A a, b \in Nat : a < b => a * k + k <= b * k
  <2> SUFFICES ASSUME NEW a \in Nat, NEW b \in Nat, a < b PROVE a * k + k <= b * k
      OBVIOUS
  <2>1. PICK d \in Nat : b = a + 1 + d
      <3>1. b - a - 1 \in Nat /\ b = a + 1 + (b - a - 1)
          OBVIOUS
      <3> QED
          BY <3>1
  <2>2. b * k = a * k + k + d * k
      BY <2>1
  <2>3. d * k \in Nat /\ a * k \in Nat
      OBVIOUS
  <2> QED
      BY <2>2, <2>3
<1>2. g * k \in Nat /\ h * k \in Nat
    OBVIOUS
<1>3. ~(g < h)
  <2> SUFFICES ASSUME g < h PROVE FALSE
      OBVIOUS
  <2>1. g * k + k <= h * k
      BY <1>1
  <2> QED
      BY <1>2, <2>1
<1>4. ~(h < g)
  <2> SUFFICES ASSUME h < g PROVE FALSE
      OBVIOUS
  <2>1. h * k + k <= g * k
      BY <1>1
  <2> QED
      BY <1>2, <2>1
<1>5. g = h
    BY <1>3, <1>4
<1> QED
    BY <1>2, <1>5

(* Every place of the sorted list is a position of one group.               *)
LEMMA GroupExists ==
    ASSUME NEW n \in Nat, NEW k \in Nat \ {0}, n % k = 0, NEW x \in 1..n
    PROVE  \E g \in 0..(n \div k - 1), i \in 1..k : x = g * k + i
<1>1. /\ n \div k \in Nat /\ n = k * (n \div k)
      /\ (x - 1) \div k \in Nat /\ (x - 1) % k \in 0..(k - 1)
      /\ x - 1 = k * ((x - 1) \div k) + ((x - 1) % k)
    OBVIOUS
<1>2. PICK q \in Nat, g \in Nat, r \in 0..(k - 1) :
          n \div k = q /\ n = k * q /\ (x - 1) \div k = g /\ x - 1 = k * g + r
    BY <1>1
<1>3. g < q
  <2> SUFFICES ASSUME q <= g PROVE FALSE
      BY <1>2
  <2>1. PICK d \in Nat : g = q + d
    <3>1. g - q \in Nat /\ g = q + (g - q)
        BY <1>2
    <3> QED
        BY <3>1
  <2>2. k * g = k * q + k * d /\ k * d \in Nat /\ k * q \in Nat
      BY <2>1
  <2> QED
      BY <1>2, <2>2
<1>4. x = g * k + (r + 1) /\ r + 1 \in 1..k
  <2>1. k * g = g * k /\ k * g \in Nat
      OBVIOUS
  <2> QED
      BY <1>2, <2>1
<1>5. g \in 0..(n \div k - 1)
    BY <1>2, <1>3
<1> QED
    BY <1>4, <1>5

LEMMA NthOfRank ==
    ASSUME NEW c, Admissible(c), NEW i \in Items(c)
    PROVE  Rank(c, i) + 1 \in Items(c) /\ Nth(c, Rank(c, i) + 1) = i
<1>1. Items(c) = 1..Len(c.work) /\ Len(c.work) \in Nat /\ \A j \in Items(c) : c.work[j] \in Nat
    BY CallFacts
<1>2. Rank(c, i) \in Nat /\ Rank(c, i) < Len(c.work)
    BY RankFacts
<1>3. Rank(c, i) + 1 \in Items(c)
    BY <1>1, <1>2
<1> DEFINE j == Nth(c, Rank(c, i) + 1)
<1>4. j \in Items(c) /\ Rank(c, j) = Rank(c, i)
    BY <1>2, <1>3, NthFacts
<1>5. ~Before(c, i, j) /\ ~Before(c, j, i)
    BY <1>2, <1>4, RankFacts
<1> QED
    BY <1>1, <1>3, <1>4, <1>5 DEF Before

LEMMA GroupsDealt ==
    ASSUME NEW c, Admissible(c), c.equal
    PROVE  Dealt(c, InitialStates(c))
<1> DEFINE StateOf(g) == [n \in Positions(c) |-> GroupOf(c, g)[c.k + 1 - n]]
<1>1. /\ c.k \in Nat \ {0} /\ Items(c) = 1..Len(c.work) /\ Len(c.work) \in Nat
      /\ Positions(c) = 1..c.k /\ Len(c.work) % c.k = 0
    BY CallFacts DEF Admissible
<1>2. InitialStates(c) = {StateOf(g) : g \in Groups(c)}
    BY DEF InitialStates
<1>3. \A g \in Groups(c), n \in Positions(c) :
          StateOf(g)[n].items = {Nth(c, g * c.k + (c.k + 1 - n))}
  <2>1. \A i : OneItem(c, i).items = {i}
      BY DEF OneItem
  <2>2. \A g \in Groups(c), n \in Positions(c) :
            GroupOf(c, g)[c.k + 1 - n] = OneItem(c, Nth(c, g * c.k + (c.k + 1 - n)))
      BY GroupItems
  <2>3. \A g, n : n \in Positions(c) => StateOf(g)[n] = GroupOf(c, g)[c.k + 1 - n]
      OBVIOUS
  <2> HIDE DEF StateOf
  <2> QED
      BY <2>1, <2>2, <2>3
<1> SUFFICES ASSUME NEW x \in Items(c)
             PROVE  \E s \in InitialStates(c), m \in Positions(c) :
                        Holds(c, InitialStates(c), x, s, m)
    BY DEF Dealt
<1>4. Rank(c, x) + 1 \in 1..Len(c.work) /\ Nth(c, Rank(c, x) + 1) = x /\ Rank(c, x) \in Nat
    BY <1>1, NthOfRank, RankFacts
<1>5. PICK g \in Groups(c), i \in 1..c.k : Rank(c, x) + 1 = g * c.k + i
  <2>1. \E g \in 0..(Len(c.work) \div c.k - 1), i \in 1..c.k : Rank(c, x) + 1 = g * c.k + i
    <3>1. \A n \in Nat, k \in Nat \ {0} : n % k = 0 =>
              \A y \in 1..n : \E g \in 0..(n \div k - 1), i \in 1..k : y = g * k + i
        BY GroupExists
    <3>2. Len(c.work) \in Nat /\ c.k \in Nat \ {0} /\ Len(c.work) % c.k = 0
        BY <1>1
    <3>3. \A y \in 1..Len(c.work) :
              \E g \in 0..(Len(c.work) \div c.k - 1), i \in 1..c.k : y = g * c.k + i
        BY <3>1, <3>2, ZenonT(30)
    <3> QED
        BY <1>4, <3>3, Zenon
  <2> QED
      BY <2>1 DEF Groups
<1> DEFINE m == c.k + 1 - i
<1>6. m \in Positions(c) /\ c.k + 1 - m = i
    BY <1>1
<1>7. x \in StateOf(g)[m].items
    BY <1>3, <1>4, <1>5, <1>6
<1>8. ASSUME NEW h \in Groups(c), NEW l \in Positions(c), x \in StateOf(h)[l].items
      PROVE  h = g /\ l = m
  <2>1. PICK y \in Items(c) : y = h * c.k + (c.k + 1 - l)
      BY GroupItems
  <2>2. x = Nth(c, y)
      BY <1>3, <1>8, <2>1
  <2>3. Rank(c, x) + 1 = y
      BY <1>1, <1>4, <2>2, NthFacts
  <2>4. PICK j \in 1..c.k : j = c.k + 1 - l
      BY <1>1, GroupItems
  <2>5. g \in Nat /\ h \in Nat /\ g * c.k + i = h * c.k + j
      BY <1>5, <2>1, <2>3, <2>4 DEF Groups
  <2>6. h = g /\ j = i
      BY <1>1, <2>5, GroupUnique
  <2> QED
      BY <1>1, <2>4, <2>6
<1> HIDE DEF m, StateOf
<1>9. Holds(c, InitialStates(c), x, StateOf(g), m)
    BY <1>2, <1>7, <1>8 DEF Holds
<1> QED
    BY <1>2, <1>6, <1>9

LEMMA AloneDealt ==
    ASSUME NEW c, Admissible(c), ~c.equal
    PROVE  Dealt(c, InitialStates(c))
<1>1. 1 \in Positions(c)
    BY CallFacts
<1>2. InitialStates(c) = {ItemAlone(c, n) : n \in Items(c)}
    BY DEF InitialStates
<1>3. \A n \in Items(c), m \in Positions(c) :
          ItemAlone(c, n)[m].items = IF m = 1 THEN {n} ELSE {}
    BY DEF ItemAlone, OneItem, NoItem
<1>4. \A n \in Items(c) : Holds(c, InitialStates(c), n, ItemAlone(c, n), 1)
  <2> TAKE n \in Items(c)
  <2>1. n \in ItemAlone(c, n)[1].items
      BY <1>1, <1>3, ZenonT(40)
  <2>2. ASSUME NEW t \in InitialStates(c), NEW l \in Positions(c), n \in t[l].items
        PROVE  t = ItemAlone(c, n) /\ l = 1
    <3>1. PICK i \in Items(c) : t = ItemAlone(c, i)
        BY <1>2
    <3>2. l = 1 /\ n \in {i}
        BY <1>3, <2>2, <3>1
    <3> QED
        BY <3>1, <3>2
  <2> QED
      BY <2>1, <2>2 DEF Holds
<1> QED
    BY <1>1, <1>2, <1>4 DEF Dealt

LEMMA InitialStatesFinite ==
    ASSUME NEW c, Admissible(c)
    PROVE  IsFiniteSet(InitialStates(c))
<1>1. CASE c.equal
  <2> DEFINE f == [g \in Groups(c) |-> [n \in Positions(c) |-> GroupOf(c, g)[c.k + 1 - n]]]
  <2>1. f \in Surjection(Groups(c), InitialStates(c))
      BY <1>1 DEF Surjection, InitialStates
  <2>2. IsFiniteSet(Groups(c))
    <3>1. Len(c.work) \div c.k - 1 \in Int
        BY CallFacts
    <3> QED
        BY <3>1, FS_Interval DEF Groups
  <2> QED
      BY <2>1, <2>2, FS_Surjection
<1>2. CASE ~c.equal
  <2> DEFINE f == [n \in Items(c) |-> ItemAlone(c, n)]
  <2>1. f \in Surjection(Items(c), InitialStates(c))
      BY <1>2 DEF Surjection, InitialStates
  <2> QED
      BY <2>1, ItemsFinite, FS_Surjection
<1> QED
    BY <1>1, <1>2

LEMMA InitialFilling ==
    ASSUME NEW c, Admissible(c), NEW s \in InitialStates(c)
    PROVE  Filling(c, s) /\ (c.equal => Even(c, s))
<1>1. CASE c.equal
  <2>1. PICK g \in Groups(c) : s = [n \in Positions(c) |-> GroupOf(c, g)[c.k + 1 - n]]
      BY <1>1 DEF InitialStates
  <2>2. \A n \in Positions(c) : \E i : s[n].items = {i}
    <3>1. \A i : OneItem(c, i).items = {i}
        BY DEF OneItem
    <3>2. \A n \in Positions(c) : s[n] = OneItem(c, Nth(c, g * c.k + (c.k + 1 - n)))
        BY <2>1, GroupItems
    <3> QED
        BY <3>1, <3>2
  <2>3. \A n \in Positions(c) : Cardinality(s[n].items) = 1 /\ s[n].items # {}
      BY <2>2, FS_Singleton
  <2> QED
      BY <2>3 DEF Filling, EmptyLast, Even
<1>2. CASE ~c.equal
  <2>1. PICK i \in Items(c) : s = ItemAlone(c, i)
      BY <1>2 DEF InitialStates
  <2>2. \A n \in Positions(c) : s[n] = IF n = 1 THEN OneItem(c, i) ELSE NoItem
      BY <2>1 DEF ItemAlone
  <2>3. /\ OneItem(c, i).items = {i} /\ NoItem.items = {} /\ NoItem.sum = 0
      BY DEF OneItem, NoItem
  <2>4. \A n \in Positions(c) : s[n].items = {} <=> n # 1
      BY <2>2, <2>3
  <2>5. EmptyLast(c, s)
    <3>1. \A m, n \in Positions(c) : m <= n /\ m # 1 => n # 1
        BY CallFacts
    <3> QED
        BY <2>4, <3>1 DEF EmptyLast
  <2>6. OneEach(c, s)
      BY <2>2, <2>3 DEF OneEach
  <2>7. \A n \in Positions(c) : s[n].items = {} => s[n].sum = 0
      BY <2>2, <2>3, <2>4
  <2> QED
      BY <1>2, <2>5, <2>6, <2>7 DEF Filling
<1> QED
    BY <1>1, <1>2

-----------------------------------------------------------------------------
(* A merge: two states, of one dealt set of states, and a sorting of their  *)
(* combined sets.                                                           *)
LEMMA CombinedItems ==
    ASSUME NEW c, Admissible(c),
           NEW s \in [Positions(c) -> SetType(c)], NEW t \in [Positions(c) -> SetType(c)],
           NEW n \in Positions(c)
    PROVE  /\ c.k + 1 - n \in Positions(c)
           /\ Combined(c, s, t)[n] \in SetType(c)
           /\ Combined(c, s, t)[n].items = s[n].items \cup t[c.k + 1 - n].items
           /\ Combined(c, s, t)[n].sum = s[n].sum + t[c.k + 1 - n].sum
<1>1. c.k + 1 - n \in Positions(c)
    BY CallFacts
<1>2. Combined(c, s, t)[n] = Merged(s[n], t[c.k + 1 - n])
    BY DEF Combined
<1>3. s[n] \in SetType(c) /\ t[c.k + 1 - n] \in SetType(c)
    BY <1>1
<1>4. Merged(s[n], t[c.k + 1 - n]).items = s[n].items \cup t[c.k + 1 - n].items
    BY DEF Merged
<1> QED
    BY <1>1, <1>2, <1>3, <1>4, MergedType

LEMMA DealtApart ==
    ASSUME NEW c, Admissible(c), NEW ss, Dealt(c, ss), NEW s \in ss, NEW t \in ss,
           NEW m \in Positions(c), NEW n \in Positions(c),
           NEW x \in Items(c), x \in s[m].items, x \in t[n].items
    PROVE  s = t /\ m = n
BY DEF Dealt, Holds

LEMMA MergedDealt ==
    ASSUME NEW c, Admissible(c), NEW ss, Dealt(c, ss), NEW s \in ss, NEW t \in ss, s # t,
           s \in [Positions(c) -> SetType(c)], t \in [Positions(c) -> SetType(c)],
           NEW m \in Sortings(c, Combined(c, s, t))
    PROVE  Dealt(c, (ss \ {s, t}) \cup {m})
<1>1. PICK p \in Bijection(Positions(c), Positions(c)) :
          m = [n \in Positions(c) |-> Combined(c, s, t)[p[n]]]
    BY DEF Sortings
<1>2. /\ p \in [Positions(c) -> Positions(c)]
      /\ \A a, b \in Positions(c) : p[a] = p[b] => a = b
      /\ \A l \in Positions(c) : \E a \in Positions(c) : p[a] = l
    BY <1>1 DEF Bijection, Injection, Surjection, IsInjective
<1>3. \A a \in Positions(c) :
          /\ c.k + 1 - p[a] \in Positions(c)
          /\ m[a].items = s[p[a]].items \cup t[c.k + 1 - p[a]].items
  <2> TAKE a \in Positions(c)
  <2>1. p[a] \in Positions(c) /\ m[a] = Combined(c, s, t)[p[a]]
      BY <1>1, <1>2
  <2>2. /\ c.k + 1 - p[a] \in Positions(c)
        /\ Combined(c, s, t)[p[a]].items = s[p[a]].items \cup t[c.k + 1 - p[a]].items
      BY <2>1, CombinedItems
  <2> QED
      BY <2>1, <2>2
<1> DEFINE new == (ss \ {s, t}) \cup {m}
<1> SUFFICES ASSUME NEW x \in Items(c)
             PROVE  \E r \in new, a \in Positions(c) : Holds(c, new, x, r, a)
    BY DEF Dealt
<1>4. PICK u \in ss, l \in Positions(c) : Holds(c, ss, x, u, l)
    BY DEF Dealt
<1>5. x \in u[l].items /\ \A r \in ss, b \in Positions(c) : x \in r[b].items => r = u /\ b = l
    BY <1>4 DEF Holds
<1>6. CASE u = s
  <2>1. PICK a \in Positions(c) : p[a] = l
      BY <1>2
  <2>2. x \in m[a].items
      BY <1>3, <1>5, <1>6, <2>1
  <2>3. ASSUME NEW r \in new, NEW b \in Positions(c), x \in r[b].items PROVE r = m /\ b = a
    <3>1. r = m
        BY <1>5, <1>6, <2>3
    <3>2. x \in s[p[b]].items
        BY <1>3, <1>5, <1>6, <2>3, <3>1
    <3>3. p[b] = p[a]
        BY <1>2, <1>5, <2>1, <3>2
    <3> QED
        BY <1>2, <3>1, <3>3
  <2> QED
      BY <2>2, <2>3 DEF Holds
<1>7. CASE u = t
  <2>1. c.k + 1 - l \in Positions(c)
      BY CallFacts
  <2>2. PICK a \in Positions(c) : p[a] = c.k + 1 - l
      BY <1>2, <2>1
  <2>3. \A b \in Positions(c) : c.k + 1 - p[b] = l <=> p[b] = p[a]
    <3>1. \A k, i, j, n \in Int : j = k + 1 - n => (k + 1 - i = n <=> i = j)
        OBVIOUS
    <3>2. c.k \in Int /\ l \in Int /\ p[a] \in Int /\ \A b \in Positions(c) : p[b] \in Int
      <4>1. c.k \in Int /\ \A b \in Positions(c) : b \in Int
          BY CallFacts
      <4> QED
          BY <1>2, <4>1
    <3> QED
        BY <2>2, <3>1, <3>2
  <2>4. x \in m[a].items
      BY <1>3, <1>5, <1>7, <2>3
  <2>5. ASSUME NEW r \in new, NEW b \in Positions(c), x \in r[b].items PROVE r = m /\ b = a
    <3>1. r = m
        BY <1>5, <1>7, <2>5
    <3>2. x \in t[c.k + 1 - p[b]].items
      <4>1. p[b] \in Positions(c) /\ x \notin s[p[b]].items
          BY <1>2, <1>5, <1>7
      <4> QED
          BY <1>3, <2>5, <3>1, <4>1
    <3>3. c.k + 1 - p[b] = l
        BY <1>3, <1>5, <3>2
    <3> QED
        BY <1>2, <2>3, <3>1, <3>3
  <2> QED
      BY <2>4, <2>5 DEF Holds
<1>8. CASE u # s /\ u # t
  <2>1. ASSUME NEW b \in Positions(c) PROVE x \notin m[b].items
    <3>1. p[b] \in Positions(c) /\ c.k + 1 - p[b] \in Positions(c)
        BY <1>2, <1>3
    <3>2. x \notin s[p[b]].items /\ x \notin t[c.k + 1 - p[b]].items
        BY <1>5, <1>8, <3>1
    <3> QED
        BY <1>3, <3>2
  <2>2. ASSUME NEW r \in new, NEW b \in Positions(c), x \in r[b].items PROVE r = u /\ b = l
      BY <1>5, <2>1, <2>2
  <2> QED
      BY <1>5, <1>8, <2>2 DEF Holds
<1> QED
    BY <1>6, <1>7, <1>8

(* Sorting puts the empty sets last.                                        *)
LEMMA SortedFilling ==
    ASSUME NEW c, Admissible(c), NEW f \in [Positions(c) -> SetType(c)], NEW m \in Sortings(c, f),
           \A n \in Positions(c) : f[n].items = {} => f[n].sum = 0,
           (\E n \in Positions(c) : f[n].items = {}) => OneEach(c, f)
    PROVE  Filling(c, m)
<1>1. /\ m \in [Positions(c) -> SetType(c)]
      /\ \A n \in Positions(c) : \E l \in Positions(c) : m[n] = f[l]
    BY SortingFacts
<1>2. \A n \in Positions(c) : m[n].items = {} => m[n].sum = 0
    BY <1>1
<1>3. (\E n \in Positions(c) : m[n].items = {}) => OneEach(c, m)
    BY <1>1 DEF OneEach
<1>4. EmptyLast(c, m)
  <2> SUFFICES ASSUME NEW a \in Positions(c), NEW b \in Positions(c), a <= b,
                      m[a].items = {}, m[b].items # {}
               PROVE  FALSE
      BY DEF EmptyLast
  <2>1. a < b
      BY CallFacts
  <2>2. ~Less(m[a], m[b])
      BY <2>1 DEF Sortings
  <2>3. m[a].sum = 0 /\ m[b].sum \in Nat
      BY <1>1, <1>2 DEF SetType
  <2>4. m[a].items \in SUBSET Items(c) /\ m[b].items \in SUBSET Items(c)
      BY <1>1 DEF SetType
  <2>5. Cardinality(m[a].items) = 0 /\ Cardinality(m[b].items) \in Nat \ {0}
      BY <2>4, SubsetsFinite
  <2> QED
      BY <2>2, <2>3, <2>5 DEF Less
<1> QED
    BY <1>2, <1>3, <1>4 DEF Filling

(* When the combined sets leave one empty, both states have their empty     *)
(* sets where the other has its items.                                      *)
LEMMA MergedFilling ==
    ASSUME NEW c, Admissible(c),
           NEW s \in [Positions(c) -> SetType(c)], Filling(c, s),
           NEW t \in [Positions(c) -> SetType(c)], Filling(c, t),
           NEW m \in Sortings(c, Combined(c, s, t))
    PROVE  Filling(c, m)
<1> DEFINE f == Combined(c, s, t)
<1>1. f \in [Positions(c) -> SetType(c)]
  <2>1. \A n \in Positions(c) : f[n] \in SetType(c)
      BY CombinedItems
  <2> QED
      BY <2>1 DEF Combined
<1>2. \A n \in Positions(c) : c.k + 1 - n \in Positions(c)
    BY CallFacts
<1>3. \A n \in Positions(c) : f[n].items = s[n].items \cup t[c.k + 1 - n].items
    BY CombinedItems
<1>4. \A n \in Positions(c) : f[n].items = {} => f[n].sum = 0
  <2> SUFFICES ASSUME NEW n \in Positions(c), f[n].items = {} PROVE f[n].sum = 0
      OBVIOUS
  <2>1. s[n].sum = 0 /\ t[c.k + 1 - n].sum = 0
      BY <1>2, <1>3 DEF Filling
  <2> QED
      BY <2>1, CombinedItems
<1>5. ASSUME NEW n \in Positions(c), f[n].items = {} PROVE OneEach(c, f)
  <2>1. s[n].items = {} /\ t[c.k + 1 - n].items = {}
      BY <1>3, <1>5
  <2>2. OneEach(c, s) /\ OneEach(c, t)
      BY <1>2, <2>1 DEF Filling
  <2>3. ASSUME NEW q \in Positions(c) PROVE s[q].items = {} \/ t[c.k + 1 - q].items = {}
    <3>1. CASE n <= q
        BY <2>1, <3>1 DEF Filling, EmptyLast
    <3>2. CASE q <= n
      <4>1. c.k + 1 - n <= c.k + 1 - q
          BY <3>2, CallFacts
      <4> QED
          BY <1>2, <2>1, <4>1 DEF Filling, EmptyLast
    <3> QED
        BY <3>1, <3>2, CallFacts
  <2> QED
      BY <1>2, <1>3, <2>2, <2>3 DEF OneEach
<1> HIDE DEF f
<1> QED
    BY <1>1, <1>4, <1>5, SortedFilling DEF f

LEMMA MergedEven ==
    ASSUME NEW c, Admissible(c), NEW ss, Dealt(c, ss), NEW s \in ss, NEW t \in ss, s # t,
           s \in [Positions(c) -> SetType(c)], Even(c, s),
           t \in [Positions(c) -> SetType(c)], Even(c, t),
           NEW m \in Sortings(c, Combined(c, s, t))
    PROVE  Even(c, m)
<1> DEFINE f == Combined(c, s, t)
<1>1. \A n \in Positions(c) :
          /\ c.k + 1 - n \in Positions(c)
          /\ f[n].items = s[n].items \cup t[c.k + 1 - n].items
    BY CombinedItems
<1>2. \A n \in Positions(c) : s[n].items \in SUBSET Items(c) /\ t[n].items \in SUBSET Items(c)
    BY DEF SetType
<1>3. ASSUME NEW n \in Positions(c), NEW l \in Positions(c)
      PROVE  Cardinality(f[n].items) = Cardinality(s[l].items) + Cardinality(t[l].items)
  <2> DEFINE A == s[n].items
             B == t[c.k + 1 - n].items
  <2>1. A \in SUBSET Items(c) /\ B \in SUBSET Items(c)
      BY <1>1, <1>2
  <2>2. A \cap B = {}
      BY <1>1, <2>1, DealtApart
  <2>3. /\ IsFiniteSet(A) /\ IsFiniteSet(B)
        /\ Cardinality(A) \in Nat /\ Cardinality(B) \in Nat /\ Cardinality({}) = 0
      BY <2>1, SubsetsFinite, FS_EmptySet
  <2>4. Cardinality(A \cup B) = Cardinality(A) + Cardinality(B)
    <3>1. Cardinality(A \cup B) = Cardinality(A) + Cardinality(B) - Cardinality(A \cap B)
        BY <2>3, FS_Union
    <3>2. Cardinality(A \cap B) = 0
        BY <2>2, <2>3
    <3> HIDE DEF A, B
    <3> QED
        BY <2>3, <3>1, <3>2
  <2>5. Cardinality(A) = Cardinality(s[l].items) /\ Cardinality(B) = Cardinality(t[l].items)
      BY <1>1 DEF Even
  <2> QED
      BY <1>1, <2>4, <2>5
<1>4. \A n \in Positions(c) : \E l \in Positions(c) : m[n] = f[l]
  <2>1. f \in [Positions(c) -> SetType(c)]
    <3>1. \A n \in Positions(c) : f[n] \in SetType(c)
        BY CombinedItems
    <3> QED
        BY <3>1 DEF Combined
  <2> QED
      BY <2>1, SortingFacts
<1> HIDE DEF f
<1> QED
    BY <1>3, <1>4 DEF Even

-----------------------------------------------------------------------------
(* The last state.                                                          *)
LEMMA NoneEmpty ==
    ASSUME NEW c, Admissible(c), NEW s \in [Positions(c) -> SetType(c)],
           Dealt(c, {s}), Filling(c, s), NEW n \in Positions(c)
    PROVE  s[n].items # {}
<1> SUFFICES ASSUME s[n].items = {} PROVE FALSE
    OBVIOUS
<1>1. OneEach(c, s)
    BY DEF Filling
<1>2. \A x \in Items(c) : \E m \in Positions(c) : x \in s[m].items
    BY DEF Dealt, Holds
<1> DEFINE place == [x \in Items(c) |-> CHOOSE m \in Positions(c) : x \in s[m].items]
<1>3. \A x \in Items(c) : place[x] \in Positions(c) /\ x \in s[place[x]].items
    BY <1>2
<1> HIDE DEF place
<1>4. place \in [Items(c) -> Positions(c) \ {n}]
    BY <1>3 DEF place
<1>5. \A x, y \in Items(c) : place[x] = place[y] => x = y
    BY <1>1, <1>3 DEF OneEach
<1>6. place \in Injection(Items(c), Positions(c) \ {n})
    BY <1>4, <1>5 DEF Injection, IsInjective
<1>7. /\ c.k \in Nat \ {0} /\ Len(c.work) \in Nat /\ Positions(c) = 1..c.k
      /\ Len(c.work) >= c.k
    BY CallFacts DEF Admissible
<1>8. IsFiniteSet(Positions(c)) /\ Cardinality(Positions(c)) = c.k
    BY <1>7, IntervalFinite
<1>9. IsFiniteSet(Positions(c) \ {n}) /\ Cardinality(Positions(c) \ {n}) = c.k - 1
    BY <1>8, FS_RemoveElement
<1>10. Cardinality(Items(c)) <= Cardinality(Positions(c) \ {n})
    BY <1>6, <1>9, FS_Injection
<1> QED
    BY <1>7, <1>9, <1>10, ItemsFinite

LEMMA EqualSets ==
    ASSUME NEW c, Admissible(c), NEW s \in [Positions(c) -> SetType(c)],
           Dealt(c, {s}), Even(c, s), NEW n \in Positions(c)
    PROVE  Cardinality(s[n].items) * c.k = Len(c.work)
<1> DEFINE size == Cardinality(s[n].items)
           pick == [m \in Positions(c) |-> CHOOSE f : f \in Bijection(1..size, s[m].items)]
           grid == Positions(c) \X (1..size)
           item == [z \in grid |-> pick[z[1]][z[2]]]
<1>1. \A m \in Positions(c) : s[m].items \in SUBSET Items(c)
    BY DEF SetType
<1>2. \A m \in Positions(c) : IsFiniteSet(s[m].items) /\ Cardinality(s[m].items) = size
    BY <1>1, SubsetsFinite DEF Even
<1>3. size \in Nat
    BY <1>1, SubsetsFinite
<1> HIDE DEF size
<1>4. \A m \in Positions(c) : pick[m] \in Bijection(1..size, s[m].items)
  <2>1. \A m \in Positions(c) : ExistsBijection(1..size, s[m].items)
      BY <1>2, FS_CardinalityType
  <2> QED
      BY <2>1 DEF ExistsBijection
<1> HIDE DEF pick
<1>5. ASSUME NEW m \in Positions(c)
      PROVE  /\ \A i \in 1..size : pick[m][i] \in s[m].items
             /\ \A i, j \in 1..size : pick[m][i] = pick[m][j] => i = j
             /\ \A x \in s[m].items : \E i \in 1..size : pick[m][i] = x
    BY <1>4 DEF Bijection, Injection, Surjection, IsInjective
<1>6. \A z \in grid : z[1] \in Positions(c) /\ z[2] \in 1..size /\ z = <<z[1], z[2]>>
    OBVIOUS
<1>7. item \in [grid -> Items(c)]
    BY <1>1, <1>5, <1>6
<1>8. ASSUME NEW z \in grid, NEW w \in grid, item[z] = item[w] PROVE z = w
  <2>1. item[z] \in s[z[1]].items /\ item[z] \in s[w[1]].items /\ item[z] \in Items(c)
      BY <1>5, <1>6, <1>7, <1>8, ZenonT(40)
  <2>2. z[1] = w[1]
      BY <1>6, <2>1, DealtApart
  <2>3. z[2] = w[2]
      BY <1>5, <1>6, <1>8, <2>2
  <2> QED
      BY <1>6, <2>2, <2>3
<1>9. ASSUME NEW x \in Items(c) PROVE \E z \in grid : item[z] = x
  <2>1. PICK m \in Positions(c) : x \in s[m].items
      BY DEF Dealt, Holds
  <2>2. PICK i \in 1..size : pick[m][i] = x
      BY <1>5, <2>1
  <2>3. <<m, i>> \in grid /\ item[<<m, i>>] = x
      BY <2>2
  <2> QED
      BY <2>3
<1> HIDE DEF grid, item
<1>10. item \in Injection(grid, Items(c)) /\ item \in Surjection(grid, Items(c))
    BY <1>7, <1>8, <1>9 DEF Injection, Surjection, IsInjective
<1>11. Cardinality(grid) = Cardinality(Items(c))
    BY <1>10, ItemsFinite, FS_Injection
<1>12. Cardinality(grid) = c.k * size
  <2>1. c.k \in Nat \ {0} /\ Positions(c) = 1..c.k
      BY CallFacts
  <2>2. Cardinality(Positions(c) \X (1..size)) = Cardinality(Positions(c)) * Cardinality(1..size)
      BY <1>3, <2>1, IntervalFinite, FS_Product
  <2> QED
      BY <1>3, <2>1, <2>2, IntervalFinite DEF grid
<1>13. \A a, b \in Nat : a * b = b * a
    OBVIOUS
<1> QED
    BY <1>3, <1>11, <1>12, <1>13, ItemsFinite, CallFacts DEF size

LEMMA InitialExact ==
    ASSUME NEW c, Admissible(c), NEW ss, ss = InitialStates(c)
    PROVE  /\ IsFiniteSet(ss) /\ Dealt(c, ss) /\ ss # {}
           /\ \A s \in ss : /\ s \in [Positions(c) -> SetType(c)] /\ Decreasing(c, s)
                            /\ Filling(c, s) /\ (c.equal => Even(c, s))
<1>1. Dealt(c, ss)
    BY GroupsDealt, AloneDealt
<1>2. 1 \in Items(c)
    BY CallFacts DEF Admissible
<1>3. ss # {}
    BY <1>1, <1>2 DEF Dealt
<1> QED
    BY <1>1, <1>3, InitialStatesFinite, InitialStatesInv, InitialFilling

LEMMA ExactStep == ExactInv /\ [Next]_vars => ExactInv'
<1> SUFFICES ASSUME ExactInv, [Next]_vars PROVE ExactInv'
    OBVIOUS
<1>1. StatesInv'
    BY StatesStep DEF ExactInv
<1>2. CASE Merge
  <2>1. PICK s0 \in states, s1 \in states :
            /\ s0 # s1
            /\ \E m \in Sortings(call, Combined(call, s0, s1)) :
                   states' = (states \ {s0, s1}) \cup {m}
      BY <1>2 DEF Merge, Replaced
  <2> PICK m \in Sortings(call, Combined(call, s0, s1)) :
          states' = (states \ {s0, s1}) \cup {m}
      BY <2>1
  <2>2. call' = call /\ Admissible(call)
      BY <1>2 DEF Merge, ExactInv, StatesInv
  <2>3. /\ s0 \in [Positions(call) -> SetType(call)]
        /\ s1 \in [Positions(call) -> SetType(call)]
      BY DEF ExactInv, StatesInv
  <2>4. IsFiniteSet(states')
    <3>1. IsFiniteSet(states \ {s0, s1})
        BY FS_Difference DEF ExactInv
    <3> QED
        BY <3>1, FS_AddElement
  <2>5. Dealt(call, states')
      BY <2>1, <2>2, <2>3, MergedDealt DEF ExactInv
  <2>6. Filling(call, m)
      BY <2>2, <2>3, MergedFilling DEF ExactInv
  <2>7. call.equal => Even(call, m)
      BY <2>1, <2>2, <2>3, MergedEven DEF ExactInv
  <2>8. \A s \in states' : Filling(call, s) /\ (call.equal => Even(call, s))
      BY <2>6, <2>7 DEF ExactInv
  <2> QED
      BY <1>1, <2>2, <2>4, <2>5, <2>8 DEF ExactInv
<1>3. CASE UNCHANGED vars
    BY <1>1, <1>3 DEF ExactInv, vars
<1> QED
    BY <1>2, <1>3 DEF Next, Idle

LEMMA ExactInvImplies == ExactInv => PartitionIsExact
<1> SUFFICES ASSUME ExactInv, states # {} PROVE PartitionIsExact
    BY DEF PartitionIsExact
<1> USE DEF ExactInv, StatesInv
<1>1. \A n \in Items(call) :
          \E s \in states, m \in Positions(call) :
              /\ n \in s[m].items
              /\ \A t \in states, l \in Positions(call) : n \in t[l].items => t = s /\ l = m
    BY DEF Dealt, Holds
<1>2. ASSUME Partitioned, NEW n \in Positions(call)
      PROVE  /\ Partition[n] # {}
             /\ call.equal => Cardinality(Partition[n]) * call.k = Len(call.work)
  <2>1. PICK s : states = {s}
      BY <1>2, FS_Singleton DEF Partitioned
  <2>2. Partition[n] = s[n].items
      BY <2>1 DEF Partition
  <2>3. Dealt(call, {s}) /\ Filling(call, s) /\ (call.equal => Even(call, s))
        /\ s \in [Positions(call) -> SetType(call)]
      BY <2>1
  <2> QED
      BY <2>2, <2>3, NoneEmpty, EqualSets
<1> QED
    BY <1>1, <1>2 DEF PartitionIsExact

(* karmarkar_karp and the assertions of get_seqlen_balanced_partitions: for *)
(* any workloads and any number of sets no larger than their number, every  *)
(* item ends up in exactly one set, no set is empty, and with equal_size    *)
(* all sets have the same number of items.                                  *)
THEOREM PartitionAlwaysExact == Spec => []PartitionIsExact
<1>1. Init => ExactInv
    BY CallsAssumption, InitialExact DEF Init, ExactInv, StatesInv
<1> QED
    BY <1>1, ExactStep, ExactInvImplies, PTL DEF Spec

-----------------------------------------------------------------------------
(* s lists the members of S, each once.                                     *)
Lists(s, S) ==
    /\ s \in Seq(S)
    /\ \A i, j \in 1..Len(s) : s[i] = s[j] => i = j
    /\ \A x \in S : \E i \in 1..Len(s) : s[i] = x

LEMMA ListSize ==
    ASSUME NEW S, NEW s, Lists(s, S)
    PROVE  Len(s) \in Nat /\ IsFiniteSet(S) /\ Cardinality(S) = Len(s)
           /\ s \in [1..Len(s) -> S]
<1>1. Len(s) \in Nat /\ s \in [1..Len(s) -> S]
    BY LenProperties DEF Lists
<1>2. s \in Injection(1..Len(s), S) /\ s \in Surjection(1..Len(s), S)
    BY <1>1 DEF Lists, Injection, Surjection, IsInjective
<1>3. IsFiniteSet(1..Len(s)) /\ Cardinality(1..Len(s)) = Len(s)
    BY <1>1, IntervalFinite
<1> QED
    BY <1>1, <1>2, <1>3, FS_Surjection

(* Taking the elements in another order, with nothing dropped, lists them.  *)
LEMMA Rearranged ==
    ASSUME NEW S, NEW s, Lists(s, S), NEW m \in Nat, Len(s) = m, NEW p \in Bijection(1..m, 1..m),
           NEW t \in Seq(S), Len(t) = m, \A n \in 1..m : t[n] = s[p[n]]
    PROVE  Lists(t, S)
<1>1. \A a, b \in 1..m : s[a] = s[b] => a = b
    BY DEF Lists
<1>2. \A a, b \in 1..m : p[a] = p[b] => a = b
    BY DEF Bijection, Injection, IsInjective
<1>3. \A a \in 1..m : p[a] \in 1..m
    BY DEF Bijection, Injection
<1>4. ASSUME NEW i \in 1..m, NEW j \in 1..m, t[i] = t[j] PROVE i = j
    BY <1>1, <1>2, <1>3, <1>4
<1>5. ASSUME NEW x \in S PROVE \E n \in 1..m : t[n] = x
  <2>1. PICK i \in 1..m : s[i] = x
      BY DEF Lists
  <2>2. PICK n \in 1..m : p[n] = i
      BY DEF Bijection, Surjection
  <2> QED
      BY <2>1, <2>2
<1> QED
    BY <1>4, <1>5 DEF Lists

LEMMA FunctionInto ==
    ASSUME NEW S, NEW D, NEW t, t = [n \in D |-> t[n]], \A n \in D : t[n] \in S
    PROVE  t \in [D -> S]
OBVIOUS

(* A total order on a finite set gives every number below its size to one   *)
(* member as the number of those ahead.                                     *)
Orders(R, S) ==
    /\ \A x \in S : <<x, x>> \notin R
    /\ \A x, y \in S : x = y \/ <<x, y>> \in R \/ <<y, x>> \in R
    /\ \A x, y, z \in S : <<x, y>> \in R /\ <<y, z>> \in R => <<x, z>> \in R
AheadIn(R, S, x) == {y \in S : <<y, x>> \in R}

LEMMA SortedLists ==
    ASSUME NEW S, IsFiniteSet(S), NEW R, Orders(R, S),
           NEW ahead, DOMAIN ahead = S, \A x \in S : ahead[x] = AheadIn(R, S, x)
    PROVE  Lists(Sorted(ahead), S)
<1> DEFINE Ahead(x) == AheadIn(R, S, x)
           size == Cardinality(S)
           t == Sorted(ahead)
           chosen(n) == CHOOSE x \in S : Cardinality(ahead[x]) = n - 1
<1>0. t = [n \in 1..size |-> chosen(n)]
    BY DEF Sorted
<1>1. size \in Nat /\ \A x \in S : IsFiniteSet(Ahead(x)) /\ Cardinality(Ahead(x)) \in Nat
    BY FS_Subset, FS_CardinalityType DEF AheadIn
<1>2. ASSUME NEW x \in S PROVE Cardinality(Ahead(x)) < size
  <2>1. Ahead(x) \in SUBSET S /\ Ahead(x) # S
      BY DEF Orders, AheadIn
  <2>2. Cardinality(Ahead(x)) <= size /\ Cardinality(Ahead(x)) # size
      BY <2>1, FS_Subset
  <2> QED
      BY <1>1, <2>2
<1>3. ASSUME NEW x \in S, NEW y \in S, <<x, y>> \in R
      PROVE  Cardinality(Ahead(x)) < Cardinality(Ahead(y))
  <2>1. Ahead(x) \in SUBSET Ahead(y) /\ x \in Ahead(y) /\ x \notin Ahead(x)
      BY <1>3 DEF Orders, AheadIn
  <2>2. /\ Cardinality(Ahead(x)) <= Cardinality(Ahead(y))
        /\ Cardinality(Ahead(x)) # Cardinality(Ahead(y))
      BY <1>1, <2>1, FS_Subset
  <2> QED
      BY <1>1, <2>2
<1> DEFINE place == [x \in S |-> Cardinality(Ahead(x)) + 1]
<1>4. place \in [S -> 1..size] /\ \A x \in S : place[x] = Cardinality(Ahead(x)) + 1
    BY <1>1, <1>2
<1>5. ASSUME NEW x \in S, NEW y \in S, place[x] = place[y] PROVE x = y
  <2>1. Cardinality(Ahead(x)) = Cardinality(Ahead(y))
      BY <1>1, <1>5
  <2>2. <<x, y>> \notin R /\ <<y, x>> \notin R
      BY <1>1, <1>3, <2>1
  <2> QED
      BY <2>2 DEF Orders
<1>6. place \in Injection(S, 1..size)
    BY <1>4, <1>5 DEF Injection, IsInjective
<1>7. IsFiniteSet(1..size) /\ Cardinality(1..size) = size
    BY <1>1, IntervalFinite
<1>8. place \in Surjection(S, 1..size)
    BY <1>6, <1>7, FS_Injection
<1>9. ASSUME NEW n \in 1..size PROVE t[n] \in S /\ place[t[n]] = n
  <2>1. PICK x \in S : place[x] = n
      BY <1>8 DEF Surjection
  <2>2. Cardinality(Ahead(x)) = n - 1
      BY <1>1, <1>4, <2>1
  <2>3. Cardinality(ahead[x]) = n - 1
      BY <2>2
  <2>4. chosen(n) \in S /\ Cardinality(ahead[chosen(n)]) = n - 1
      BY <2>3
  <2> HIDE DEF chosen
  <2>5. t[n] = chosen(n)
      BY <1>0
  <2>6. t[n] \in S /\ Cardinality(Ahead(t[n])) = n - 1
      BY <2>4, <2>5
  <2> QED
      BY <1>4, <2>6
<1>10. DOMAIN t = 1..size /\ t = [n \in 1..size |-> t[n]]
  <2> HIDE DEF chosen, t
  <2> QED
      BY <1>0
<1> HIDE DEF place, size, t
<1>11. t \in [1..size -> S]
    BY <1>9, <1>10, FunctionInto
<1>12. t \in Seq(S) /\ Len(t) = size
    BY <1>1, <1>11
<1>13. \A i, j \in 1..size : t[i] = t[j] => i = j
    BY <1>9
<1>14. ASSUME NEW x \in S PROVE \E n \in 1..size : t[n] = x
  <2>1. PICK n \in 1..size : n = place[x]
      BY <1>4
  <2>2. t[n] \in S /\ place[t[n]] = place[x]
      BY <1>9, <2>1
  <2>3. t[n] = x
      BY <1>5, <2>2
  <2> QED
      BY <2>3
<1> QED
    BY <1>12, <1>13, <1>14 DEF Lists, t

(* The small ones at both ends, or the large ones in the middle.            *)
LEMMA Halves ==
    ASSUME NEW m \in Nat
    PROVE  /\ m \div 2 \in Nat /\ (m + 1) \div 2 \in Nat
           /\ (m + 1) \div 2 + m \div 2 = m
           /\ \A n \in 1..((m + 1) \div 2) : 2 * n - 1 \in 1..m
           /\ \A n \in 1..(m \div 2) : 2 * n \in 1..m
           /\ \A n \in 1..m : \/ \E l \in 1..((m + 1) \div 2) : n = 2 * l - 1
                              \/ \E l \in 1..(m \div 2) : n = 2 * l
<1> DEFINE f == m \div 2
           u == (m + 1) \div 2
<1>1. PICK h \in Nat : (m = 2 * h /\ f = h /\ u = h) \/ (m = 2 * h + 1 /\ f = h /\ u = h + 1)
  <2>1. f \in Nat /\ ((m = 2 * f /\ u = f) \/ (m = 2 * f + 1 /\ u = f + 1))
      OBVIOUS
  <2> HIDE DEF f, u
  <2> QED
      BY <2>1
<1>2. ASSUME NEW n \in 1..m PROVE \E l \in Nat : n = 2 * l \/ n = 2 * l + 1
  <2>1. n \div 2 \in Nat /\ (n = 2 * (n \div 2) \/ n = 2 * (n \div 2) + 1)
      OBVIOUS
  <2> QED
      BY <2>1
<1> HIDE DEF f, u
<1>3. ASSUME NEW n \in 1..m PROVE (\E l \in 1..u : n = 2 * l - 1) \/ (\E l \in 1..f : n = 2 * l)
  <2>1. PICK l \in Nat : n = 2 * l \/ n = 2 * l + 1
      BY <1>2
  <2>2. CASE n = 2 * l
    <3>1. l \in 1..f
        BY <1>1, <2>2
    <3> QED
        BY <2>2, <3>1
  <2>3. CASE n = 2 * l + 1
    <3>1. l + 1 \in 1..u /\ n = 2 * (l + 1) - 1
        BY <1>1, <2>3
    <3> QED
        BY <3>1
  <2> QED
      BY <2>1, <2>2, <2>3
<1>4. /\ f \in Nat /\ u \in Nat /\ u + f = m
      /\ \A n \in 1..u : 2 * n - 1 \in 1..m
      /\ \A n \in 1..f : 2 * n \in 1..m
    BY <1>1
<1> QED
    BY <1>3, <1>4 DEF f, u

LEMMA HalvesOfList ==
    ASSUME NEW S, NEW s \in Seq(S)
    PROVE  /\ EveryOther(s) \in Seq(S) /\ Len(EveryOther(s)) = (Len(s) + 1) \div 2
           /\ \A n \in 1..((Len(s) + 1) \div 2) : EveryOther(s)[n] = s[2 * n - 1]
           /\ Others(s) \in Seq(S) /\ Len(Others(s)) = Len(s) \div 2
           /\ \A n \in 1..(Len(s) \div 2) : Others(s)[n] = s[2 * n]
<1> DEFINE m == Len(s)
           h == (m + 1) \div 2
           g == m \div 2
<1>1. m \in Nat /\ \A n \in 1..m : s[n] \in S
    BY ElementOfSeq, LenProperties
<1> HIDE DEF m
<1>2. /\ h \in Nat /\ g \in Nat
      /\ \A n \in 1..h : 2 * n - 1 \in 1..m
      /\ \A n \in 1..g : 2 * n \in 1..m
    BY <1>1, Halves
<1> HIDE DEF h, g
<1>3. [n \in 1..h |-> s[2 * n - 1]] \in [1..h -> S]
    BY <1>1, <1>2
<1>4. [n \in 1..g |-> s[2 * n]] \in [1..g -> S]
    BY <1>1, <1>2
<1>5. /\ EveryOther(s) = [n \in 1..h |-> s[2 * n - 1]]
      /\ Others(s) = [n \in 1..g |-> s[2 * n]]
    BY DEF EveryOther, Others, h, g, m
<1>6. \A k \in Nat : \A f \in [1..k -> S] : f \in Seq(S) /\ Len(f) = k
    OBVIOUS
<1> QED
    BY <1>2, <1>3, <1>4, <1>5, <1>6 DEF h, g, m

LEMMA ReverseOfList ==
    ASSUME NEW S, NEW s \in Seq(S)
    PROVE  /\ Reverse(s) \in Seq(S) /\ Len(Reverse(s)) = Len(s)
           /\ \A n \in 1..Len(s) : Reverse(s)[n] = s[Len(s) - n + 1]
<1>1. Len(s) \in Nat /\ \A n \in 1..Len(s) : s[n] \in S
    BY ElementOfSeq, LenProperties
<1> DEFINE m == Len(s)
<1>2. Reverse(s) = [n \in 1..m |-> s[(m - n) + 1]]
    BY DEF Reverse
<1> HIDE DEF m
<1>3. \A n \in 1..m : (m - n) + 1 \in 1..m /\ (m - n) + 1 = m - n + 1
    BY <1>1 DEF m
<1>4. [n \in 1..m |-> s[(m - n) + 1]] \in [1..m -> S]
    BY <1>1, <1>3 DEF m
<1>5. m \in Nat /\ \A f \in [1..m -> S] : f \in Seq(S) /\ Len(f) = m
    BY <1>1 DEF m
<1> QED
    BY <1>2, <1>3, <1>4, <1>5 DEF m

LEMMA Joined ==
    ASSUME NEW S, NEW a \in Seq(S), NEW b \in Seq(S)
    PROVE  /\ a \o b \in Seq(S) /\ Len(a \o b) = Len(a) + Len(b)
           /\ Len(a) \in Nat /\ Len(b) \in Nat
           /\ \A n \in 1..Len(a) : (a \o b)[n] = a[n]
           /\ \A n \in (Len(a) + 1)..(Len(a) + Len(b)) : (a \o b)[n] = b[n - Len(a)]
<1>1. Len(a) \in Nat /\ Len(b) \in Nat
    BY LenProperties
<1>2. a \o b \in Seq(S) /\ Len(a \o b) = Len(a) + Len(b)
    BY ConcatProperties
<1>3. \A n \in 1..(Len(a) + Len(b)) : (a \o b)[n] = IF n <= Len(a) THEN a[n] ELSE b[n - Len(a)]
    BY <1>1, <1>2, ConcatProperties
<1> QED
    BY <1>1, <1>2, <1>3

LEMMA OutsideLists ==
    ASSUME NEW S, NEW s, Lists(s, S)
    PROVE  Lists(EveryOther(s) \o Reverse(Others(s)), S)
<1> DEFINE m == Len(s)
           h == (m + 1) \div 2
           g == m \div 2
           p == [n \in 1..m |-> IF n <= h THEN 2 * n - 1 ELSE 2 * (m - n + 1)]
<1>1. s \in Seq(S) /\ m \in Nat
    BY LenProperties DEF Lists
<1>2. /\ EveryOther(s) \in Seq(S) /\ Len(EveryOther(s)) = h
      /\ \A n \in 1..h : EveryOther(s)[n] = s[2 * n - 1]
      /\ Others(s) \in Seq(S) /\ Len(Others(s)) = g
      /\ \A n \in 1..g : Others(s)[n] = s[2 * n]
    BY <1>1, HalvesOfList
<1>3. /\ h \in Nat /\ g \in Nat /\ h + g = m
      /\ \A n \in 1..h : 2 * n - 1 \in 1..m
      /\ \A n \in 1..g : 2 * n \in 1..m
      /\ \A n \in 1..m : (\E l \in 1..h : n = 2 * l - 1) \/ (\E l \in 1..g : n = 2 * l)
  <2> HIDE DEF m
  <2> QED
      BY <1>1, Halves
<1> HIDE DEF h, g
<1> DEFINE r == Reverse(Others(s))
<1>4. /\ r \in Seq(S) /\ Len(r) = g
      /\ \A n \in 1..g : r[n] = Others(s)[g - n + 1]
    BY <1>2, ReverseOfList
<1> HIDE DEF r
<1> DEFINE t == EveryOther(s) \o r
<1>5. /\ t \in Seq(S) /\ Len(t) = h + g
      /\ \A n \in 1..h : t[n] = EveryOther(s)[n]
      /\ \A n \in (h + 1)..(h + g) : t[n] = r[n - h]
  <2>1. /\ t \in Seq(S) /\ Len(t) = Len(EveryOther(s)) + Len(r)
        /\ \A n \in 1..Len(EveryOther(s)) : t[n] = EveryOther(s)[n]
        /\ \A n \in (Len(EveryOther(s)) + 1)..(Len(EveryOther(s)) + Len(r)) : t[n] = r[n - Len(EveryOther(s))]
    <3>1. EveryOther(s) \in Seq(S) /\ r \in Seq(S)
        BY <1>2, <1>4
    <3> QED
        BY <3>1, Joined
  <2> HIDE DEF t
  <2> QED
      BY <1>2, <1>4, <2>1
<1> HIDE DEF m, t
<1>6. p \in [1..m -> 1..m]
  <2>1. ASSUME NEW n \in 1..m PROVE p[n] \in 1..m
      BY <1>1, <1>3
  <2> QED
      BY <2>1
<1>7. ASSUME NEW n \in 1..m PROVE t[n] = s[p[n]]
  <2>1. CASE n <= h
      BY <1>2, <1>3, <1>5, <2>1
  <2>2. CASE n > h
    <3>1. n \in (h + 1)..(h + g) /\ n - h \in 1..g /\ g - (n - h) + 1 \in 1..g
        BY <1>1, <1>3, <2>2
    <3>2. t[n] = s[2 * (g - (n - h) + 1)]
        BY <1>2, <1>4, <1>5, <3>1
    <3>3. p[n] = 2 * (g - (n - h) + 1)
        BY <1>1, <1>3, <2>2
    <3> QED
        BY <3>2, <3>3
  <2> QED
      BY <1>1, <1>3, <2>1, <2>2
<1>8. \A i, j \in 1..m : p[i] = p[j] => i = j
    BY <1>1, <1>3
<1>9. ASSUME NEW i \in 1..m PROVE \E n \in 1..m : p[n] = i
  <2>1. CASE \E l \in 1..h : i = 2 * l - 1
      BY <1>1, <1>3, <2>1
  <2>2. CASE \E l \in 1..g : i = 2 * l
    <3>1. PICK l \in 1..g : i = 2 * l
        BY <2>2
    <3>2. m - l + 1 \in 1..m /\ m - l + 1 > h /\ p[m - l + 1] = 2 * l
        BY <1>1, <1>3
    <3> QED
        BY <3>1, <3>2
  <2> QED
      BY <1>3, <2>1, <2>2
<1>12. p \in Bijection(1..m, 1..m)
  <2> HIDE DEF p
  <2> QED
      BY <1>6, <1>8, <1>9 DEF Bijection, Injection, Surjection, IsInjective
<1> HIDE DEF p
<1>10. Len(t) = m /\ Len(s) = m
    BY <1>3, <1>5 DEF m
<1>11. Lists(t, S)
  <2>1. m \in Nat /\ t \in Seq(S) /\ \A n \in 1..m : t[n] = s[p[n]]
      BY <1>1, <1>5, <1>7
  <2> QED
      BY <1>10, <1>12, <2>1, Rearranged
<1> QED
    BY <1>11 DEF t, r

LEMMA OutermostLists ==
    ASSUME NEW S, NEW s, Lists(s, S)
    PROVE  Lists(SmallOutermost(s), S)
<1> DEFINE m == Len(s)
           h == (m + 1) \div 2
           g == m \div 2
           p == [n \in 1..m |-> IF n <= h THEN 2 * (h - n + 1) - 1 ELSE 2 * (n - h)]
<1>1. s \in Seq(S) /\ m \in Nat
    BY LenProperties DEF Lists
<1>2. /\ EveryOther(s) \in Seq(S) /\ Len(EveryOther(s)) = h
      /\ \A n \in 1..h : EveryOther(s)[n] = s[2 * n - 1]
      /\ Others(s) \in Seq(S) /\ Len(Others(s)) = g
      /\ \A n \in 1..g : Others(s)[n] = s[2 * n]
    BY <1>1, HalvesOfList
<1>3. /\ h \in Nat /\ g \in Nat /\ h + g = m
      /\ \A n \in 1..h : 2 * n - 1 \in 1..m
      /\ \A n \in 1..g : 2 * n \in 1..m
      /\ \A n \in 1..m : (\E l \in 1..h : n = 2 * l - 1) \/ (\E l \in 1..g : n = 2 * l)
  <2> HIDE DEF m
  <2> QED
      BY <1>1, Halves
<1> HIDE DEF h, g
<1> DEFINE r == Reverse(EveryOther(s))
<1>4. /\ r \in Seq(S) /\ Len(r) = h
      /\ \A n \in 1..h : r[n] = EveryOther(s)[h - n + 1]
    BY <1>2, ReverseOfList
<1> HIDE DEF r
<1> DEFINE t == r \o Others(s)
<1>5. /\ t \in Seq(S) /\ Len(t) = h + g
      /\ \A n \in 1..h : t[n] = r[n]
      /\ \A n \in (h + 1)..(h + g) : t[n] = Others(s)[n - h]
  <2>1. /\ t \in Seq(S) /\ Len(t) = Len(r) + Len(Others(s))
        /\ \A n \in 1..Len(r) : t[n] = r[n]
        /\ \A n \in (Len(r) + 1)..(Len(r) + Len(Others(s))) : t[n] = Others(s)[n - Len(r)]
    <3>1. r \in Seq(S) /\ Others(s) \in Seq(S)
        BY <1>2, <1>4
    <3> QED
        BY <3>1, Joined
  <2> HIDE DEF t
  <2> QED
      BY <1>2, <1>4, <2>1
<1> HIDE DEF m, t
<1>6. p \in [1..m -> 1..m]
  <2>1. ASSUME NEW n \in 1..m PROVE p[n] \in 1..m
    <3>1. n <= h => h - n + 1 \in 1..h
        BY <1>1, <1>3
    <3>2. n > h => n - h \in 1..g
        BY <1>1, <1>3
    <3>3. p[n] = IF n <= h THEN 2 * (h - n + 1) - 1 ELSE 2 * (n - h)
        OBVIOUS
    <3> HIDE DEF p
    <3> QED
        BY <1>1, <1>3, <3>1, <3>2, <3>3
  <2> QED
      BY <2>1
<1>7. ASSUME NEW n \in 1..m PROVE t[n] = s[p[n]]
  <2>1. CASE n <= h
    <3>1. n \in 1..h /\ h - n + 1 \in 1..h /\ p[n] = 2 * (h - n + 1) - 1
        BY <1>1, <1>3, <2>1
    <3>2. t[n] = s[2 * (h - n + 1) - 1]
        BY <1>2, <1>4, <1>5, <3>1
    <3> QED
        BY <3>1, <3>2
  <2>2. CASE n > h
    <3>1. n \in (h + 1)..(h + g) /\ n - h \in 1..g /\ p[n] = 2 * (n - h)
        BY <1>1, <1>3, <2>2
    <3>2. t[n] = s[2 * (n - h)]
        BY <1>2, <1>5, <3>1
    <3> QED
        BY <3>1, <3>2
  <2> QED
      BY <1>1, <1>3, <2>1, <2>2
<1>8. \A i, j \in 1..m : p[i] = p[j] => i = j
    BY <1>1, <1>3
<1>9. ASSUME NEW i \in 1..m PROVE \E n \in 1..m : p[n] = i
  <2>1. CASE \E l \in 1..h : i = 2 * l - 1
    <3>1. PICK l \in 1..h : i = 2 * l - 1
        BY <2>1
    <3>2. h - l + 1 \in 1..m /\ h - l + 1 <= h /\ p[h - l + 1] = 2 * l - 1
        BY <1>1, <1>3
    <3> QED
        BY <3>1, <3>2
  <2>2. CASE \E l \in 1..g : i = 2 * l
    <3>1. PICK l \in 1..g : i = 2 * l
        BY <2>2
    <3>2. h + l \in 1..m /\ h + l > h /\ p[h + l] = 2 * l
        BY <1>1, <1>3
    <3> QED
        BY <3>1, <3>2
  <2> QED
      BY <1>3, <2>1, <2>2
<1>12. p \in Bijection(1..m, 1..m)
  <2> HIDE DEF p
  <2> QED
      BY <1>6, <1>8, <1>9 DEF Bijection, Injection, Surjection, IsInjective
<1> HIDE DEF p
<1>10. Len(t) = m /\ Len(s) = m
    BY <1>3, <1>5 DEF m
<1>11. Lists(t, S)
  <2>1. m \in Nat /\ t \in Seq(S) /\ \A n \in 1..m : t[n] = s[p[n]]
      BY <1>1, <1>5, <1>7
  <2> QED
      BY <1>10, <1>12, <2>1, Rearranged
<1> QED
    BY <1>11 DEF t, r, SmallOutermost

-----------------------------------------------------------------------------
(* Induction over numbers, as the search for a least counterexample.        *)
LEMMA Least ==
    ASSUME NEW T \in SUBSET Nat, T # {}
    PROVE  \E m \in T : \A k \in T : m <= k
<1> DEFINE R == OpToRel(<, Nat)
<1>1. IsWellFoundedOn(R, Nat)
    BY NatLessThanWellFounded
<1>2. \A x, y \in Nat : <<x, y>> \in R <=> x < y
    BY DEF OpToRel
<1> HIDE DEF R
<1>3. PICK m \in T : \A y \in T : ~ (<<y, m>> \in R)
    BY <1>1, WFMin
<1>4. \A k \in T : ~ (k < m)
    BY <1>2, <1>3
<1>5. \A k \in T : m <= k
    BY <1>4
<1> QED
    BY <1>5

(* A property of 0..m that passes from a number to the next one.            *)
LEMMA Climbs ==
    ASSUME NEW m \in Nat, NEW good, 0 \in good, \A n \in 0..(m - 1) : n \in good => n + 1 \in good
    PROVE  \A n \in 0..m : n \in good
<1> DEFINE bad == {n \in 0..m : n \notin good}
<1>1. ASSUME bad # {} PROVE FALSE
  <2>1. bad \in SUBSET Nat
      OBVIOUS
  <2>2. PICK n \in bad : \A k \in bad : n <= k
      BY <1>1, <2>1, Least
  <2>3. n \in 0..m /\ n # 0 /\ n \notin good
      OBVIOUS
  <2>4. n - 1 \in 0..(m - 1) /\ n - 1 \notin bad
    <3> HIDE DEF bad
    <3> QED
        BY <2>2, <2>3
  <2>5. n - 1 \in good /\ (n - 1) + 1 = n
      BY <2>3, <2>4
  <2> QED
      BY <2>3, <2>4, <2>5
<1> QED
    BY <1>1

(* FlattenSeq, by what one more list adds to it.                            *)
Flattens(f, ss, n) == f = [i \in 1..n |-> IF i = 1 THEN ss[i] ELSE f[i - 1] \o ss[i]]

LEMMA FlattensExists == ASSUME NEW ss, NEW m \in Nat PROVE \E f : Flattens(f, ss, m)
<1> DEFINE good == {n \in Nat : \E f : Flattens(f, ss, n)}
<1>1. 0 \in good
  <2> DEFINE f == [i \in 1..0 |-> ss[i]]
  <2>1. Flattens(f, ss, 0)
      BY DEF Flattens
  <2> QED
      BY <2>1
<1>2. ASSUME NEW n \in 0..(m - 1), n \in good PROVE n + 1 \in good
  <2>1. PICK f : Flattens(f, ss, n)
      BY <1>2
  <2> DEFINE g == [i \in 1..(n + 1) |-> IF i = 1 THEN ss[i] ELSE f[i - 1] \o ss[i]]
  <2>2. \A i \in 1..n : f[i] = IF i = 1 THEN ss[i] ELSE f[i - 1] \o ss[i]
      BY <2>1 DEF Flattens
  <2>3. \A i \in 1..n : g[i] = IF i = 1 THEN ss[i] ELSE f[i - 1] \o ss[i]
      OBVIOUS
  <2>4. \A i \in 1..n : g[i] = f[i]
    <3> HIDE DEF g
    <3> QED
        BY <2>2, <2>3
  <2>5. \A i \in 1..(n + 1) : i # 1 => i - 1 \in 1..n
      OBVIOUS
  <2>6. \A i \in 1..(n + 1) : (IF i = 1 THEN ss[i] ELSE f[i - 1] \o ss[i])
                                = (IF i = 1 THEN ss[i] ELSE g[i - 1] \o ss[i])
    <3> HIDE DEF g
    <3> QED
        BY <2>4, <2>5
  <2>7. g = [i \in 1..(n + 1) |-> IF i = 1 THEN ss[i] ELSE g[i - 1] \o ss[i]]
    <3> DEFINE Old(i) == IF i = 1 THEN ss[i] ELSE f[i - 1] \o ss[i]
               New(i) == IF i = 1 THEN ss[i] ELSE g[i - 1] \o ss[i]
    <3>1. \A i \in 1..(n + 1) : Old(i) = New(i)
        BY <2>6
    <3>2. g = [i \in 1..(n + 1) |-> Old(i)]
        OBVIOUS
    <3> HIDE DEF Old, New, g
    <3>3. g = [i \in 1..(n + 1) |-> New(i)]
        BY <3>1, <3>2
    <3> QED
        BY <3>3 DEF New
  <2> HIDE DEF g
  <2>8. Flattens(g, ss, n + 1)
      BY <2>7 DEF Flattens
  <2>9. n + 1 \in Nat
      OBVIOUS
  <2> QED
      BY <2>8, <2>9
<1>3. m \in 0..m
    OBVIOUS
<1> HIDE DEF good
<1>4. m \in good
    BY <1>1, <1>2, <1>3, Climbs
<1> QED
    BY <1>4 DEF good

LEMMA FlattensType ==
    ASSUME NEW T, NEW ss \in Seq(Seq(T)), NEW f, Flattens(f, ss, Len(ss)), NEW n \in 1..Len(ss)
    PROVE  f[n] \in Seq(T)
<1> DEFINE good == {i \in Nat : i = 0 \/ f[i] \in Seq(T)}
<1>1. Len(ss) \in Nat /\ \A i \in 1..Len(ss) : ss[i] \in Seq(T)
    BY ElementOfSeq, LenProperties
<1>2. \A i \in 1..Len(ss) : f[i] = IF i = 1 THEN ss[i] ELSE f[i - 1] \o ss[i]
    BY DEF Flattens
<1>3. ASSUME NEW i \in 0..(Len(ss) - 1), i \in good PROVE i + 1 \in good
  <2>1. i + 1 \in 1..Len(ss) /\ (i + 1) - 1 = i
      BY <1>1
  <2>2. f[i + 1] = IF i + 1 = 1 THEN ss[i + 1] ELSE f[i] \o ss[i + 1]
      BY <1>2, <2>1
  <2>3. ss[i + 1] \in Seq(T)
      BY <1>1, <2>1
  <2>4. f[i + 1] \in Seq(T)
      BY <1>3, <2>1, <2>2, <2>3, ConcatProperties
  <2> QED
      BY <2>1, <2>4
<1>4. 0 \in good
    OBVIOUS
<1> HIDE DEF good
<1>5. \A i \in 0..Len(ss) : i \in good
    BY <1>1, <1>3, <1>4, Climbs
<1>6. n # 0 /\ n \in 0..Len(ss)
    BY <1>1
<1>7. n \in good
    BY <1>5, <1>6
<1> QED
    BY <1>6, <1>7 DEF good

Agree(s, t, m) == \A i \in 1..m : s[i] = t[i]

LEMMA FlattensSame ==
    ASSUME NEW m \in Nat, NEW ss, NEW tt, Agree(ss, tt, m),
           NEW f, Flattens(f, ss, m), NEW g, Flattens(g, tt, m + 1)
    PROVE  Agree(f, g, m)
<1> SUFFICES ASSUME NEW n \in 1..m PROVE f[n] = g[n]
    BY DEF Agree
<1> DEFINE k == m + 1
<1> DEFINE good == {i \in Nat : i = 0 \/ f[i] = g[i]}
<1>1. /\ \A i \in 1..m : f[i] = IF i = 1 THEN ss[i] ELSE f[i - 1] \o ss[i]
      /\ \A i \in 1..k : g[i] = IF i = 1 THEN tt[i] ELSE g[i - 1] \o tt[i]
    BY DEF Flattens
<1>2. ASSUME NEW i \in 0..(m - 1), i \in good PROVE i + 1 \in good
  <2>1. i + 1 \in 1..m /\ i + 1 \in 1..k /\ (i + 1) - 1 = i
      OBVIOUS
  <2>2. /\ f[i + 1] = IF i + 1 = 1 THEN ss[i + 1] ELSE f[i] \o ss[i + 1]
        /\ g[i + 1] = IF i + 1 = 1 THEN tt[i + 1] ELSE g[i] \o tt[i + 1]
        /\ ss[i + 1] = tt[i + 1]
      BY <1>1, <2>1 DEF Agree
  <2>3. f[i + 1] = g[i + 1]
      BY <1>2, <2>1, <2>2
  <2> QED
      BY <2>1, <2>3
<1>3. 0 \in good
    OBVIOUS
<1> HIDE DEF good
<1>4. n \in good
    BY <1>2, <1>3, Climbs
<1> QED
    BY <1>4 DEF good

LEMMA FlattenChosen ==
    ASSUME NEW T, NEW ss \in Seq(Seq(T)), Len(ss) # 0
    PROVE  \E f : Flattens(f, ss, Len(ss)) /\ FlattenSeq(ss) = f[Len(ss)]
<1> DEFINE Q(f) == f = [i \in 1..Len(ss) |-> IF i = 1 THEN ss[i] ELSE f[i - 1] \o ss[i]]
<1>1. \A f : Flattens(f, ss, Len(ss)) <=> Q(f)
    BY DEF Flattens
<1>2. Len(ss) \in Nat
    BY LenProperties
<1>3. Q(CHOOSE f : Q(f))
    BY <1>1, <1>2, FlattensExists
<1>4. FlattenSeq(ss) = (CHOOSE f : Q(f))[Len(ss)]
    BY DEF FlattenSeq
<1> HIDE DEF Q
<1> QED
    BY <1>1, <1>3, <1>4

LEMMA FlattenAppend ==
    ASSUME NEW T, NEW ss \in Seq(Seq(T)), NEW s \in Seq(T)
    PROVE  /\ FlattenSeq(ss) \in Seq(T)
           /\ FlattenSeq(Append(ss, s)) = FlattenSeq(ss) \o s
<1>1. /\ Append(ss, s) \in Seq(Seq(T)) /\ Len(Append(ss, s)) = Len(ss) + 1 /\ Len(ss) \in Nat
      /\ \A i \in 1..Len(ss) : Append(ss, s)[i] = ss[i]
      /\ Append(ss, s)[Len(ss) + 1] = s
    BY AppendProperties, LenProperties
<1> DEFINE m == Len(ss)
           tt == Append(ss, s)
<1> HIDE DEF m, tt
<1>0. tt \in Seq(Seq(T)) /\ Len(tt) = m + 1 /\ Len(tt) # 0
    BY <1>1 DEF m, tt
<1>2. PICK g : Flattens(g, tt, m + 1) /\ FlattenSeq(tt) = g[m + 1]
  <2>1. \E g : Flattens(g, tt, Len(tt)) /\ FlattenSeq(tt) = g[Len(tt)]
      BY <1>0, FlattenChosen
  <2> QED
      BY <1>0, <2>1
<1>3. m \in Nat /\ m + 1 \in 1..(m + 1) /\ (m + 1) - 1 = m
    BY <1>1 DEF m
<1>4. g[m + 1] = IF m + 1 = 1 THEN tt[m + 1] ELSE g[m] \o tt[m + 1]
    BY <1>2, <1>3 DEF Flattens
<1>5. tt[m + 1] = s
    BY <1>1 DEF m, tt
<1>6. CASE m = 0
  <2>1. ss = <<>> /\ FlattenSeq(ss) = <<>>
      BY <1>6, EmptySeq DEF FlattenSeq, m
  <2>2. <<>> \o s = s /\ <<>> \in Seq(T)
      BY ConcatEmptySeq, EmptySeq
  <2>3. FlattenSeq(tt) = s
      BY <1>2, <1>3, <1>4, <1>5, <1>6
  <2>4. FlattenSeq(Append(ss, s)) = s
      BY <2>3 DEF tt
  <2>5. FlattenSeq(ss) \o s = s
      BY <2>1, <2>2
  <2>6. FlattenSeq(ss) \in Seq(T)
      BY <2>1, <2>2
  <2> QED
      BY <2>4, <2>5, <2>6
<1>7. CASE m # 0
  <2>1. PICK f : Flattens(f, ss, m) /\ FlattenSeq(ss) = f[m]
      BY <1>7, FlattenChosen DEF m
  <2>2. m \in 1..m /\ Agree(ss, tt, m)
      BY <1>1, <1>7 DEF m, tt, Agree
  <2>3. f[m] = g[m]
    <3>1. Agree(f, g, m)
        BY <1>2, <1>3, <2>1, <2>2, FlattensSame
    <3> QED
        BY <2>2, <3>1 DEF Agree
  <2>4. f[m] \in Seq(T)
      BY <2>1, <2>2, FlattensType DEF m
  <2> QED
      BY <1>2, <1>3, <1>4, <1>5, <1>7, <2>1, <2>3, <2>4 DEF tt
<1> QED
    BY <1>6, <1>7

-----------------------------------------------------------------------------
(* Sums over finite sets.  A smallest subset among some: without any        *)
(* element of it, it is not one of them.                                    *)
LEMMA Smallest ==
    ASSUME NEW S, IsFiniteSet(S), NEW Bad \in SUBSET (SUBSET S), Bad # {}
    PROVE  \E T \in Bad : IsFiniteSet(T) /\ \A x \in T : T \ {x} \notin Bad
<1>1. \A T \in Bad : IsFiniteSet(T) /\ Cardinality(T) \in Nat
    BY FS_Subset, FS_CardinalityType
<1> DEFINE sizes == {Cardinality(T) : T \in Bad}
<1>2. PICK m \in sizes : \A k \in sizes : m <= k
  <2>1. sizes \in SUBSET Nat /\ sizes # {}
      BY <1>1
  <2> HIDE DEF sizes
  <2> QED
      BY <2>1, Least
<1>3. PICK T \in Bad : Cardinality(T) = m
    OBVIOUS
<1>4. ASSUME NEW x \in T, T \ {x} \in Bad PROVE FALSE
  <2>1. Cardinality(T \ {x}) = Cardinality(T) - 1
      BY <1>1, FS_RemoveElement
  <2>2. m <= Cardinality(T \ {x})
      BY <1>2, <1>4
  <2> QED
      BY <1>1, <1>3, <2>1, <2>2
<1> QED
    BY <1>1, <1>4

(* The sums of F over the subsets of S.                                     *)
Picked(T) == CHOOSE y \in T : TRUE
SetSums(g, F, S) == g = [T \in SUBSET S |-> IF T = {} THEN 0 ELSE F[Picked(T)] + g[T \ {Picked(T)}]]
SumOf(F, S) == (CHOOSE g : SetSums(g, F, S))[S]

LEMMA PickedIsMember == ASSUME NEW T, T # {} PROVE Picked(T) \in T
BY DEF Picked

LEMMA SetSumsExist == ASSUME NEW S, IsFiniteSet(S), NEW F PROVE \E g : SetSums(g, F, S)
<1> DEFINE Sub(n) == {T \in SUBSET S : Cardinality(T) <= n}
           Step(g, T) == IF T = {} THEN 0 ELSE F[Picked(T)] + g[T \ {Picked(T)}]
           Upto(g, n) == g = [T \in Sub(n) |-> Step(g, T)]
           Bad == {n \in Nat : ~ \E g : Upto(g, n)}
<1>1. \A T \in SUBSET S : IsFiniteSet(T) /\ Cardinality(T) \in Nat
    BY FS_Subset, FS_CardinalityType
<1>2. ASSUME Bad # {} PROVE FALSE
  <2>1. PICK m \in Bad : \A k \in Bad : m <= k
      BY <1>2, Least
  <2>2. CASE m = 0
    <3> DEFINE g == [T \in Sub(0) |-> 0]
    <3>1. \A T \in Sub(0) : T = {}
        BY <1>1, FS_EmptySet
    <3>2. Upto(g, 0)
        BY <3>1
    <3> QED
        BY <2>2, <3>2
  <2>3. CASE m # 0
    <3>0. m \in Nat
        OBVIOUS
    <3>1. m - 1 \in Nat /\ m - 1 \notin Bad
      <4> HIDE DEF Bad
      <4> QED
          BY <2>1, <2>3, <3>0
    <3>2. PICK h : Upto(h, m - 1)
        BY <3>1
    <3> DEFINE g == [T \in Sub(m) |-> Step(h, T)]
    <3>3. ASSUME NEW T \in Sub(m), T # {} PROVE T \ {Picked(T)} \in Sub(m - 1) /\ T \ {Picked(T)} \in Sub(m)
      <4>1. Cardinality(T \ {Picked(T)}) = Cardinality(T) - 1
          BY <1>1, <3>3, PickedIsMember, FS_RemoveElement
      <4> QED
          BY <1>1, <4>1
    <3>4. \A U \in Sub(m - 1) : h[U] = Step(h, U)
        BY <3>2
    <3>5. ASSUME NEW T \in Sub(m), T # {} PROVE g[T \ {Picked(T)}] = h[T \ {Picked(T)}]
      <4> DEFINE U == T \ {Picked(T)}
      <4>1. U \in Sub(m - 1) /\ U \in Sub(m)
          BY <3>3, <3>5
      <4>2. g[U] = Step(h, U)
          BY <4>1
      <4>3. h[U] = Step(h, U)
          BY <4>1, <3>4
      <4> QED
          BY <4>2, <4>3
    <3>6. \A T \in Sub(m) : Step(g, T) = Step(h, T)
      <4> HIDE DEF Sub, g
      <4> QED
          BY <3>5
    <3>7. Upto(g, m)
      <4> HIDE DEF Sub, Step
      <4> QED
          BY <3>6
    <3> QED
        BY <2>1, <3>7
  <2> QED
      BY <2>2, <2>3
<1>3. Cardinality(S) \in Nat
    BY <1>1
<1>4. PICK g : Upto(g, Cardinality(S))
    BY <1>2, <1>3
<1>5. Sub(Cardinality(S)) = SUBSET S
    BY FS_Subset
<1>6. SetSums(g, F, S)
    BY <1>4, <1>5 DEF SetSums
<1> QED
    BY <1>6

LEMMA SetSumsStep ==
    ASSUME NEW S, NEW F, NEW g, SetSums(g, F, S)
    PROVE  g[{}] = 0 /\ \A T \in SUBSET S : T # {} => g[T] = F[Picked(T)] + g[T \ {Picked(T)}]
BY DEF SetSums

LEMMA SetSumsArePositive ==
    ASSUME NEW S, IsFiniteSet(S), NEW F, \A x \in S : F[x] \in Nat, NEW g, SetSums(g, F, S),
           NEW U \in SUBSET S
    PROVE  g[U] \in Nat /\ \A x \in U : F[x] <= g[U]
<1> DEFINE Bad == {T \in SUBSET S : ~ (g[T] \in Nat /\ \A x \in T : F[x] <= g[T])}
<1>1. g[{}] = 0 /\ \A T \in SUBSET S : T # {} => g[T] = F[Picked(T)] + g[T \ {Picked(T)}]
    BY DEF SetSums
<1>2. ASSUME Bad # {} PROVE FALSE
  <2>1. PICK T \in Bad : \A x \in T : T \ {x} \notin Bad
      BY <1>2, Smallest
  <2>2. T # {}
      BY <2>1, <1>1
  <2>3. Picked(T) \in T /\ Picked(T) \in S
      BY <2>2, PickedIsMember
  <2>4. g[T] = F[Picked(T)] + g[T \ {Picked(T)}]
      BY <2>2, <1>1
  <2>5. g[T \ {Picked(T)}] \in Nat /\ \A x \in T \ {Picked(T)} : F[x] <= g[T \ {Picked(T)}]
      BY <2>1, <2>3
  <2>6. g[T] \in Nat /\ F[Picked(T)] <= g[T] /\ g[T \ {Picked(T)}] <= g[T]
      BY <2>3, <2>4, <2>5
  <2>7. ASSUME NEW x \in T PROVE F[x] <= g[T]
    <3>1. CASE x = Picked(T)
        BY <2>6, <3>1
    <3>2. CASE x # Picked(T)
        BY <2>5, <2>6, <3>2
    <3> QED
        BY <3>1, <3>2
  <2> QED
      BY <2>1, <2>6, <2>7
<1> QED
    BY <1>2

LEMMA SumIsSum ==
    ASSUME NEW S, IsFiniteSet(S), NEW F, \A x \in S : F[x] \in Nat
    PROVE  SumOf(F, S) \in Nat /\ \A x \in S : F[x] <= SumOf(F, S)
<1> DEFINE h == CHOOSE g : SetSums(g, F, S)
<1>1. SetSums(h, F, S)
    BY SetSumsExist
<1>2. SumOf(F, S) = h[S]
    BY DEF SumOf
<1> HIDE DEF h
<1> QED
    BY <1>1, <1>2, SetSumsArePositive

LEMMA MinOfSet ==
    ASSUME NEW S \in SUBSET Nat, S # {}
    PROVE  Min(S) \in S /\ \A x \in S : Min(S) <= x
<1>1. \E x \in S : \A y \in S : x <= y
    BY Least
<1> QED
    BY <1>1 DEF Min

LEMMA MaxOfSet ==
    ASSUME NEW S \in SUBSET Nat, NEW b \in Nat, \A x \in S : x <= b, S # {}
    PROVE  Max(S) \in S /\ \A x \in S : x <= Max(S)
<1> DEFINE D == {n \in Nat : \E x \in S : n = b - x}
<1>1. D \in SUBSET Nat /\ D # {}
  <2>1. PICK x \in S : TRUE
      OBVIOUS
  <2>2. b - x \in D
      BY <2>1
  <2> QED
      BY <2>2
<1> HIDE DEF D
<1>2. PICK m \in D : \A k \in D : m <= k
    BY <1>1, Least
<1>3. PICK y \in S : m = b - y
    BY DEF D
<1>4. \A x \in S : b - x \in D
    BY DEF D
<1>5. \A x \in S : y >= x
    BY <1>2, <1>3, <1>4
<1>6. \E x \in S : \A z \in S : x >= z
    BY <1>5
<1>7. Max(S) \in S /\ \A z \in S : Max(S) >= z
    BY <1>6 DEF Max
<1> QED
    BY <1>7

-----------------------------------------------------------------------------
(* FlattenSeq, list by list.                                                *)
LEMMA FlattenSteps ==
    ASSUME NEW T, NEW ss \in Seq(Seq(T))
    PROVE  /\ Len(ss) \in Nat /\ SubSeq(ss, 1, Len(ss)) = ss
           /\ FlattenSeq(SubSeq(ss, 1, 0)) = <<>>
           /\ \A n \in 0..(Len(ss) - 1) :
                  /\ FlattenSeq(SubSeq(ss, 1, n)) \in Seq(T)
                  /\ FlattenSeq(SubSeq(ss, 1, n + 1)) = FlattenSeq(SubSeq(ss, 1, n)) \o ss[n + 1]
<1>1. Len(ss) \in Nat /\ SubSeq(ss, 1, Len(ss)) = ss
    BY LenProperties, SubSeqProperties
<1>2. FlattenSeq(SubSeq(ss, 1, 0)) = <<>>
  <2>1. SubSeq(ss, 1, 0) = <<>>
      BY SubSeqProperties
  <2> QED
      BY <2>1 DEF FlattenSeq
<1>3. ASSUME NEW n \in 0..(Len(ss) - 1)
      PROVE  /\ FlattenSeq(SubSeq(ss, 1, n)) \in Seq(T)
             /\ FlattenSeq(SubSeq(ss, 1, n + 1)) = FlattenSeq(SubSeq(ss, 1, n)) \o ss[n + 1]
  <2>1. n + 1 \in 1..Len(ss) /\ ss[n + 1] \in Seq(T)
      BY <1>1, ElementOfSeq
  <2>2. SubSeq(ss, 1, n) \in Seq(Seq(T))
      BY <1>1, SubSeqProperties
  <2>3. SubSeq(ss, 1, n + 1) = Append(SubSeq(ss, 1, n), ss[n + 1])
      BY <1>1, <2>1, SubSeqProperties
  <2> QED
      BY <2>1, <2>2, <2>3, FlattenAppend
<1> QED
    BY <1>1, <1>2, <1>3

LEMMA PrefixGrows ==
    ASSUME NEW T, NEW s \in Seq(T), NEW a \in Nat, NEW b \in Nat, a + b <= Len(s)
    PROVE  SubSeq(s, 1, a) \o SubSeq(s, a + 1, a + b) = SubSeq(s, 1, a + b)
<1>1. Len(s) \in Nat
    BY LenProperties
<1>2. /\ SubSeq(s, 1, a) \in Seq(T) /\ Len(SubSeq(s, 1, a)) = a
      /\ \A i \in 1..a : SubSeq(s, 1, a)[i] = s[i]
    BY <1>1, SubSeqProperties
<1>3. /\ SubSeq(s, a + 1, a + b) \in Seq(T) /\ Len(SubSeq(s, a + 1, a + b)) = b
      /\ \A i \in 1..b : SubSeq(s, a + 1, a + b)[i] = s[a + i]
    BY <1>1, SubSeqProperties
<1>4. /\ SubSeq(s, 1, a + b) \in Seq(T) /\ Len(SubSeq(s, 1, a + b)) = a + b
      /\ \A i \in 1..(a + b) : SubSeq(s, 1, a + b)[i] = s[i]
    BY <1>1, SubSeqProperties
<1> DEFINE u == SubSeq(s, 1, a)
           v == SubSeq(s, a + 1, a + b)
           w == SubSeq(s, 1, a + b)
<1> HIDE DEF u, v, w
<1>5. /\ u \o v \in Seq(T) /\ Len(u \o v) = a + b
      /\ \A n \in 1..a : (u \o v)[n] = u[n]
      /\ \A n \in (a + 1)..(a + b) : (u \o v)[n] = v[n - a]
    BY <1>2, <1>3, Joined DEF u, v
<1>6. ASSUME NEW n \in 1..(a + b) PROVE (u \o v)[n] = w[n]
  <2>1. CASE n <= a
      BY <1>2, <1>4, <1>5, <2>1 DEF u, w
  <2>2. CASE n > a
    <3>1. n \in (a + 1)..(a + b) /\ n - a \in 1..b /\ a + (n - a) = n
        BY <2>2
    <3>2. v[n - a] = s[n]
        BY <1>3, <3>1 DEF v
    <3>3. (u \o v)[n] = v[n - a] /\ w[n] = s[n]
        BY <1>4, <1>5, <3>1 DEF w
    <3> QED
        BY <3>2, <3>3
  <2>3. n <= a \/ n > a
      OBVIOUS
  <2> QED
      BY <2>1, <2>2, <2>3
<1>7. u \o v = w
    BY <1>4, <1>5, <1>6, SeqEqual DEF w
<1> QED
    BY <1>7 DEF u, v, w

LEMMA ChunkSizes ==
    ASSUME NEW len \in Nat, NEW n \in Nat \ {0}, len % n = 0
    PROVE  /\ len \div n \in Nat /\ n * (len \div n) = len
           /\ \A c \in 0..n : c * (len \div n) \in Nat /\ c * (len \div n) <= len
           /\ \A c \in 0..(n - 1) : (c + 1) * (len \div n) = c * (len \div n) + len \div n
<1>1. len \div n \in Nat /\ n * (len \div n) = len
    OBVIOUS
<1> DEFINE q == len \div n
<1> HIDE DEF q
<1>0. q \in Nat /\ n * q = len
    BY <1>1 DEF q
<1>4. \A a, b, c \in Int : (a + b) * c = a * c + b * c
    OBVIOUS
<1>5. \A a, b \in Nat : a * b \in Nat
    OBVIOUS
<1>6. 1 * q = q
    BY <1>0
<1>2. \A c \in 0..(n - 1) : (c + 1) * q = c * q + q
    BY <1>0, <1>4, <1>6
<1>3. ASSUME NEW c \in 0..n PROVE c * q \in Nat /\ c * q <= len
  <2>1. c \in Nat /\ n - c \in Nat /\ c + (n - c) = n
      OBVIOUS
  <2>2. c * q \in Nat /\ (n - c) * q \in Nat
      BY <1>0, <1>5, <2>1
  <2>3. (c + (n - c)) * q = c * q + (n - c) * q
      BY <1>0, <1>4, <2>1
  <2>4. c * q + (n - c) * q = len
      BY <1>0, <2>1, <2>3
  <2> QED
      BY <2>2, <2>4
<1> QED
    BY <1>0, <1>1, <1>2, <1>3 DEF q

(* The chunks of a list, one after the other, are the list.                 *)
LEMMA ChunksJoin ==
    ASSUME NEW T, NEW s \in Seq(T), NEW n \in Nat \ {0}, Len(s) % n = 0
    PROVE  /\ \A c \in 1..n : Chunk(s, n, c) \in Seq(T) /\ Len(Chunk(s, n, c)) = Len(s) \div n
           /\ FlattenSeq([c \in 1..n |-> Chunk(s, n, c)]) = s
<1> DEFINE len == Len(s)
           q == len \div n
           ss == [c \in 1..n |-> Chunk(s, n, c)]
<1>1. len \in Nat /\ SubSeq(s, 1, len) = s
    BY LenProperties, SubSeqProperties
<1>2. /\ q \in Nat /\ n * q = len
      /\ \A c \in 0..n : c * q \in Nat /\ c * q <= len
      /\ \A c \in 0..(n - 1) : (c + 1) * q = c * q + q
    BY <1>1, ChunkSizes
<1>3. \A c \in 0..(n - 1) : Chunk(s, n, c + 1) = SubSeq(s, c * q + 1, c * q + q)
  <2> TAKE c \in 0..(n - 1)
  <2>1. (c + 1) - 1 = c
      OBVIOUS
  <2>2. Chunk(s, n, c + 1) = SubSeq(s, c * q + 1, (c + 1) * q)
      BY <2>1 DEF Chunk
  <2> QED
      BY <1>2, <2>2
<1> HIDE DEF len, q
<1>4. ASSUME NEW c \in 0..(n - 1)
      PROVE  /\ c * q \in Nat /\ q \in Nat /\ c * q + q <= len
             /\ Chunk(s, n, c + 1) \in Seq(T) /\ Len(Chunk(s, n, c + 1)) = q
  <2>1. c * q \in Nat /\ q \in Nat /\ c * q + q <= len
    <3>1. c + 1 \in 0..n /\ c \in 0..n
        OBVIOUS
    <3>2. (c + 1) * q <= len /\ (c + 1) * q = c * q + q /\ c * q \in Nat
        BY <1>2, <3>1
    <3> QED
        BY <1>2, <3>2
  <2> DEFINE a == c * q
  <2> HIDE DEF a
  <2>2. SubSeq(s, a + 1, a + q) \in Seq(T) /\ Len(SubSeq(s, a + 1, a + q)) = q
      BY <1>1, <2>1, SubSeqProperties DEF a, len
  <2> QED
      BY <1>3, <2>1, <2>2 DEF a
<1>5. \A c \in 1..n : Chunk(s, n, c) \in Seq(T) /\ Len(Chunk(s, n, c)) = q
  <2> TAKE c \in 1..n
  <2>1. c - 1 \in 0..(n - 1) /\ (c - 1) + 1 = c
      OBVIOUS
  <2> QED
      BY <1>4, <2>1
<1>6. ss \in Seq(Seq(T)) /\ Len(ss) = n
    BY <1>5
<1>9. \A c \in 0..(n - 1) : ss[c + 1] = Chunk(s, n, c + 1)
    OBVIOUS
<1> HIDE DEF ss
<1>7. /\ Len(ss) \in Nat /\ SubSeq(ss, 1, Len(ss)) = ss
      /\ FlattenSeq(SubSeq(ss, 1, 0)) = <<>>
      /\ \A c \in 0..(Len(ss) - 1) :
             FlattenSeq(SubSeq(ss, 1, c + 1)) = FlattenSeq(SubSeq(ss, 1, c)) \o ss[c + 1]
  <2>1. ss \in Seq(Seq(T))
      BY <1>6
  <2>2. /\ Len(ss) \in Nat /\ SubSeq(ss, 1, Len(ss)) = ss
        /\ FlattenSeq(SubSeq(ss, 1, 0)) = <<>>
        /\ \A c \in 0..(Len(ss) - 1) :
               /\ FlattenSeq(SubSeq(ss, 1, c)) \in Seq(T)
               /\ FlattenSeq(SubSeq(ss, 1, c + 1)) = FlattenSeq(SubSeq(ss, 1, c)) \o ss[c + 1]
      BY ONLY <2>1, FlattenSteps
  <2> QED
      BY <2>2
<1> DEFINE good == {c \in Nat : FlattenSeq(SubSeq(ss, 1, c)) = SubSeq(s, 1, c * q)}
<1>8. 0 \in good
  <2>1. 0 * q = 0 /\ SubSeq(s, 1, 0) = <<>>
      BY <1>2, SubSeqProperties
  <2> QED
      BY <1>7, <2>1
<1>10. ASSUME NEW c \in 0..(n - 1), c \in good PROVE c + 1 \in good
  <2>1. FlattenSeq(SubSeq(ss, 1, c + 1)) = SubSeq(s, 1, c * q) \o Chunk(s, n, c + 1)
      BY <1>6, <1>7, <1>9, <1>10
  <2>2. SubSeq(s, 1, c * q) \o Chunk(s, n, c + 1) = SubSeq(s, 1, c * q + q)
    <3> DEFINE a == c * q
    <3>1. a \in Nat /\ q \in Nat /\ a + q <= Len(s) /\ Chunk(s, n, c + 1) = SubSeq(s, a + 1, a + q)
        BY <1>3, <1>4 DEF len
    <3> HIDE DEF a
    <3>2. SubSeq(s, 1, a) \o SubSeq(s, a + 1, a + q) = SubSeq(s, 1, a + q)
        BY <3>1, PrefixGrows
    <3> QED
        BY <3>1, <3>2 DEF a
  <2>3. (c + 1) * q = c * q + q /\ c + 1 \in Nat
      BY <1>2
  <2>4. FlattenSeq(SubSeq(ss, 1, c + 1)) = SubSeq(s, 1, (c + 1) * q)
      BY <2>1, <2>2, <2>3
  <2> QED
      BY <2>3, <2>4
<1> HIDE DEF good
<1>11. n \in 0..n /\ n \in Nat
    OBVIOUS
<1>12. n \in good
    BY <1>8, <1>10, <1>11, Climbs
<1>13. FlattenSeq(ss) = SubSeq(s, 1, n * q)
    BY <1>6, <1>7, <1>12 DEF good
<1>14. FlattenSeq(ss) = s
    BY <1>1, <1>2, <1>13
<1> QED
    BY <1>5, <1>14 DEF ss, q, len

-----------------------------------------------------------------------------
LEMMA JoinLists ==
    ASSUME NEW A, NEW B, NEW a, Lists(a, A), NEW b, Lists(b, B), A \cap B = {}
    PROVE  Lists(a \o b, A \cup B)
<1> DEFINE S == A \cup B
           h == Len(a)
           g == Len(b)
           t == a \o b
<1>1. /\ a \in Seq(A) /\ b \in Seq(B) /\ h \in Nat /\ g \in Nat
      /\ \A n \in 1..h : a[n] \in A
      /\ \A n \in 1..g : b[n] \in B
    BY LenProperties, ElementOfSeq DEF Lists
<1>2. a \in Seq(S) /\ b \in Seq(S)
    BY <1>1
<1>3. /\ t \in Seq(S) /\ Len(t) = h + g
      /\ \A n \in 1..h : t[n] = a[n]
      /\ \A n \in (h + 1)..(h + g) : t[n] = b[n - h]
    BY <1>2, Joined
<1>4. /\ \A i, j \in 1..h : a[i] = a[j] => i = j
      /\ \A i, j \in 1..g : b[i] = b[j] => i = j
      /\ \A x \in A : \E i \in 1..h : a[i] = x
      /\ \A x \in B : \E i \in 1..g : b[i] = x
    BY DEF Lists
<1> HIDE DEF S, h, g, t
<1>5. ASSUME NEW n \in 1..(h + g)
      PROVE  \/ n \in 1..h /\ t[n] = a[n] /\ t[n] \in A
             \/ n - h \in 1..g /\ t[n] = b[n - h] /\ t[n] \in B
  <2>1. n \in 1..h \/ (n \in (h + 1)..(h + g) /\ n - h \in 1..g)
      BY <1>1
  <2> QED
      BY <1>1, <1>3, <2>1
<1>6. ASSUME NEW i \in 1..(h + g), NEW j \in 1..(h + g), t[i] = t[j] PROVE i = j
  <2>1. \/ i \in 1..h /\ t[i] = a[i] /\ t[i] \in A
        \/ i - h \in 1..g /\ t[i] = b[i - h] /\ t[i] \in B
      BY <1>5
  <2>2. \/ j \in 1..h /\ t[j] = a[j] /\ t[j] \in A
        \/ j - h \in 1..g /\ t[j] = b[j - h] /\ t[j] \in B
      BY <1>5
  <2>3. i - h = j - h => i = j
      BY <1>1
  <2> QED
      BY <1>4, <1>6, <2>1, <2>2, <2>3
<1>7. ASSUME NEW x \in A PROVE \E i \in 1..(h + g) : t[i] = x
  <2>1. PICK i \in 1..h : a[i] = x
      BY <1>4
  <2>2. i \in 1..(h + g)
      BY <1>1
  <2> QED
      BY <1>3, <2>1, <2>2
<1>8. ASSUME NEW x \in B PROVE \E i \in 1..(h + g) : t[i] = x
  <2>1. PICK i \in 1..g : b[i] = x
      BY <1>4
  <2>2. h + i \in (h + 1)..(h + g) /\ h + i \in 1..(h + g) /\ (h + i) - h = i
      BY <1>1
  <2> QED
      BY <1>3, <2>1, <2>2
<1>9. \A x \in S : \E i \in 1..(h + g) : t[i] = x
    BY <1>7, <1>8 DEF S
<1> QED
    BY <1>3, <1>6, <1>9 DEF Lists, S, t

LEMMA EmptyLists == Lists(<<>>, {})
BY DEF Lists

(* Lists of disjoint sets, one after the other, list their union.           *)
LEMMA FlattenLists ==
    ASSUME NEW P, NEW ss, NEW N \in Nat, Len(ss) = N, NEW T, ss \in Seq(Seq(T)),
           \A r \in 1..N : Lists(ss[r], P[r]),
           \A q, r \in 1..N : q # r => P[q] \cap P[r] = {}
    PROVE  Lists(FlattenSeq(ss), UNION {P[r] : r \in 1..N})
<1> DEFINE U(n) == UNION {P[r] : r \in 1..n}
           good == {n \in Nat : Lists(FlattenSeq(SubSeq(ss, 1, n)), U(n))}
<1>1. /\ SubSeq(ss, 1, Len(ss)) = ss
      /\ FlattenSeq(SubSeq(ss, 1, 0)) = <<>>
      /\ \A n \in 0..(Len(ss) - 1) :
             /\ FlattenSeq(SubSeq(ss, 1, n)) \in Seq(T)
             /\ FlattenSeq(SubSeq(ss, 1, n + 1)) = FlattenSeq(SubSeq(ss, 1, n)) \o ss[n + 1]
    BY FlattenSteps
<1>2. U(0) = {}
    OBVIOUS
<1>3. 0 \in good
    BY <1>1, <1>2, EmptyLists
<1>4. ASSUME NEW n \in 0..(N - 1) PROVE U(n + 1) = U(n) \cup P[n + 1] /\ U(n) \cap P[n + 1] = {}
  <2>1. n + 1 \in 1..N /\ \A r \in 1..n : r \in 1..N /\ r # n + 1
      OBVIOUS
  <2>2. \A r \in 1..n : P[r] \cap P[n + 1] = {}
      BY <2>1
  <2>3. \A r \in 1..(n + 1) : r \in 1..n \/ r = n + 1
      OBVIOUS
  <2>4. n + 1 \in 1..(n + 1) /\ \A r \in 1..n : r \in 1..(n + 1)
      OBVIOUS
  <2>5. ASSUME NEW x PROVE x \in U(n + 1) <=> x \in U(n) \cup P[n + 1]
      BY <2>3, <2>4
  <2> QED
      BY <2>2, <2>5
<1> HIDE DEF U
<1>5. ASSUME NEW n \in 0..(N - 1), n \in good PROVE n + 1 \in good
  <2>1. n + 1 \in 1..N /\ n + 1 \in Nat
      OBVIOUS
  <2>2. Lists(FlattenSeq(SubSeq(ss, 1, n)), U(n)) /\ Lists(ss[n + 1], P[n + 1])
      BY <1>5, <2>1
  <2>3. Lists(FlattenSeq(SubSeq(ss, 1, n)) \o ss[n + 1], U(n) \cup P[n + 1])
      BY <1>4, <2>2, JoinLists
  <2>4. FlattenSeq(SubSeq(ss, 1, n + 1)) = FlattenSeq(SubSeq(ss, 1, n)) \o ss[n + 1]
      BY <1>1
  <2> QED
      BY <1>4, <2>1, <2>3, <2>4
<1> HIDE DEF good
<1>6. N \in good
  <2>1. N \in Nat /\ \A n \in 0..(N - 1) : n \in good => n + 1 \in good
      BY <1>5
  <2>2. \A n \in 0..N : n \in good
      BY ONLY <1>3, <2>1, Climbs
  <2>3. N \in 0..N
      OBVIOUS
  <2> QED
      BY ONLY <2>2, <2>3
<1> QED
    BY <1>1, <1>6 DEF good, U

-----------------------------------------------------------------------------
(* The three orders in which the trainer sorts.                             *)
LEMMA ByWorkLists ==
    ASSUME NEW p, Admissible(call), p \in SUBSET Items(call)
    PROVE  Lists(ByWork(p), p)
<1> DEFINE R == {z \in p \X p : Before(call, z[1], z[2])}
<1>1. IsFiniteSet(p)
    BY SubsetsFinite
<1>2. \A x \in p : call.work[x] \in Nat /\ x \in Nat
    BY CallFacts
<1>3. \A x, y \in p : <<x, y>> \in R <=> Before(call, x, y)
    OBVIOUS
<1> HIDE DEF R
<1>4. \A x \in p : ~Before(call, x, x)
    BY <1>2 DEF Before
<1>5. \A x, y \in p : x = y \/ Before(call, x, y) \/ Before(call, y, x)
    BY <1>2 DEF Before
<1>6. \A x, y, z \in p : Before(call, x, y) /\ Before(call, y, z) => Before(call, x, z)
    BY <1>2 DEF Before
<1>7. Orders(R, p)
    BY <1>3, <1>4, <1>5, <1>6 DEF Orders
<1> DEFINE ahead == [n \in p |-> {m \in p : Before(call, m, n)}]
<1>8. DOMAIN ahead = p /\ \A x \in p : ahead[x] = AheadIn(R, p, x)
    BY <1>3 DEF AheadIn
<1> HIDE DEF ahead
<1>9. Lists(Sorted(ahead), p)
    BY <1>1, <1>7, <1>8, SortedLists
<1> QED
    BY <1>9 DEF ByWork, ahead

LEMMA AscendingLists ==
    ASSUME NEW p, IsFiniteSet(p), p \in SUBSET Nat
    PROVE  Lists(Ascending(p), p)
<1> DEFINE R == {z \in p \X p : z[1] < z[2]}
<1>1. \A x, y \in p : <<x, y>> \in R <=> x < y
    OBVIOUS
<1> HIDE DEF R
<1>2. \A x \in p : x \in Nat
    OBVIOUS
<1>3. Orders(R, p)
    BY <1>1, <1>2 DEF Orders
<1> DEFINE ahead == [n \in p |-> {m \in p : m < n}]
<1>4. DOMAIN ahead = p /\ \A x \in p : ahead[x] = AheadIn(R, p, x)
    BY <1>1 DEF AheadIn
<1> HIDE DEF ahead
<1>5. Lists(Sorted(ahead), p)
    BY <1>3, <1>4, SortedLists
<1> QED
    BY <1>5 DEF Ascending, ahead

LEMMA WorkIsNat ==
    ASSUME Admissible(call), NEW p \in SUBSET Items(call)
    PROVE  Work(p) \in Nat
<1>1. IsFiniteSet(p) /\ \A n \in p : call.work[n] \in Nat
    BY SubsetsFinite, CallFacts
<1>2. SumOf(call.work, p) \in Nat
    BY <1>1, SumIsSum
<1>3. Work(p) = SumOf(call.work, p)
    BY DEF Work, MapThenSumSet, MapThenFoldSet, SumOf, SetSums, Picked
<1> QED
    BY <1>2, <1>3

LEMMA LargerLists ==
    ASSUME NEW S, Admissible(call), IsFiniteSet(S),
           \A p \in S : p \in SUBSET Items(call) /\ p # {},
           \A p, q \in S : p # q => p \cap q = {}
    PROVE  Lists(LargestFirst(S), S)
<1> DEFINE R == {z \in S \X S : Larger(z[1], z[2])}
<1>1. \A x, y \in S : <<x, y>> \in R <=> Larger(x, y)
    OBVIOUS
<1> HIDE DEF R
<1>2. ASSUME NEW p \in S PROVE Work(p) \in Nat /\ Min(p) \in Nat /\ Min(p) \in p
  <2>1. p \in SUBSET Nat
      BY CallFacts
  <2> QED
      BY <2>1, WorkIsNat, MinOfSet
<1>3. \A p, q \in S : Min(p) = Min(q) => p = q
    BY <1>2
<1>4. \A p \in S : ~Larger(p, p)
    BY <1>2 DEF Larger
<1>5. ASSUME NEW p \in S, NEW q \in S PROVE p = q \/ Larger(p, q) \/ Larger(q, p)
  <2> DEFINE a == Work(p)
             b == Work(q)
             c == Min(p)
             d == Min(q)
  <2>1. a \in Nat /\ b \in Nat /\ c \in Nat /\ d \in Nat /\ (c = d => p = q)
      BY <1>2, <1>3
  <2>2. /\ Larger(p, q) <=> (a > b \/ (a = b /\ c > d))
        /\ Larger(q, p) <=> (b > a \/ (b = a /\ d > c))
      BY DEF Larger
  <2> HIDE DEF a, b, c, d
  <2> QED
      BY <2>1, <2>2
<1>6. ASSUME NEW p \in S, NEW q \in S, NEW r \in S, Larger(p, q), Larger(q, r) PROVE Larger(p, r)
  <2>1. /\ Work(p) \in Nat /\ Work(q) \in Nat /\ Work(r) \in Nat
        /\ Min(p) \in Nat /\ Min(q) \in Nat /\ Min(r) \in Nat
      BY <1>2
  <2>2. /\ Work(p) > Work(q) \/ (Work(p) = Work(q) /\ Min(p) > Min(q))
        /\ Work(q) > Work(r) \/ (Work(q) = Work(r) /\ Min(q) > Min(r))
      BY <1>6 DEF Larger
  <2>3. Work(p) > Work(r) \/ (Work(p) = Work(r) /\ Min(p) > Min(r))
      BY <2>1, <2>2
  <2> QED
      BY <2>3 DEF Larger
<1>7. Orders(R, S)
    BY <1>1, <1>4, <1>5, <1>6 DEF Orders
<1> DEFINE ahead == [p \in S |-> {q \in S : Larger(q, p)}]
<1>8. DOMAIN ahead = S /\ \A x \in S : ahead[x] = AheadIn(R, S, x)
    BY <1>1 DEF AheadIn
<1> HIDE DEF ahead
<1>9. Lists(Sorted(ahead), S)
    BY <1>7, <1>8, SortedLists
<1> QED
    BY <1>9 DEF LargestFirst, ahead

-----------------------------------------------------------------------------
(* The batch lists the rows at every stage; the share of a rank is a chunk  *)
(* of it; the micro-batches of a rank, put together, list the positions of  *)
(* its share; and what a rank has computed is its share in the order of the *)
(* micro-batches it has passed.                                             *)
ShareSize == Size \div Ranks
Passed(r) == FlattenSeq(SubSeq(micros[r], 1, passes))
Follows(o, s, order) == Len(o) = Len(order) /\ \A n \in 1..Len(order) : o[n] = s[order[n]]

StageInv ==
    /\ stage \in {"rollout", "balance", "count", "split", "forward", "done"}
    /\ stage = "rollout" => batch = [n \in 1..Size |-> n]
    /\ stage \in {"balance", "split"} <=> states # {}
    /\ stage = "balance" => call.k = Ranks /\ Len(call.work) = Size
    /\ stage = "split" => Len(call.work) = ShareSize /\ counts \in [1..Ranks -> 1..ShareSize]
    /\ stage = "done" => results = batch

MicrosInv ==
    /\ micros \in Seq(Seq(Seq(1..ShareSize)))
    /\ stage \in {"rollout", "balance", "count"} => micros = <<>>
    /\ stage = "split" => Len(micros) < Ranks
    /\ stage \in {"forward", "done"} => Len(micros) = Ranks
    /\ \A r \in 1..Len(micros) : Lists(FlattenSeq(micros[r]), 1..ShareSize)

OutputsInv ==
    /\ passes \in Nat
    /\ outputs \in [1..Ranks -> Seq(1..Size)]
    /\ stage \notin {"forward", "done"} => passes = 0 /\ \A r \in 1..Ranks : outputs[r] = <<>>
    /\ stage \in {"forward", "done"} =>
           \A r \in 1..Ranks :
               passes <= Len(micros[r]) /\ Follows(outputs[r], Share(r), Passed(r))

BatchInv ==
    /\ lens \in Batches
    /\ Lists(batch, 1..Size)
    /\ states # {} => ExactInv
    /\ StageInv /\ MicrosInv /\ OutputsInv

LEMMA BatchFacts ==
    ASSUME lens \in Batches
    PROVE  /\ Size \in Nat \ {0} /\ Ranks \in Nat \ {0} /\ Workers \in Nat \ {0}
           /\ MaxTokenLen \in Nat \ {0} /\ Size % Ranks = 0
           /\ \A n \in 1..Size : lens[n] \in Nat \ {0}
           /\ ShareSize \in Nat \ {0} /\ Ranks * ShareSize = Size /\ Ranks <= Size
<1>1. /\ Ranks \in Nat \ {0} /\ Workers \in Nat \ {0} /\ MaxTokenLen \in Nat \ {0}
      /\ lens \in Seq(1..MaxTokenLen) /\ lens # <<>> /\ Size % Ranks = 0
    BY BatchAssumption DEF Size
<1>2. Size \in Nat \ {0} /\ \A n \in 1..Size : lens[n] \in 1..MaxTokenLen
    BY <1>1, LenProperties, ElementOfSeq, EmptySeq DEF Size
<1>3. ShareSize \in Nat /\ Ranks * ShareSize = Size
    BY <1>1, <1>2, ChunkSizes DEF ShareSize
<1>4. \A a, b \in Nat : b # 0 => a <= a * b
    OBVIOUS
<1>5. ShareSize # 0
    BY <1>1, <1>2, <1>3
<1>6. Ranks <= Size
    BY <1>1, <1>3, <1>4, <1>5
<1> QED
    BY <1>1, <1>2, <1>3, <1>5, <1>6

LEMMA ListedRows ==
    ASSUME NEW n \in Nat, NEW b, Lists(b, 1..n)
    PROVE  b \in Seq(1..n) /\ Len(b) = n /\ \A i \in 1..n : b[i] \in 1..n
<1>1. b \in Seq(1..n) /\ Len(b) = n
    BY ListSize, IntervalFinite DEF Lists
<1> QED
    BY <1>1, ElementOfSeq

LEMMA ShareFacts ==
    ASSUME lens \in Batches, Lists(batch, 1..Size)
    PROVE  /\ \A r \in 1..Ranks : /\ Share(r) \in Seq(1..Size) /\ Len(Share(r)) = ShareSize
                                  /\ \A n \in 1..ShareSize : Share(r)[n] \in 1..Size
           /\ FlattenSeq([r \in 1..Ranks |-> Share(r)]) = batch
<1>1. Size \in Nat /\ Ranks \in Nat \ {0} /\ Size % Ranks = 0
    BY BatchFacts
<1>2. batch \in Seq(1..Size) /\ Len(batch) = Size
    BY <1>1, ListedRows
<1>3. /\ \A r \in 1..Ranks : Chunk(batch, Ranks, r) \in Seq(1..Size)
                             /\ Len(Chunk(batch, Ranks, r)) = Size \div Ranks
      /\ FlattenSeq([r \in 1..Ranks |-> Chunk(batch, Ranks, r)]) = batch
    BY <1>1, <1>2, ChunksJoin
<1>4. ASSUME NEW r \in 1..Ranks
      PROVE  /\ Share(r) \in Seq(1..Size) /\ Len(Share(r)) = ShareSize
             /\ \A n \in 1..ShareSize : Share(r)[n] \in 1..Size
  <2>1. Share(r) \in Seq(1..Size) /\ Len(Share(r)) = ShareSize
      BY <1>3 DEF Share, ShareSize
  <2> QED
      BY <2>1, ElementOfSeq
<1> QED
    BY <1>3, <1>4 DEF Share

LEMMA CalculateIsNat == ASSUME NEW n \in Nat PROVE Calculate(n) \in Nat
<1>1. 24576 * n \in Nat /\ n * n \in Nat
    OBVIOUS
<1> QED
    BY <1>1 DEF Calculate

(* Both calls of the partition meet its assertions.                         *)
LEMMA RowsCall ==
    ASSUME lens \in Batches, NEW b, Lists(b, 1..Size), NEW c,
           c = [work |-> [n \in 1..Size |-> Calculate(lens[b[n]])], k |-> Ranks, equal |-> TRUE]
    PROVE  Admissible(c) /\ Len(c.work) = Size /\ c.k = Ranks
<1>1. /\ Size \in Nat /\ Ranks \in Nat \ {0} /\ Size % Ranks = 0 /\ Ranks <= Size
      /\ \A n \in 1..Size : lens[n] \in Nat
    BY BatchFacts
<1>2. \A n \in 1..Size : b[n] \in 1..Size
    BY <1>1, ListedRows
<1> DEFINE w == [n \in 1..Size |-> Calculate(lens[b[n]])]
<1>3. w \in [1..Size -> Nat]
    BY <1>1, <1>2, CalculateIsNat
<1>4. c.work = w /\ c.k = Ranks /\ c.equal = TRUE
    OBVIOUS
<1> HIDE DEF w
<1>5. w \in Seq(Nat) /\ Len(w) = Size
    BY <1>1, <1>3
<1> QED
    BY <1>1, <1>4, <1>5 DEF Admissible

LEMMA ShareLensFacts ==
    ASSUME lens \in Batches, Lists(batch, 1..Size), NEW r \in 1..Ranks
    PROVE  /\ DOMAIN ShareLens(r) = 1..ShareSize
           /\ \A n \in 1..ShareSize : ShareLens(r)[n] \in Nat \ {0}
<1>1. Len(Share(r)) = ShareSize /\ \A n \in 1..ShareSize : Share(r)[n] \in 1..Size
    BY ShareFacts
<1>2. \A n \in 1..Size : lens[n] \in Nat \ {0}
    BY BatchFacts
<1>3. ShareLens(r) = [n \in 1..ShareSize |-> lens[Share(r)[n]]]
    BY <1>1 DEF ShareLens
<1> QED
    BY <1>1, <1>2, <1>3

LEMMA LocalCallFacts ==
    ASSUME lens \in Batches, Lists(batch, 1..Size), NEW r \in 1..Ranks, NEW num \in 1..ShareSize
    PROVE  Admissible(LocalCall(r, num)) /\ Len(LocalCall(r, num).work) = ShareSize
<1>1. Len(Share(r)) = ShareSize /\ ShareSize \in Nat
    BY ShareFacts, BatchFacts
<1>2. \A n \in 1..ShareSize : ShareLens(r)[n] \in Nat
    BY ShareLensFacts
<1> DEFINE w == [n \in 1..ShareSize |-> Calculate(ShareLens(r)[n])]
           c == LocalCall(r, num)
<1>3. w \in [1..ShareSize -> Nat]
    BY <1>2, CalculateIsNat
<1>4. c.work = w /\ c.k = num /\ c.equal = FALSE
    BY <1>1 DEF LocalCall
<1> HIDE DEF w, c
<1>5. w \in Seq(Nat) /\ Len(w) = ShareSize
    BY <1>1, <1>3
<1>6. num \in Nat \ {0} /\ num <= ShareSize
    BY <1>1
<1> QED
    BY <1>4, <1>5, <1>6 DEF Admissible, c

LEMMA CeilingPositive ==
    ASSUME NEW s \in Nat \ {0}, NEW m \in Nat \ {0}
    PROVE  (s + m - 1) \div m \in Nat \ {0}
<1> DEFINE x == s + m - 1
<1>1. x \in Nat /\ x >= m
    OBVIOUS
<1> HIDE DEF x
<1>2. x \div m \in Nat /\ x % m \in 0..(m - 1) /\ x = m * (x \div m) + (x % m)
    BY <1>1
<1>3. x \div m # 0
    BY <1>1, <1>2
<1> QED
    BY <1>2, <1>3 DEF x

(* Every rank is asked for at least one micro-batch, and for no more than   *)
(* the rows of its share, also after the largest number has been agreed on. *)
LEMMA NeededFacts ==
    ASSUME lens \in Batches, Lists(batch, 1..Size), NEW r \in 1..Ranks
    PROVE  Needed(r) \in 1..ShareSize
<1> DEFINE F == ShareLens(r)
           sum == SumOf(F, DOMAIN F)
           most == (sum + MaxTokenLen - 1) \div MaxTokenLen
<1>1. ShareSize \in Nat \ {0} /\ MaxTokenLen \in Nat \ {0} /\ Len(Share(r)) = ShareSize
    BY ShareFacts, BatchFacts
<1>2. DOMAIN F = 1..ShareSize /\ \A n \in 1..ShareSize : F[n] \in Nat \ {0}
    BY ShareLensFacts
<1>3. Needed(r) = Min({ShareSize, most})
    BY <1>1 DEF Needed, MapThenSumSet, MapThenFoldSet, SumOf, SetSums, Picked
<1> HIDE DEF F
<1>4. sum \in Nat \ {0}
  <2>1. IsFiniteSet(DOMAIN F)
      BY <1>1, <1>2, IntervalFinite
  <2>2. SumOf(F, DOMAIN F) \in Nat /\ \A n \in DOMAIN F : F[n] <= SumOf(F, DOMAIN F)
      BY <1>2, <2>1, SumIsSum
  <2>3. 1 \in DOMAIN F /\ F[1] \in Nat \ {0}
      BY <1>1, <1>2
  <2> QED
      BY <2>2, <2>3
<1> HIDE DEF sum
<1>5. most \in Nat \ {0}
    BY <1>1, <1>4, CeilingPositive
<1> HIDE DEF most
<1>6. {ShareSize, most} \in SUBSET Nat /\ {ShareSize, most} # {}
    BY <1>1, <1>5
<1>7. Needed(r) \in {ShareSize, most} /\ Needed(r) <= ShareSize
    BY <1>3, <1>6, MinOfSet
<1> QED
    BY <1>1, <1>5, <1>7

LEMMA AgreedFacts ==
    ASSUME lens \in Batches, Lists(batch, 1..Size)
    PROVE  Agreed \in [1..Ranks -> 1..ShareSize]
<1> DEFINE S == {Needed(q) : q \in 1..Ranks}
<1>1. ShareSize \in Nat /\ Ranks \in Nat \ {0}
    BY BatchFacts
<1>2. S \subseteq 1..ShareSize /\ S # {}
    BY <1>1, NeededFacts
<1>3. Agreed = [r \in 1..Ranks |-> Max(S)]
    BY DEF Agreed
<1> HIDE DEF S
<1>4. S \in SUBSET Nat /\ \A x \in S : x <= ShareSize
    BY <1>1, <1>2
<1>5. Max(S) \in S
    BY <1>1, <1>2, <1>4, MaxOfSet
<1> QED
    BY <1>2, <1>3, <1>5

-----------------------------------------------------------------------------
(* The result of karmarkar_karp, as sets that share no item and leave none. *)
LEMMA PartitionFacts ==
    ASSUME ExactInv, Partitioned
    PROVE  /\ call.k \in Nat /\ DOMAIN Partition = 1..call.k
           /\ \A n \in 1..call.k : Partition[n] \in SUBSET Items(call) /\ Partition[n] # {}
           /\ \A m, n \in 1..call.k : m # n => Partition[m] \cap Partition[n] = {}
           /\ UNION {Partition[n] : n \in 1..call.k} = Items(call)
<1>1. PICK s : states = {s}
    BY FS_Singleton DEF Partitioned, ExactInv
<1>2. Admissible(call) /\ s \in [Positions(call) -> SetType(call)] /\ Dealt(call, {s}) /\ Filling(call, s)
    BY <1>1 DEF ExactInv, StatesInv
<1>3. call.k \in Nat /\ Positions(call) = 1..call.k
    BY <1>2, CallFacts
<1>4. DOMAIN Partition = 1..call.k /\ \A n \in 1..call.k : Partition[n] = s[n].items
    BY <1>1, <1>3 DEF Partition
<1>5. \A n \in 1..call.k : s[n].items \in SUBSET Items(call) /\ s[n].items # {}
    BY <1>2, <1>3, NoneEmpty DEF SetType
<1>6. ASSUME NEW m \in 1..call.k, NEW n \in 1..call.k, m # n PROVE s[m].items \cap s[n].items = {}
  <2>1. ASSUME NEW x \in s[m].items, x \in s[n].items PROVE FALSE
    <3>1. x \in Items(call)
        BY <1>5
    <3> QED
        BY <1>2, <1>3, <1>6, <2>1, <3>1, DealtApart
  <2> QED
      BY <2>1
<1>7. \A x \in Items(call) : \E n \in 1..call.k : x \in s[n].items
    BY <1>2, <1>3 DEF Dealt, Holds
<1>8. UNION {Partition[n] : n \in 1..call.k} = Items(call)
  <2>1. \A x \in Items(call) : \E n \in 1..call.k : x \in Partition[n]
      BY <1>4, <1>7
  <2>2. \A n \in 1..call.k : Partition[n] \in SUBSET Items(call)
      BY <1>4, <1>5
  <2> QED
      BY <2>1, <2>2
<1> QED
    BY <1>3, <1>4, <1>5, <1>6, <1>8

LEMMA ListsTyped == ASSUME NEW S, NEW T, S \subseteq T, NEW s, Lists(s, S) PROVE s \in Seq(T)
<1>1. Len(s) \in Nat /\ s \in [1..Len(s) -> S]
    BY ListSize
<1> QED
    BY <1>1

(* The order _balance_batch puts the rows in.                               *)
LEMMA OrderLists ==
    ASSUME ExactInv, Partitioned
    PROVE  Lists(FlattenSeq([r \in 1..call.k |-> SmallOutside(Partition[r])]), Items(call))
<1> DEFINE k == call.k
           P == Partition
           ss == [r \in 1..k |-> SmallOutside(P[r])]
<1>1. /\ k \in Nat
      /\ \A n \in 1..k : P[n] \in SUBSET Items(call)
      /\ \A m, n \in 1..k : m # n => P[m] \cap P[n] = {}
      /\ UNION {P[n] : n \in 1..k} = Items(call)
    BY PartitionFacts
<1>2. Admissible(call)
    BY DEF ExactInv, StatesInv
<1> HIDE DEF k, P
<1>3. ASSUME NEW r \in 1..k PROVE Lists(SmallOutside(P[r]), P[r]) /\ SmallOutside(P[r]) \in Seq(Items(call))
  <2>1. Lists(ByWork(P[r]), P[r])
      BY <1>1, <1>2, ByWorkLists
  <2>2. Lists(SmallOutside(P[r]), P[r])
      BY <2>1, OutsideLists DEF SmallOutside
  <2> QED
      BY <1>1, <2>2, ListsTyped
<1> DEFINE item(r) == SmallOutside(P[r])
<1>7. ss = [r \in 1..k |-> item(r)]
      /\ \A r \in 1..k : Lists(item(r), P[r]) /\ item(r) \in Seq(Items(call))
    BY <1>3
<1> HIDE DEF ss, item
<1>4. ss \in Seq(Seq(Items(call))) /\ Len(ss) = k
  <2>1. k \in Nat
      BY <1>1
  <2>2. ss \in [1..k -> Seq(Items(call))]
      BY <1>7
  <2> QED
      BY ONLY <2>1, <2>2
<1>8. \A r \in 1..k : Lists(ss[r], P[r])
    BY <1>7
<1>5. Lists(FlattenSeq(ss), UNION {P[n] : n \in 1..k})
  <2>1. k \in Nat /\ \A m, n \in 1..k : m # n => P[m] \cap P[n] = {}
      BY <1>1
  <2> QED
      BY ONLY <1>4, <1>8, <2>1, FlattenLists
<1>6. Lists(FlattenSeq(ss), Items(call))
    BY <1>1, <1>5
<1> QED
    BY <1>6 DEF ss, P, k

(* The micro-batches, put together, list the positions of the share.        *)
LEMMA MicroBatchesList ==
    ASSUME ExactInv, Partitioned
    PROVE  MicroBatches \in Seq(Seq(Items(call))) /\ Lists(FlattenSeq(MicroBatches), Items(call))
<1> DEFINE S == Range(Partition)
           order == SmallOutermost(LargestFirst(S))
           ss == [n \in 1..Len(order) |-> Ascending(order[n])]
<1>1. /\ call.k \in Nat /\ DOMAIN Partition = 1..call.k
      /\ \A n \in 1..call.k : Partition[n] \in SUBSET Items(call) /\ Partition[n] # {}
      /\ \A m, n \in 1..call.k : m # n => Partition[m] \cap Partition[n] = {}
      /\ UNION {Partition[n] : n \in 1..call.k} = Items(call)
    BY PartitionFacts
<1>2. Admissible(call) /\ Items(call) \in SUBSET Nat
    BY CallFacts DEF ExactInv, StatesInv
<1>3. S = {Partition[n] : n \in 1..call.k}
    BY <1>1 DEF Range
<1>4. IsFiniteSet(S)
  <2> DEFINE f == [n \in 1..call.k |-> Partition[n]]
  <2>1. IsFiniteSet(1..call.k)
      BY <1>1, IntervalFinite
  <2>2. f \in Surjection(1..call.k, S)
      BY <1>3 DEF Surjection
  <2> QED
      BY <2>1, <2>2, FS_Surjection
<1>5. \A p \in S : p \in SUBSET Items(call) /\ p # {}
    BY <1>1, <1>3
<1>6. \A p, q \in S : p # q => p \cap q = {}
    BY <1>1, <1>3
<1>7. UNION S = Items(call)
    BY <1>1, <1>3
<1>8. MicroBatches = ss
    BY DEF MicroBatches
<1> HIDE DEF S
<1>9. Lists(order, S)
    BY <1>2, <1>4, <1>5, <1>6, LargerLists, OutermostLists
<1> HIDE DEF order
<1>10. Len(order) \in Nat /\ order \in [1..Len(order) -> S]
    BY <1>9, ListSize
<1>11. ASSUME NEW n \in 1..Len(order)
       PROVE  /\ order[n] \in S /\ Lists(Ascending(order[n]), order[n])
              /\ Ascending(order[n]) \in Seq(Items(call))
  <2>1. order[n] \in S
      BY <1>10
  <2>2. order[n] \in SUBSET Items(call)
      BY <1>5, <2>1
  <2>3. IsFiniteSet(order[n]) /\ order[n] \in SUBSET Nat
      BY <1>2, <2>2, SubsetsFinite
  <2>4. Lists(Ascending(order[n]), order[n])
      BY <2>3, AscendingLists
  <2>5. Ascending(order[n]) \in Seq(Items(call))
      BY <2>2, <2>4, ListsTyped
  <2> QED
      BY <2>1, <2>4, <2>5
<1> DEFINE item(n) == Ascending(order[n])
<1>12. /\ ss = [n \in 1..Len(order) |-> item(n)]
       /\ \A n \in 1..Len(order) : Lists(item(n), order[n]) /\ item(n) \in Seq(Items(call))
    BY <1>11
<1> HIDE DEF ss, item
<1>13. ss \in Seq(Seq(Items(call))) /\ Len(ss) = Len(order)
       /\ \A n \in 1..Len(order) : Lists(ss[n], order[n])
    BY <1>10, <1>12
<1>14. \A m, n \in 1..Len(order) : m # n => order[m] \cap order[n] = {}
  <2>1. \A m, n \in 1..Len(order) : m # n => order[m] # order[n]
      BY <1>9 DEF Lists
  <2> QED
      BY <1>6, <1>11, <2>1
<1>15. Lists(FlattenSeq(ss), UNION {order[n] : n \in 1..Len(order)})
    BY <1>10, <1>13, <1>14, FlattenLists
<1>16. {order[n] : n \in 1..Len(order)} = S
    BY <1>9, <1>10 DEF Lists
<1> QED
    BY <1>7, <1>8, <1>13, <1>15, <1>16

-----------------------------------------------------------------------------
(* The padding of the prompts makes equal chunks, and is dropped again.     *)
LEMMA MultipleHasNoRest == ASSUME NEW w \in Nat \ {0}, NEW e \in Int PROVE (w * e) % w = 0
<1> DEFINE x == w * e
           q == x \div w
           r == x % w
<1>1. x \in Int
    OBVIOUS
<1>2. q \in Int /\ r \in 0..(w - 1) /\ x = w * q + r
  <2> HIDE DEF x
  <2> QED
      BY <1>1
<1>3. w * (e - q) = r
  <2>1. \A a, b, c \in Int : a * (b - c) = a * b - a * c
      OBVIOUS
  <2>2. w * (e - q) = w * e - w * q
    <3> HIDE DEF q
    <3> QED
        BY <1>2, <2>1
  <2>3. w * q \in Int
    <3> HIDE DEF q
    <3> QED
        BY <1>2
  <2> HIDE DEF q, r
  <2> QED
      BY <1>2, <2>2, <2>3
<1>4. \A a \in Nat \ {0}, b \in Int : a * b \in 0..(a - 1) => b = 0
  <2> TAKE a \in Nat \ {0}, b \in Int
  <2>1. b >= 1 => a * b >= a
      OBVIOUS
  <2>2. b <= -1 => a * b < 0
      OBVIOUS
  <2> QED
      BY <2>1, <2>2
<1> HIDE DEF q, r, x
<1>5. e - q \in Int
    BY <1>2
<1>6. e - q = 0
    BY <1>2, <1>3, <1>4, <1>5
<1>7. w * 0 = 0
    OBVIOUS
<1> QED
    BY <1>3, <1>6, <1>7 DEF r, x

LEMMA PaddedSize ==
    ASSUME NEW n \in Nat, NEW w \in Nat \ {0}
    PROVE  (-n) % w \in Nat /\ (n + ((-n) % w)) % w = 0
<1> DEFINE d == (-n) \div w
           m == (-n) % w
<1>1. d \in Int /\ m \in 0..(w - 1) /\ -n = w * d + m
    OBVIOUS
<1> HIDE DEF d, m
<1>2. n + m = w * (-d)
    BY <1>1
<1>3. -d \in Int
    BY <1>1
<1>4. (w * (-d)) % w = 0
    BY <1>3, MultipleHasNoRest
<1> QED
    BY <1>1, <1>2, <1>4 DEF m

LEMMA GatherKeepsOrder ==
    ASSUME lens \in Batches, Lists(batch, 1..Size)
    PROVE  SubSeq(FlattenSeq([w \in 1..Workers |-> Chunk(Padded, Workers, w)]), 1, Size) = batch
<1> DEFINE T == 1..Size
           m == (-Size) % Workers
           pad == [n \in 1..m |-> batch[((n - 1) % Size) + 1]]
<1>1. Size \in Nat \ {0} /\ Workers \in Nat \ {0}
    BY BatchFacts
<1>2. batch \in Seq(T) /\ Len(batch) = Size /\ \A n \in 1..Size : batch[n] \in T
    BY <1>1, ListedRows
<1>3. m \in Nat /\ (Size + m) % Workers = 0
    BY <1>1, PaddedSize
<1> HIDE DEF m, T
<1>4. \A n \in 1..m : ((n - 1) % Size) + 1 \in 1..Size
    BY <1>1, <1>3
<1>5. pad \in [1..m -> T]
    BY <1>2, <1>4
<1>6. Padded = batch \o pad
    BY DEF Padded, m
<1> HIDE DEF pad
<1>7. pad \in Seq(T) /\ Len(pad) = m
    BY <1>3, <1>5
<1>8. /\ Padded \in Seq(T) /\ Len(Padded) = Size + m
      /\ \A n \in 1..Size : Padded[n] = batch[n]
    BY <1>2, <1>6, <1>7, Joined
<1>9. FlattenSeq([w \in 1..Workers |-> Chunk(Padded, Workers, w)]) = Padded
  <2>1. Padded \in Seq(T) /\ Len(Padded) % Workers = 0 /\ Workers \in Nat \ {0}
      BY <1>1, <1>3, <1>8
  <2> QED
      BY ONLY <2>1, ChunksJoin
<1>10. /\ SubSeq(Padded, 1, Size) \in Seq(T) /\ Len(SubSeq(Padded, 1, Size)) = Size
       /\ \A n \in 1..Size : SubSeq(Padded, 1, Size)[n] = Padded[n]
    BY <1>1, <1>3, <1>8, SubSeqProperties
<1> DEFINE p == SubSeq(Padded, 1, Size)
<1> HIDE DEF p
<1>11. p = batch
  <2>1. p \in Seq(T) /\ Len(p) = Len(batch) /\ \A n \in 1..Len(p) : p[n] = batch[n]
      BY <1>2, <1>8, <1>10 DEF p
  <2> QED
      BY <1>2, <2>1, SeqEqual
<1> QED
    BY <1>9, <1>11 DEF p

(* A list in the order of another list.                                     *)
LEMMA Reordered ==
    ASSUME NEW m \in Nat, NEW s, Lists(s, 1..m), NEW order, Lists(order, 1..m)
    PROVE  Lists([n \in 1..m |-> s[order[n]]], 1..m)
<1>1. /\ s \in Seq(1..m) /\ Len(s) = m /\ \A n \in 1..m : s[n] \in 1..m
      /\ order \in Seq(1..m) /\ Len(order) = m /\ \A n \in 1..m : order[n] \in 1..m
    BY ListedRows
<1>2. order \in [1..m -> 1..m]
  <2>1. order \in [1..Len(order) -> 1..m]
      BY ListSize
  <2> QED
      BY ONLY <1>1, <2>1
<1>3. order \in Bijection(1..m, 1..m)
    BY <1>1, <1>2 DEF Lists, Bijection, Injection, Surjection, IsInjective
<1> DEFINE t == [n \in 1..m |-> s[order[n]]]
<1>4. t \in [1..m -> 1..m] /\ \A n \in 1..m : t[n] = s[order[n]]
    BY <1>1
<1> HIDE DEF t
<1>5. t \in Seq(1..m) /\ Len(t) = m
    BY <1>4
<1>6. Lists(t, 1..m)
  <2>1. Len(s) = m /\ \A n \in 1..m : t[n] = s[order[n]]
      BY <1>1, <1>4
  <2>2. m \in Nat /\ Lists(s, 1..m)
      OBVIOUS
  <2> QED
      BY ONLY <1>3, <1>5, <2>1, <2>2, Rearranged
<1> QED
    BY <1>6 DEF t

LEMMA FollowsNext ==
    ASSUME NEW T, NEW m \in Nat, NEW s \in Seq(T), Len(s) = m, NEW o \in Seq(T),
           NEW a \in Seq(1..m), NEW b \in Seq(1..m), Follows(o, s, a)
    PROVE  /\ o \o [n \in DOMAIN b |-> s[b[n]]] \in Seq(T)
           /\ Follows(o \o [n \in DOMAIN b |-> s[b[n]]], s, a \o b)
<1> DEFINE c == [n \in DOMAIN b |-> s[b[n]]]
           h == Len(a)
           g == Len(b)
<1>1. /\ h \in Nat /\ g \in Nat /\ DOMAIN b = 1..g
      /\ \A n \in 1..g : b[n] \in 1..m
      /\ \A n \in 1..m : s[n] \in T
    BY LenProperties, ElementOfSeq
<1>2. c \in [1..g -> T] /\ \A n \in 1..g : c[n] = s[b[n]]
    BY <1>1
<1> HIDE DEF c, h, g
<1>3. c \in Seq(T) /\ Len(c) = g
    BY <1>1, <1>2
<1>4. Len(o) = h /\ \A n \in 1..h : o[n] = s[a[n]]
    BY DEF Follows, h
<1>5. /\ o \o c \in Seq(T) /\ Len(o \o c) = h + g
      /\ \A n \in 1..h : (o \o c)[n] = o[n]
      /\ \A n \in (h + 1)..(h + g) : (o \o c)[n] = c[n - h]
  <2>1. /\ o \o c \in Seq(T) /\ Len(o \o c) = Len(o) + Len(c)
        /\ \A n \in 1..Len(o) : (o \o c)[n] = o[n]
        /\ \A n \in (Len(o) + 1)..(Len(o) + Len(c)) : (o \o c)[n] = c[n - Len(o)]
      BY <1>3, Joined
  <2>2. Len(o) = h /\ Len(c) = g
      BY <1>3, <1>4
  <2> QED
      BY ONLY <2>1, <2>2
<1>6. /\ Len(a \o b) = h + g
      /\ \A n \in 1..h : (a \o b)[n] = a[n]
      /\ \A n \in (h + 1)..(h + g) : (a \o b)[n] = b[n - h]
    BY Joined DEF h, g
<1>7. ASSUME NEW n \in 1..(h + g) PROVE (o \o c)[n] = s[(a \o b)[n]]
  <2>1. CASE n \in 1..h
      BY <1>4, <1>5, <1>6, <2>1
  <2>2. CASE n \in (h + 1)..(h + g)
    <3>1. n - h \in 1..g
        BY <1>1, <2>2
    <3> QED
        BY <1>2, <1>5, <1>6, <2>2, <3>1
  <2>3. n \in 1..h \/ n \in (h + 1)..(h + g)
      BY <1>1
  <2> QED
      BY <2>1, <2>2, <2>3
<1>8. Follows(o \o c, s, a \o b)
    BY <1>5, <1>6, <1>7 DEF Follows
<1> QED
    BY <1>5, <1>8 DEF c

(* get_reverse_idx undoes the order of the micro-batches.                   *)
Undone(o, f) == [n \in 1..Len(o) |-> o[CHOOSE m \in DOMAIN f : f[m] = n]]

LEMMA ReverseIndex ==
    ASSUME NEW T, NEW m \in Nat, NEW s \in Seq(T), Len(s) = m, NEW o, NEW f,
           Lists(f, 1..m), Follows(o, s, f)
    PROVE  Undone(o, f) = s
<1>1. Len(f) = m /\ DOMAIN f = 1..m
    BY ListedRows, LenProperties
<1>2. Len(o) = m /\ \A n \in 1..m : o[n] = s[f[n]]
    BY <1>1 DEF Follows
<1> DEFINE back(n) == CHOOSE l \in DOMAIN f : f[l] = n
<1>3. ASSUME NEW n \in 1..m PROVE back(n) \in 1..m /\ f[back(n)] = n
  <2>1. \E l \in DOMAIN f : f[l] = n
      BY <1>1 DEF Lists
  <2> QED
      BY <1>1, <2>1
<1> HIDE DEF back
<1>4. \A n \in 1..m : o[back(n)] = s[n]
    BY <1>2, <1>3
<1>5. s = [n \in 1..m |-> s[n]]
    BY LenProperties
<1>6. [n \in 1..m |-> o[back(n)]] = [n \in 1..m |-> s[n]]
    BY <1>4
<1>7. [n \in 1..Len(o) |-> o[back(n)]] = s
    BY <1>2, <1>5, <1>6
<1> QED
    BY <1>7 DEF back, Undone

-----------------------------------------------------------------------------
LEMMA BatchInitInv == BatchInit => BatchInv
<1> SUFFICES ASSUME BatchInit PROVE BatchInv
    OBVIOUS
<1>1. lens \in Batches
    BY DEF BatchInit
<1>2. Size \in Nat
    BY <1>1, BatchFacts
<1>3. Lists(batch, 1..Size)
  <2> DEFINE m == Size
  <2>1. m \in Nat /\ batch = [n \in 1..m |-> n]
      BY <1>2 DEF BatchInit
  <2> HIDE DEF m
  <2>2. batch \in Seq(1..m) /\ Len(batch) = m /\ \A n \in 1..m : batch[n] = n
      BY <2>1
  <2>3. Lists(batch, 1..m)
      BY <2>2 DEF Lists
  <2> QED
      BY <2>3 DEF m
<1>4. states = {} /\ stage = "rollout" /\ micros = <<>> /\ passes = 0
      /\ outputs = [r \in 1..Ranks |-> <<>>]
    BY DEF BatchInit
<1>5. StageInv
    BY <1>4 DEF StageInv, BatchInit
<1>6. MicrosInv
    BY <1>4, EmptySeq DEF MicrosInv
<1>7. OutputsInv
    BY <1>4, EmptySeq DEF OutputsInv
<1> QED
    BY <1>1, <1>3, <1>4, <1>5, <1>6, <1>7 DEF BatchInv

LEMMA SameInv ==
    BatchInv /\ UNCHANGED <<vars, rows, shares, stage, results>> => BatchInv'
<1> SUFFICES ASSUME BatchInv, UNCHANGED <<vars, rows, shares, stage, results>> PROVE BatchInv'
    OBVIOUS
<1>1. /\ call' = call /\ states' = states /\ lens' = lens /\ batch' = batch /\ stage' = stage
      /\ counts' = counts /\ micros' = micros /\ passes' = passes /\ outputs' = outputs
      /\ results' = results
    BY DEF vars, rows, shares
<1>2. StageInv'
    BY <1>1 DEF BatchInv, StageInv, Size, ShareSize
<1>3. MicrosInv'
    BY <1>1 DEF BatchInv, MicrosInv, Size, ShareSize
<1>4. OutputsInv'
    BY <1>1 DEF BatchInv, OutputsInv, Size, Share, Chunk, Passed
<1>5. states' # {} => ExactInv'
    BY <1>1 DEF BatchInv, ExactInv, StatesInv
<1> QED
    BY <1>1, <1>2, <1>3, <1>4, <1>5 DEF BatchInv, Size

(* The partition of a call that meets the assertions has begun.             *)
LEMMA CallBegun ==
    ASSUME Admissible(call'), states' = InitialStates(call')
    PROVE  ExactInv' /\ states' # {}
BY InitialExact DEF ExactInv, StatesInv

LEMMA GatherInv == BatchInv /\ Gather => BatchInv'
<1> SUFFICES ASSUME BatchInv, Gather PROVE BatchInv'
    OBVIOUS
<1>1. /\ lens' = lens /\ micros' = micros /\ passes' = passes /\ outputs' = outputs
      /\ stage = "rollout" /\ stage' = "balance"
    BY DEF Gather, shares
<1>2. lens \in Batches /\ Lists(batch, 1..Size)
    BY DEF BatchInv
<1>3. batch' = batch
    BY <1>2, GatherKeepsOrder DEF Gather
<1> DEFINE c == [work |-> [n \in 1..Size |-> Calculate(lens[batch[n]])], k |-> Ranks, equal |-> TRUE]
<1>4. call' = c /\ states' = InitialStates(call')
    BY <1>3 DEF Gather
<1>5. Admissible(c) /\ Len(c.work) = Size /\ c.k = Ranks
    BY <1>2, RowsCall
<1> HIDE DEF c
<1>6. ExactInv' /\ states' # {}
    BY <1>4, <1>5, CallBegun
<1>7. StageInv'
    BY <1>1, <1>4, <1>5, <1>6 DEF StageInv, Size
<1>8. MicrosInv'
    BY <1>1 DEF BatchInv, MicrosInv, Size, ShareSize
<1>9. OutputsInv'
    BY <1>1 DEF BatchInv, OutputsInv, Size
<1> QED
    BY <1>1, <1>2, <1>3, <1>6, <1>7, <1>8, <1>9 DEF BatchInv, Size

LEMMA MergeInv ==
    BatchInv /\ Merge /\ UNCHANGED <<rows, shares, stage, answered, results>> => BatchInv'
<1> SUFFICES ASSUME BatchInv, Merge, UNCHANGED <<rows, shares, stage, answered, results>>
             PROVE  BatchInv'
    OBVIOUS
<1>1. /\ lens' = lens /\ batch' = batch /\ stage' = stage /\ counts' = counts /\ micros' = micros
      /\ passes' = passes /\ outputs' = outputs /\ results' = results /\ call' = call
    BY DEF rows, shares, Merge
<1>2. states # {} /\ states' # {}
    BY DEF Merge, Replaced
<1>3. ExactInv'
    BY <1>2, ExactStep DEF BatchInv, Next
<1>4. StageInv'
    BY <1>1, <1>2 DEF BatchInv, StageInv, Size, ShareSize
<1>5. MicrosInv'
    BY <1>1 DEF BatchInv, MicrosInv, Size, ShareSize
<1>6. OutputsInv'
    BY <1>1 DEF BatchInv, OutputsInv, Size, Share, Chunk, Passed
<1> QED
    BY <1>1, <1>3, <1>4, <1>5, <1>6 DEF BatchInv, Size

LEMMA BalancedInv == BatchInv /\ Balanced => BatchInv'
<1> SUFFICES ASSUME BatchInv, Balanced PROVE BatchInv'
    OBVIOUS
<1>1. /\ lens' = lens /\ micros' = micros /\ passes' = passes /\ outputs' = outputs
      /\ stage = "balance" /\ stage' = "count" /\ states' = {} /\ Partitioned
    BY DEF Balanced, shares
<1>2. lens \in Batches /\ Lists(batch, 1..Size) /\ ExactInv /\ call.k = Ranks /\ Len(call.work) = Size
    BY <1>1 DEF BatchInv, StageInv
<1> DEFINE order == FlattenSeq([r \in 1..Ranks |-> SmallOutside(Partition[r])])
<1>3. Lists(order, 1..Size)
  <2>1. Items(call) = 1..Size
      BY <1>2, CallFacts DEF ExactInv, StatesInv
  <2> QED
      BY <1>1, <1>2, <2>1, OrderLists
<1>4. batch' = [n \in 1..Size |-> batch[order[n]]]
    BY DEF Balanced
<1> HIDE DEF order
<1>5. Size \in Nat
    BY <1>2, BatchFacts
<1>6. Lists(batch', 1..Size)
    BY <1>2, <1>3, <1>4, <1>5, Reordered
<1>7. StageInv'
    BY <1>1 DEF StageInv
<1>8. MicrosInv'
    BY <1>1 DEF BatchInv, MicrosInv, Size, ShareSize
<1>9. OutputsInv'
    BY <1>1 DEF BatchInv, OutputsInv, Size
<1> QED
    BY <1>1, <1>2, <1>6, <1>7, <1>8, <1>9 DEF BatchInv, Size

LEMMA CountInv == BatchInv /\ Count => BatchInv'
<1> SUFFICES ASSUME BatchInv, Count PROVE BatchInv'
    OBVIOUS
<1>1. /\ lens' = lens /\ batch' = batch /\ micros' = micros /\ passes' = passes /\ outputs' = outputs
      /\ stage = "count" /\ stage' = "split" /\ counts' = Agreed
      /\ call' = LocalCall(1, counts'[1]) /\ states' = InitialStates(call')
    BY DEF Count, rows
<1>2. lens \in Batches /\ Lists(batch, 1..Size) /\ micros = <<>>
    BY <1>1 DEF BatchInv, MicrosInv
<1>3. Agreed \in [1..Ranks -> 1..ShareSize] /\ Ranks \in Nat \ {0}
    BY <1>2, AgreedFacts, BatchFacts
<1>4. Admissible(call') /\ Len(call'.work) = ShareSize
  <2>1. 1 \in 1..Ranks /\ counts'[1] \in 1..ShareSize
      BY <1>1, <1>3
  <2> QED
      BY <1>1, <1>2, <2>1, LocalCallFacts
<1>5. ExactInv' /\ states' # {}
    BY <1>1, <1>4, CallBegun
<1>6. ShareSize' = ShareSize
    BY <1>1 DEF ShareSize, Size
<1>7. StageInv'
    BY <1>1, <1>3, <1>4, <1>5, <1>6 DEF StageInv
<1>8. MicrosInv'
    BY <1>1, <1>2, <1>3, <1>6 DEF BatchInv, MicrosInv
<1>9. OutputsInv'
    BY <1>1 DEF BatchInv, OutputsInv, Size
<1> QED
    BY <1>1, <1>2, <1>5, <1>7, <1>8, <1>9 DEF BatchInv, Size

LEMMA SplitInv == BatchInv /\ Split => BatchInv'
<1> SUFFICES ASSUME BatchInv, Split PROVE BatchInv'
    OBVIOUS
<1>1. /\ lens' = lens /\ batch' = batch /\ counts' = counts /\ passes' = passes /\ outputs' = outputs
      /\ stage = "split" /\ Partitioned /\ micros' = Append(micros, MicroBatches)
    BY DEF Split, rows
<1>2. /\ lens \in Batches /\ Lists(batch, 1..Size) /\ ExactInv
      /\ Len(call.work) = ShareSize /\ counts \in [1..Ranks -> 1..ShareSize]
      /\ micros \in Seq(Seq(Seq(1..ShareSize))) /\ Len(micros) < Ranks
      /\ \A r \in 1..Len(micros) : Lists(FlattenSeq(micros[r]), 1..ShareSize)
    BY <1>1 DEF BatchInv, StageInv, MicrosInv
<1>3. Ranks \in Nat /\ ShareSize \in Nat
    BY <1>2, BatchFacts
<1>4. ShareSize' = ShareSize
    BY <1>1 DEF ShareSize, Size
<1>5. MicroBatches \in Seq(Seq(1..ShareSize)) /\ Lists(FlattenSeq(MicroBatches), 1..ShareSize)
  <2>1. Items(call) = 1..ShareSize
      BY <1>2, CallFacts DEF ExactInv, StatesInv
  <2> QED
      BY <1>1, <1>2, <2>1, MicroBatchesList
<1>6. /\ micros' \in Seq(Seq(Seq(1..ShareSize))) /\ Len(micros') = Len(micros) + 1
      /\ Len(micros) \in Nat
      /\ \A r \in 1..Len(micros) : micros'[r] = micros[r]
      /\ micros'[Len(micros) + 1] = MicroBatches
    BY <1>1, <1>2, <1>5, AppendProperties, LenProperties
<1>7. \A r \in 1..Len(micros') : Lists(FlattenSeq(micros'[r]), 1..ShareSize)
  <2> TAKE r \in 1..Len(micros')
  <2>1. r \in 1..Len(micros) \/ r = Len(micros) + 1
      BY <1>6
  <2> QED
      BY <1>2, <1>5, <1>6, <2>1
<1>8. CASE Len(micros') < Ranks
  <2>1. /\ call' = LocalCall(Len(micros') + 1, counts[Len(micros') + 1])
        /\ states' = InitialStates(call') /\ stage' = stage
      BY <1>8 DEF Split
  <2>2. Len(micros') + 1 \in 1..Ranks
      BY <1>3, <1>6, <1>8
  <2>3. Admissible(call') /\ Len(call'.work) = ShareSize
    <3>1. counts[Len(micros') + 1] \in 1..ShareSize
        BY <1>2, <2>2
    <3> QED
        BY <1>2, <2>1, <2>2, <3>1, LocalCallFacts
  <2>4. ExactInv' /\ states' # {}
      BY <2>1, <2>3, CallBegun
  <2>5. StageInv'
      BY <1>1, <1>2, <1>4, <2>1, <2>3, <2>4 DEF StageInv
  <2>6. MicrosInv'
      BY <1>1, <1>4, <1>6, <1>7, <1>8, <2>1 DEF MicrosInv
  <2>7. OutputsInv'
      BY <1>1, <2>1 DEF BatchInv, OutputsInv, Size
  <2> QED
      BY <1>1, <1>2, <2>4, <2>5, <2>6, <2>7 DEF BatchInv, Size
<1>9. CASE ~(Len(micros') < Ranks)
  <2>1. states' = {} /\ stage' = "forward" /\ Len(micros') = Ranks
      BY <1>2, <1>3, <1>6, <1>9 DEF Split
  <2>2. StageInv'
      BY <2>1 DEF StageInv
  <2>3. MicrosInv'
      BY <1>4, <1>6, <1>7, <2>1 DEF MicrosInv
  <2>4. passes = 0 /\ outputs \in [1..Ranks -> Seq(1..Size)] /\ \A r \in 1..Ranks : outputs[r] = <<>>
      BY <1>1 DEF BatchInv, OutputsInv
  <2>5. ASSUME NEW r \in 1..Ranks
        PROVE  passes' <= Len(micros'[r]) /\ Follows(outputs'[r], Share(r)', Passed(r)')
    <3>1. micros'[r] \in Seq(Seq(1..ShareSize))
        BY <1>6, <2>1, ElementOfSeq
    <3>2. Len(micros'[r]) \in Nat /\ FlattenSeq(SubSeq(micros'[r], 1, 0)) = <<>>
        BY <3>1, FlattenSteps
    <3>3. Passed(r)' = <<>> /\ outputs'[r] = <<>>
        BY <1>1, <2>4, <3>2 DEF Passed
    <3>4. Follows(<<>>, Share(r)', <<>>)
        BY EmptySeq DEF Follows
    <3> QED
        BY <1>1, <2>4, <3>2, <3>3, <3>4
  <2>6. OutputsInv'
      BY <1>1, <2>1, <2>4, <2>5 DEF OutputsInv, Size
  <2> QED
      BY <1>1, <1>2, <2>1, <2>2, <2>3, <2>6 DEF BatchInv, Size
<1> QED
    BY <1>8, <1>9

LEMMA ForwardInv == BatchInv /\ Forward => BatchInv'
<1> SUFFICES ASSUME BatchInv, Forward PROVE BatchInv'
    OBVIOUS
<1>1. /\ call' = call /\ states' = states /\ lens' = lens /\ batch' = batch /\ counts' = counts
      /\ micros' = micros /\ results' = results /\ stage = "forward" /\ stage' = stage
      /\ passes' = passes + 1 /\ \A r \in 1..Ranks : passes < Len(micros[r])
    BY DEF Forward, vars, rows
<1>2. /\ lens \in Batches /\ Lists(batch, 1..Size) /\ states = {}
      /\ micros \in Seq(Seq(Seq(1..ShareSize))) /\ Len(micros) = Ranks
      /\ passes \in Nat /\ outputs \in [1..Ranks -> Seq(1..Size)]
      /\ \A r \in 1..Ranks : Follows(outputs[r], Share(r), Passed(r))
    BY <1>1 DEF BatchInv, StageInv, MicrosInv, OutputsInv
<1> DEFINE mb(r) == micros[r][passes + 1]
           next(r) == outputs[r] \o [n \in DOMAIN mb(r) |-> Share(r)[mb(r)[n]]]
<1>3. outputs' = [r \in 1..Ranks |-> next(r)]
    BY DEF Forward
<1>4. ASSUME NEW r \in 1..Ranks
      PROVE  /\ next(r) \in Seq(1..Size) /\ passes + 1 <= Len(micros[r])
             /\ Follows(next(r), Share(r), FlattenSeq(SubSeq(micros[r], 1, passes + 1)))
  <2>1. micros[r] \in Seq(Seq(1..ShareSize))
      BY <1>2, ElementOfSeq
  <2>2. Len(micros[r]) \in Nat /\ passes \in 0..(Len(micros[r]) - 1) /\ passes + 1 \in 1..Len(micros[r])
      BY <1>1, <1>2, <2>1, LenProperties
  <2>3. mb(r) \in Seq(1..ShareSize)
      BY <2>1, <2>2, ElementOfSeq
  <2>4. /\ FlattenSeq(SubSeq(micros[r], 1, passes)) \in Seq(1..ShareSize)
        /\ FlattenSeq(SubSeq(micros[r], 1, passes + 1)) = FlattenSeq(SubSeq(micros[r], 1, passes)) \o mb(r)
      BY <2>1, <2>2, FlattenSteps
  <2>5. Passed(r) \in Seq(1..ShareSize) /\ FlattenSeq(SubSeq(micros[r], 1, passes + 1)) = Passed(r) \o mb(r)
      BY <2>4 DEF Passed
  <2>6. Share(r) \in Seq(1..Size) /\ Len(Share(r)) = ShareSize /\ ShareSize \in Nat
      BY <1>2, ShareFacts, BatchFacts
  <2>7. outputs[r] \in Seq(1..Size) /\ Follows(outputs[r], Share(r), Passed(r))
      BY <1>2
  <2> DEFINE b == mb(r)
  <2> HIDE DEF b
  <2>8. /\ outputs[r] \o [n \in DOMAIN b |-> Share(r)[b[n]]] \in Seq(1..Size)
        /\ Follows(outputs[r] \o [n \in DOMAIN b |-> Share(r)[b[n]]], Share(r), Passed(r) \o b)
      BY <2>3, <2>5, <2>6, <2>7, FollowsNext DEF b
  <2> DEFINE more == outputs[r] \o [n \in DOMAIN b |-> Share(r)[b[n]]]
  <2>9. next(r) = more
      BY DEF b
  <2>10. FlattenSeq(SubSeq(micros[r], 1, passes + 1)) = Passed(r) \o b
      BY <2>5 DEF b
  <2>11. more \in Seq(1..Size) /\ Follows(more, Share(r), Passed(r) \o b)
      BY <2>8
  <2> HIDE DEF next, mb, more
  <2>12. next(r) \in Seq(1..Size) /\ Follows(next(r), Share(r), Passed(r) \o b)
      BY <2>9, <2>11
  <2>13. passes + 1 <= Len(micros[r])
      BY <2>2
  <2> QED
      BY <2>10, <2>12, <2>13
<1> HIDE DEF next, mb
<1>5. outputs' \in [1..Ranks -> Seq(1..Size)] /\ \A r \in 1..Ranks : outputs'[r] = next(r)
    BY <1>3, <1>4
<1>6. ASSUME NEW r \in 1..Ranks
      PROVE  Share(r)' = Share(r) /\ Passed(r)' = FlattenSeq(SubSeq(micros[r], 1, passes + 1))
    BY <1>1 DEF Share, Chunk, Passed
<1>7. OutputsInv'
  <2>1. passes' \in Nat
      BY <1>1, <1>2
  <2>2. \A r \in 1..Ranks : passes' <= Len(micros'[r]) /\ Follows(outputs'[r], Share(r)', Passed(r)')
      BY <1>1, <1>4, <1>5, <1>6
  <2> QED
      BY <1>1, <1>5, <2>1, <2>2 DEF OutputsInv, Size
<1>8. StageInv'
    BY <1>1, <1>2 DEF StageInv
<1>9. MicrosInv'
    BY <1>1 DEF BatchInv, MicrosInv, Size, ShareSize
<1> QED
    BY <1>1, <1>2, <1>7, <1>8, <1>9 DEF BatchInv, Size

LEMMA CollectInv == BatchInv /\ Collect => BatchInv'
<1> SUFFICES ASSUME BatchInv, Collect PROVE BatchInv'
    OBVIOUS
<1>1. /\ call' = call /\ states' = states /\ lens' = lens /\ batch' = batch /\ counts' = counts
      /\ micros' = micros /\ passes' = passes /\ outputs' = outputs /\ stage = "forward" /\ stage' = "done"
      /\ \A r \in 1..Ranks : passes = Len(micros[r])
      /\ results' = FlattenSeq([r \in 1..Ranks |-> Restored(r)])
    BY DEF Collect, vars, rows, shares
<1>2. /\ lens \in Batches /\ Lists(batch, 1..Size) /\ states = {}
      /\ micros \in Seq(Seq(Seq(1..ShareSize))) /\ Len(micros) = Ranks
      /\ \A r \in 1..Ranks : Lists(FlattenSeq(micros[r]), 1..ShareSize)
      /\ \A r \in 1..Ranks : Follows(outputs[r], Share(r), Passed(r))
    BY <1>1 DEF BatchInv, StageInv, MicrosInv, OutputsInv
<1>3. ASSUME NEW r \in 1..Ranks PROVE Restored(r) = Share(r)
  <2>1. micros[r] \in Seq(Seq(1..ShareSize))
      BY <1>2, ElementOfSeq
  <2>2. Passed(r) = FlattenSeq(micros[r])
      BY <1>1, <2>1, FlattenSteps DEF Passed
  <2>3. Share(r) \in Seq(1..Size) /\ Len(Share(r)) = ShareSize /\ ShareSize \in Nat
      BY <1>2, ShareFacts, BatchFacts
  <2> DEFINE f == FlattenSeq(micros[r])
             o == outputs[r]
  <2>4. Lists(f, 1..ShareSize) /\ Follows(o, Share(r), f)
      BY <1>2, <2>2
  <2>5. Restored(r) = Undone(o, f)
      BY DEF Restored, Undone
  <2> HIDE DEF f, o
  <2> QED
      BY <2>3, <2>4, <2>5, ReverseIndex
<1>4. results' = batch
  <2>1. [r \in 1..Ranks |-> Restored(r)] = [r \in 1..Ranks |-> Share(r)]
      BY <1>3
  <2> QED
      BY <1>1, <1>2, <2>1, ShareFacts
<1>5. StageInv'
    BY <1>1, <1>2, <1>4 DEF StageInv
<1>6. MicrosInv'
    BY <1>1 DEF BatchInv, MicrosInv, Size, ShareSize
<1>7. OutputsInv'
    BY <1>1 DEF BatchInv, OutputsInv, Size, Share, Chunk, Passed
<1> QED
    BY <1>1, <1>2, <1>5, <1>6, <1>7 DEF BatchInv, Size

LEMMA BatchStepInv == BatchInv /\ [BatchNext]_batchVars => BatchInv'
<1> SUFFICES ASSUME BatchInv, [BatchNext]_batchVars PROVE BatchInv'
    OBVIOUS
<1>1. ASSUME NEW w \in 1..Workers, WorkerAnswers(w) PROVE BatchInv'
    BY <1>1, SameInv DEF WorkerAnswers
<1>2. CASE RanksWait \/ UNCHANGED batchVars
    BY <1>2, SameInv DEF RanksWait, batchVars
<1> QED
    BY <1>1, <1>2, GatherInv, MergeInv, BalancedInv, CountInv, SplitInv, ForwardInv, CollectInv
       DEF BatchNext

LEMMA BatchInvImplies == BatchInv => ResultsAreOwn /\ PartitionIsExact
<1> SUFFICES ASSUME BatchInv PROVE ResultsAreOwn /\ PartitionIsExact
    OBVIOUS
<1>1. Len(batch) = Size /\ Range(batch) = 1..Size
  <2>1. Lists(batch, 1..Size) /\ Size \in Nat
      BY BatchFacts DEF BatchInv
  <2>2. batch \in Seq(1..Size) /\ Len(batch) = Size /\ DOMAIN batch = 1..Size
        /\ \A n \in 1..Size : batch[n] \in 1..Size
      BY <2>1, ListedRows, LenProperties
  <2>3. \A x \in 1..Size : \E n \in 1..Size : batch[n] = x
      BY <2>1, <2>2 DEF Lists
  <2> QED
      BY <2>2, <2>3 DEF Range
<1>2. stage = "done" => results = batch
    BY DEF BatchInv, StageInv
<1>3. PartitionIsExact
    BY ExactInvImplies DEF BatchInv, PartitionIsExact
<1> QED
    BY <1>1, <1>2, <1>3 DEF ResultsAreOwn

(* generate_sequences, _balance_batch, rearrange_micro_batches and          *)
(* restore_dynamic_batch, for any batch and any numbers of workers and      *)
(* ranks: every prompt is in the batch once, whatever the padding, and the  *)
(* result of a row was computed from that row, through the two reorderings  *)
(* and the two distributions.                                               *)
THEOREM ResultsAlwaysOwn == BatchSpec => []ResultsAreOwn
BY BatchInitInv, BatchStepInv, BatchInvImplies, PTL DEF BatchSpec

(* The calls the trainer and the ranks make of karmarkar_karp: each meets   *)
(* its assertions, so that the result is a partition without empty sets.    *)
THEOREM PathPartitionsExactly == BatchSpec => []PartitionIsExact
BY BatchInitInv, BatchStepInv, BatchInvImplies, PTL DEF BatchSpec

(* And no merge of theirs makes the worst spread worse.                     *)
THEOREM PathMergingBalances == BatchSpec => MergingBalances
<1>1. BatchInv /\ [BatchNext]_batchVars
      => [call' = call /\ Cardinality(states') < Cardinality(states) =>
              \A m \in states' : \E s \in states : Spread(call, m) <= Spread(call, s)]_vars
  <2> SUFFICES ASSUME BatchInv, [BatchNext]_batchVars, ~UNCHANGED vars,
                      Cardinality(states') < Cardinality(states), NEW m \in states'
               PROVE  \E s \in states : Spread(call, m) <= Spread(call, s)
      OBVIOUS
  <2>1. CASE Merge
    <3>1. StatesInv /\ [Next]_vars
        BY <2>1 DEF BatchInv, ExactInv, Next, Merge
    <3>2. call' = call
        BY <2>1 DEF Merge
    <3> QED
        BY <3>1, <3>2, StepBalances
  <2>2. CASE ~Merge
    <3>1. Gather \/ Count \/ Split
        BY <2>2 DEF BatchNext, WorkerAnswers, Balanced, Forward, Collect, RanksWait, batchVars, vars
    <3>2. states = {} \/ Cardinality(states) = 1
        BY <3>1 DEF BatchInv, StageInv, Gather, Count, Split, Partitioned
    <3>3. IsFiniteSet(states')
        BY BatchStepInv DEF BatchInv, ExactInv
    <3>4. Cardinality(states') \in Nat /\ Cardinality(states') # 0
        BY <3>3, FS_CardinalityType, FS_EmptySet
    <3> QED
        BY <3>2, <3>4, FS_EmptySet
  <2> QED
      BY <2>1, <2>2
<1> QED
    BY <1>1, BatchInitInv, BatchStepInv, PTL DEF BatchSpec, MergingBalances

===============================================================================
