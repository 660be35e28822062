--------------------------- MODULE SeqlenBalancing ---------------------------
(***************************************************************************)
(* karmarkar_karp: items with a workload are partitioned into k sets of    *)
(* about the same sum, by the largest differencing method.  Every state of *)
(* the heap is a partial partition into k sets; the two states of the      *)
(* largest spread are merged, large sets with small ones, until one state  *)
(* is left.                                                                *)
(*                                                                         *)
(* A set keeps its sum and its items.  Sets are disjoint, so that of the   *)
(* order of the items in two lists only their first ones decide.           *)
(***************************************************************************)
EXTENDS Integers, Sequences, FiniteSets, Functions

CONSTANT Calls  \* the calls of get_seqlen_balanced_partitions

(* The assertions of get_seqlen_balanced_partitions and karmarkar_karp.     *)
Admissible(c) ==
    /\ c.work \in Seq(Nat) /\ c.k \in Nat \ {0} /\ c.equal \in BOOLEAN
    /\ Len(c.work) >= c.k
    /\ c.equal => Len(c.work) % c.k = 0

ASSUME CallsAssumption == \A c \in Calls : Admissible(c)

VARIABLES
    call,   \* the arguments: seqlen_list, k_partitions, equal_size
    states  \* states_pq, which holds no two equal states

vars == <<call, states>>

Items(c) == DOMAIN c.work
Positions(c) == 1..c.k

(* A Set: no item, or one; first is the item its list begins with.          *)
NoItem == [sum |-> 0, items |-> {}, first |-> 0]
OneItem(c, n) == [sum |-> c.work[n], items |-> {n}, first |-> n]

Merged(a, b) ==
    [sum |-> a.sum + b.sum, items |-> a.items \cup b.items,
     first |-> IF a.items = {} THEN b.first ELSE a.first]

(* Set.__lt__.                                                              *)
Less(a, b) ==
    \/ a.sum < b.sum
    \/ a.sum = b.sum /\ Cardinality(a.items) < Cardinality(b.items)
    \/ a.sum = b.sum /\ Cardinality(a.items) = Cardinality(b.items) /\ a.first < b.first

(* sorted(sets, reverse=True), as the rearrangements of f in that order.    *)
Sortings(c, f) ==
    {s \in {[n \in Positions(c) |-> f[p[n]]] : p \in Bijection(Positions(c), Positions(c))} :
        \A m, n \in Positions(c) : m < n => ~Less(s[m], s[n])}

(* sorted((seqlen, i)): an item's place in it is the number of those before. *)
Before(c, i, j) ==
    \/ c.work[i] < c.work[j]
    \/ c.work[i] = c.work[j] /\ i < j
Rank(c, i) == Cardinality({j \in Items(c) : Before(c, j, i)})
Nth(c, n) == CHOOSE i \in Items(c) : Rank(c, i) = n - 1

(* One state for every k items in that order, or one for every item.        *)
Groups(c) == 0..(Len(c.work) \div c.k - 1)
GroupOf(c, g) == [n \in Positions(c) |-> OneItem(c, Nth(c, g * c.k + n))]
ItemAlone(c, n) == [m \in Positions(c) |-> IF m = 1 THEN OneItem(c, n) ELSE NoItem]

InitialStates(c) ==
    IF c.equal
    THEN {[n \in Positions(c) |-> GroupOf(c, g)[c.k + 1 - n]] : g \in Groups(c)}
    ELSE {ItemAlone(c, n) : n \in Items(c)}

Spread(c, s) == s[1].sum - s[c.k].sum

(* State.__lt__: s leaves the heap before t.                                *)
PopsBefore(c, s, t) ==
    \/ Spread(c, s) > Spread(c, t)
    \/ Spread(c, s) = Spread(c, t) /\ Less(t[1], s[1])

(* The i-th largest set of one state with the i-th smallest of the other.   *)
Mut_SameEnd(c, s, t) == [n \in Positions(c) |-> Merged(s[n], t[n])]
Combined(c, s, t) == [n \in Positions(c) |-> Merged(s[n], t[c.k + 1 - n])]

Mut_Overwritten(s0, s1, m) == (states \ {s0}) \cup {m}
Replaced(s0, s1, m) == (states \ {s0, s1}) \cup {m}

Merge ==
    /\ \E s0, s1 \in states :
           /\ s0 # s1
           /\ \A t \in states \ {s0} : PopsBefore(call, s0, t)
           /\ \A t \in states \ {s0, s1} : PopsBefore(call, s1, t)
           /\ \E m \in Sortings(call, Combined(call, s0, s1)) :
                  states' = Replaced(s0, s1, m)
    /\ UNCHANGED call

Partitioned == Cardinality(states) = 1
Idle == Partitioned /\ UNCHANGED vars

Init == call \in Calls /\ states = InitialStates(call)
Next == Merge \/ Idle
Spec == Init /\ [][Next]_vars

(* The result, the largest set first.                                       *)
Partition == LET s == CHOOSE t \in states : TRUE
             IN  [n \in Positions(call) |-> s[n].items]

-----------------------------------------------------------------------------
TypeOK ==
    /\ call \in Calls
    /\ \A s \in states :
           s \in [Positions(call) -> [sum : Nat, items : SUBSET Items(call), first : Nat]]

(* Throughout, every item is in exactly one set of one state; at the end no *)
(* set is empty, and with equal_size all sets have the same number of       *)
(* items: the assertions behind karmarkar_karp never fail.                  *)
PartitionIsExact ==
    states # {} =>
        /\ \A n \in Items(call) :
               \E s \in states, m \in Positions(call) :
                   /\ n \in s[m].items
                   /\ \A t \in states, l \in Positions(call) : n \in t[l].items => t = s /\ l = m
        /\ Partitioned => \A n \in Positions(call) : Partition[n] # {}
        /\ Partitioned /\ call.equal =>
               \A n \in Positions(call) : Cardinality(Partition[n]) * call.k = Len(call.work)

(* A merge never yields a spread larger than the largest there was: the     *)
(* result is as balanced as the worst of the sets it was put together from. *)
MergingBalances ==
    [][call' = call /\ Cardinality(states') < Cardinality(states) =>
          \A m \in states' : \E s \in states : Spread(call, m) <= Spread(call, s)]_vars
==============================================================================
