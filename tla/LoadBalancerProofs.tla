------------------------- MODULE LoadBalancerProofs -------------------------
(***************************************************************************)
(* For every number of servers and every finite set of conversations: the  *)
(* slot accounting, the routing cache and the stickiness of its routes, the*)
(* fair share of a server that is picked, and that only a failed           *)
(* conversation leaves a generation behind.                                *)
(***************************************************************************)
EXTENDS LoadBalancer, FiniteSetTheorems, SequenceTheorems, TLAPS

(* The part of the type invariant the accounting rests on: it says nothing  *)
(* of the routing cache, whose contents only select a server.               *)
SlotTypes ==
    /\ inflight \in [Servers -> Nat]
    /\ route \in [Conversations -> Servers]
    /\ releases \in [Servers -> Nat]
    /\ pc \in [Conversations -> PcStates]
    /\ held \in [Conversations -> Servers]
    /\ job \in [Conversations -> JobStates]

IInv == SlotTypes /\ InflightAccounting

(* The holders of a server are finitely many, before and after a step.      *)
LEMMA HoldersFinite ==
    \A s \in Servers :
        /\ IsFiniteSet(Holders(s)) /\ Cardinality(Holders(s)) \in Nat
        /\ IsFiniteSet(Holders(s)') /\ Cardinality(Holders(s)') \in Nat
<1> SUFFICES ASSUME NEW s \in Servers
             PROVE  /\ IsFiniteSet(Holders(s)) /\ Cardinality(Holders(s)) \in Nat
                    /\ IsFiniteSet(Holders(s)') /\ Cardinality(Holders(s)') \in Nat
    OBVIOUS
<1>1. Holders(s) \subseteq Conversations /\ Holders(s)' \subseteq Conversations
    BY DEF Holders
<1>2. IsFiniteSet(Holders(s)) /\ IsFiniteSet(Holders(s)')
    BY <1>1, FS_Subset, ConstantsAssumption
<1> QED
    BY <1>2, FS_CardinalityType

(* A conversation that holds nothing is granted server s.                   *)
LEMMA HoldersGrow ==
    ASSUME SlotTypes, NEW c \in Conversations, NEW s \in Servers,
           pc[c] \notin HoldingStates, NEW st \in HoldingStates,
           pc' = [pc EXCEPT ![c] = st], held' = [held EXCEPT ![c] = s]
    PROVE  \A t \in Servers : Cardinality(Holders(t)') =
               Cardinality(Holders(t)) + (IF t = s THEN 1 ELSE 0)
<1> SUFFICES ASSUME NEW t \in Servers
             PROVE  Cardinality(Holders(t)') = Cardinality(Holders(t)) + (IF t = s THEN 1 ELSE 0)
    OBVIOUS
<1>1. CASE t = s
  <2>1. Holders(t)' = Holders(t) \cup {c} /\ c \notin Holders(t)
      BY <1>1 DEF Holders, SlotTypes
  <2> QED
      BY <1>1, <2>1, HoldersFinite, FS_AddElement
<1>2. CASE t # s
  <2>1. Holders(t)' = Holders(t)
      BY <1>2 DEF Holders, SlotTypes
  <2> QED
      BY <1>2, <2>1, HoldersFinite
<1> QED
    BY <1>1, <1>2

(* A conversation that holds its server leaves the holding states.          *)
LEMMA HoldersShrink ==
    ASSUME SlotTypes, NEW c \in Conversations,
           pc[c] \in HoldingStates, NEW st \in PcStates \ HoldingStates,
           pc' = [pc EXCEPT ![c] = st], held' = held
    PROVE  \A t \in Servers : Cardinality(Holders(t)) =
               Cardinality(Holders(t)') + (IF t = held[c] THEN 1 ELSE 0)
<1> SUFFICES ASSUME NEW t \in Servers
             PROVE  Cardinality(Holders(t)) = Cardinality(Holders(t)') + (IF t = held[c] THEN 1 ELSE 0)
    OBVIOUS
<1>1. CASE t = held[c]
  <2>1. Holders(t)' = Holders(t) \ {c} /\ c \in Holders(t)
      BY <1>1 DEF Holders, SlotTypes
  <2>2. Cardinality(Holders(t) \ {c}) = Cardinality(Holders(t)) - 1
      BY <2>1, HoldersFinite, FS_RemoveElement
  <2> QED
      BY <1>1, <2>1, <2>2, HoldersFinite
<1>2. CASE t # held[c]
  <2>1. Holders(t)' = Holders(t)
      BY <1>2 DEF Holders, SlotTypes
  <2> QED
      BY <1>2, <2>1, HoldersFinite
<1> QED
    BY <1>1, <1>2

(* The finally clause turns one holder into one release under way.          *)
LEMMA LeavePreserves ==
    ASSUME IInv, NEW c \in Conversations, pc[c] \in HoldingStates,
           NEW next \in {"ready", "failed"}, Leave(c, next), UNCHANGED job
    PROVE  IInv'
<1> USE DEF IInv
<1>1. next \in PcStates \ HoldingStates
    BY DEF PcStates, HoldingStates
<1>2. SlotTypes'
    BY <1>1 DEF SlotTypes, Leave, lbVars
<1>3. \A t \in Servers : Cardinality(Holders(t)) =
          Cardinality(Holders(t)') + (IF t = held[c] THEN 1 ELSE 0)
    BY <1>1, HoldersShrink DEF Leave
<1>4. InflightAccounting'
  <2> SUFFICES ASSUME NEW s \in Servers
               PROVE  inflight'[s] = Cardinality(Holders(s)') + releases'[s]
      BY DEF InflightAccounting
  <2>1. inflight[s] = Cardinality(Holders(s)) + releases[s]
      BY DEF InflightAccounting
  <2>2. Cardinality(Holders(s)') \in Nat /\ Cardinality(Holders(s)) \in Nat
      BY HoldersFinite
  <2>3. Cardinality(Holders(s)) = Cardinality(Holders(s)') + (IF s = held[c] THEN 1 ELSE 0)
      BY <1>3
  <2>4. inflight'[s] = inflight[s]
      BY DEF Leave, lbVars
  <2>5. releases'[s] = releases[s] + (IF s = held[c] THEN 1 ELSE 0) /\ releases[s] \in Nat
      BY DEF Leave, SlotTypes
  <2> QED
      BY <2>1, <2>2, <2>3, <2>4, <2>5
<1> QED
    BY <1>2, <1>4

(* A step that moves a conversation between two states of the same kind and *)
(* touches neither counter keeps the accounting.                            *)
LEMMA QuietPreserves ==
    ASSUME IInv, SlotTypes', UNCHANGED <<inflight, releases, held>>,
           \A c \in Conversations : pc'[c] \in HoldingStates <=> pc[c] \in HoldingStates
    PROVE  IInv'
<1>1. \A s \in Servers : Holders(s)' = Holders(s)
    BY DEF Holders
<1> QED
    BY <1>1 DEF IInv, InflightAccounting

(* acquire_server adds one count and one holder to the same server.         *)
LEMMA AcquirePreserves ==
    ASSUME IInv, NEW c \in Conversations, AcquireServer(c)
    PROVE  IInv'
<1> USE DEF IInv
<1>1. PICK s \in Servers :
          /\ inflight' = [inflight EXCEPT ![s] = @ + 1]
          /\ route' = [route EXCEPT ![c] = s]
          /\ held' = [held EXCEPT ![c] = s]
    BY DEF AcquireServer
<1>2. /\ pc[c] \notin HoldingStates /\ "granted" \in HoldingStates
      /\ pc' = [pc EXCEPT ![c] = "granted"] /\ UNCHANGED <<releases, job>>
    BY DEF AcquireServer, HoldingStates
<1>3. SlotTypes'
    BY <1>1, <1>2 DEF SlotTypes, PcStates
<1>4. \A t \in Servers : Cardinality(Holders(t)') =
          Cardinality(Holders(t)) + (IF t = s THEN 1 ELSE 0)
    BY <1>1, <1>2, HoldersGrow
<1>5. InflightAccounting'
  <2> SUFFICES ASSUME NEW t \in Servers
               PROVE  inflight'[t] = Cardinality(Holders(t)') + releases'[t]
      BY DEF InflightAccounting
  <2>1. inflight[t] = Cardinality(Holders(t)) + releases[t]
      BY DEF InflightAccounting
  <2>2. Cardinality(Holders(t)') \in Nat /\ Cardinality(Holders(t)) \in Nat
      BY HoldersFinite
  <2> QED
      BY <1>1, <1>2, <1>4, <2>1, <2>2 DEF SlotTypes
<1> QED
    BY <1>3, <1>5

(* release_server takes one count and one release under way from the same   *)
(* server; the accounting says that there is a count to take.               *)
LEMMA ReleasePreserves ==
    ASSUME IInv, NEW s \in Servers, ReleaseServer(s)
    PROVE  IInv'
<1> USE DEF IInv
<1>1. \A t \in Servers : Holders(t)' = Holders(t)
    BY DEF ReleaseServer, Holders
<1>2. inflight[s] > 0 /\ ~(inflight[s] <= 0)
  <2>1. inflight[s] = Cardinality(Holders(s)) + releases[s] /\ Cardinality(Holders(s)) \in Nat
      BY HoldersFinite DEF InflightAccounting
  <2> QED
      BY <2>1 DEF ReleaseServer, SlotTypes
<1>3. inflight' = [inflight EXCEPT ![s] = inflight[s] - 1] /\ releases' = [releases EXCEPT ![s] = releases[s] - 1]
    BY <1>2, Zenon DEF ReleaseServer
<1>4. SlotTypes'
    BY <1>2, <1>3 DEF ReleaseServer, SlotTypes
<1>5. InflightAccounting'
  <2> SUFFICES ASSUME NEW t \in Servers
               PROVE  inflight'[t] = Cardinality(Holders(t)') + releases'[t]
      BY DEF InflightAccounting
  <2>1. inflight[t] = Cardinality(Holders(t)) + releases[t] /\ Cardinality(Holders(t)) \in Nat
      BY HoldersFinite DEF InflightAccounting
  <2> QED
      BY <1>1, <1>2, <1>3, <2>1 DEF SlotTypes
<1> QED
    BY <1>4, <1>5

(* The counters of the balancer always equal the slots still held plus the  *)
(* releases under way, for any number of servers, conversations and turns,  *)
(* with or without timeouts.                                                *)
THEOREM Accounting == Spec => []IInv
<1>1. Init => IInv
  <2> SUFFICES ASSUME Init PROVE IInv
      OBVIOUS
  <2>1. SlotTypes
      BY ConstantsAssumption DEF Init, SlotTypes, Servers, PcStates, JobStates
  <2>2. \A s \in Servers : Holders(s) = {}
      BY DEF Init, Holders, HoldingStates
  <2>3. InflightAccounting
    <3> SUFFICES ASSUME NEW s \in Servers
                 PROVE  inflight[s] = Cardinality(Holders(s)) + releases[s]
        BY DEF InflightAccounting
    <3>1. Cardinality(Holders(s)) = 0
        BY <2>2, FS_EmptySet
    <3> QED
        BY <3>1 DEF Init
  <2> QED
      BY <2>1, <2>3 DEF IInv
<1>2. IInv /\ [Next]_vars => IInv'
  <2> SUFFICES ASSUME IInv, [Next]_vars PROVE IInv'
      OBVIOUS
  <2>0. SlotTypes
      BY DEF IInv
  <2>1. ASSUME NEW c \in Conversations, AcquireServer(c) PROVE IInv'
      BY <2>1, AcquirePreserves
  <2>2. ASSUME NEW s \in Servers, ReleaseServer(s) PROVE IInv'
      BY <2>2, ReleasePreserves
  <2>3. ASSUME NEW c \in Conversations, CallAcquire(c) \/ Finish(c) PROVE IInv'
      BY <2>0, <2>3, QuietPreserves
         DEF CallAcquire, Finish, SlotTypes, lbVars, PcStates, HoldingStates, JobStates
  <2>4. ASSUME NEW c \in Conversations, Submit(c) \/ TimeOut(c) \/ AbortRequest(c) PROVE IInv'
      BY <2>0, <2>4, QuietPreserves
         DEF Submit, TimeOut, AbortRequest, SlotTypes, lbVars, PcStates, HoldingStates,
             JobStates, FinishedJob
  <2>5. ASSUME NEW c \in Conversations, Answer(c) \/ Drain(c) PROVE IInv'
      BY <2>5, LeavePreserves DEF Answer, Drain, HoldingStates
  <2>6. ASSUME NEW c \in Conversations, Register(c) \/ Reject(c) \/ Complete(c) PROVE IInv'
      BY <2>0, <2>6, QuietPreserves
         DEF Register, Reject, Complete, SetJob, SlotTypes, lbVars, JobStates, FinishedJob
  <2>7. CASE UNCHANGED vars
      BY <2>0, <2>7, QuietPreserves DEF vars, SlotTypes
  <2> QED
      BY <2>1, <2>2, <2>3, <2>4, <2>5, <2>6, <2>7 DEF Next, Client, Server, Idle
<1> QED
    BY <1>1, <1>2, PTL DEF Spec

(* The slot ledger of the balancer balances in every reachable state.       *)
THEOREM AccountingInvariant == Spec => []InflightAccounting
<1>1. IInv => InflightAccounting
    BY DEF IInv
<1> QED
    BY <1>1, Accounting, PTL

(* The "no inflight requests" error of release_server cannot happen.        *)
THEOREM NoSpuriousRelease == Spec => []ReleaseNeverRaises
<1>1. IInv => ReleaseNeverRaises
    BY HoldersFinite DEF IInv, SlotTypes, InflightAccounting, ReleaseNeverRaises
<1> QED
    BY <1>1, Accounting, PTL

-----------------------------------------------------------------------------
(* The lists of the cache: a position is dropped, that of the key read, or  *)
(* the first when a full cache takes a new key, and c goes to the end.      *)
RefreshedAt(c, i) ==
    /\ i \in 1..(Len(cache) + 1)
    /\ cache' \in Seq(Conversations)
    /\ Len(cache') = IF i <= Len(cache) THEN Len(cache) ELSE Len(cache) + 1
    /\ Len(cache') <= MaxCacheSize
    /\ cache'[Len(cache')] = c
    /\ \A j \in 1..(Len(cache') - 1) : cache'[j] = cache[IF j < i THEN j ELSE j + 1]
    /\ \/ i <= Len(cache) /\ cache[i] = c
       \/ ~Cached(c) /\ i = Len(cache) + 1
       \/ ~Cached(c) /\ i = 1 /\ Len(cache) = MaxCacheSize

CacheType == cache \in Seq(Conversations) /\ Len(cache) <= MaxCacheSize

LEMMA TouchedRefreshes ==
    ASSUME CacheType, NEW c \in Conversations, Cached(c), cache' = Touched(c)
    PROVE  \E i \in Nat : RefreshedAt(c, i)
<1> DEFINE i == CHOOSE j \in DOMAIN cache : cache[j] = c
<1>1. i \in 1..Len(cache) /\ cache[i] = c /\ Len(cache) \in Nat
    BY LenProperties DEF Cached, CacheType
<1>2. cache' = Append(Without(cache, i), c)
    BY DEF Touched
<1> HIDE DEF i
<1>3. \A k \in 1..Len(cache) : cache[k] \in Conversations
    BY ElementOfSeq DEF CacheType
<1> DEFINE a == SubSeq(cache, 1, i - 1)
           b == SubSeq(cache, i + 1, Len(cache))
<1>4. /\ a \in Seq(Conversations) /\ Len(a) = i - 1
      /\ \A k \in 1..(i - 1) : a[k] = cache[k]
  <2> DEFINE m == i - 1
  <2>1. m \in Nat /\ \A k \in 1..m : cache[k] \in Conversations
      BY <1>1, <1>3
  <2> HIDE DEF m
  <2>2. /\ SubSeq(cache, 1, m) \in Seq(Conversations)
        /\ Len(SubSeq(cache, 1, m)) = IF 1 <= m THEN m - 1 + 1 ELSE 0
        /\ \A k \in 1..(m - 1 + 1) : SubSeq(cache, 1, m)[k] = cache[1 + k - 1]
      BY <2>1, SubSeqProperties
  <2>3. Len(SubSeq(cache, 1, m)) = m /\ \A k \in 1..m : SubSeq(cache, 1, m)[k] = cache[k]
      BY <2>1, <2>2
  <2> QED
      BY <2>2, <2>3 DEF m
<1>5. /\ b \in Seq(Conversations) /\ Len(b) = Len(cache) - i
      /\ \A k \in 1..(Len(cache) - i) : b[k] = cache[i + k]
  <2> DEFINE m == i + 1
             z == Len(cache)
  <2>1. m \in Int /\ z \in Int /\ \A k \in m..z : cache[k] \in Conversations
      BY <1>1, <1>3
  <2>2. m = i + 1 /\ z = Len(cache) /\ i \in 1..z
      BY <1>1
  <2> HIDE DEF m, z
  <2>3. /\ SubSeq(cache, m, z) \in Seq(Conversations)
        /\ Len(SubSeq(cache, m, z)) = IF m <= z THEN z - m + 1 ELSE 0
        /\ \A k \in 1..(z - m + 1) : SubSeq(cache, m, z)[k] = cache[m + k - 1]
      BY <2>1, SubSeqProperties
  <2>4. /\ Len(SubSeq(cache, m, z)) = z - i
        /\ \A k \in 1..(z - i) : SubSeq(cache, m, z)[k] = cache[i + k]
      BY <2>1, <2>2, <2>3
  <2> QED
      BY <2>3, <2>4 DEF m, z
<1> HIDE DEF a, b
<1>6. /\ a \o b \in Seq(Conversations) /\ Len(a \o b) = Len(cache) - 1
      /\ \A k \in 1..(Len(cache) - 1) : (a \o b)[k] = cache[IF k < i THEN k ELSE k + 1]
  <2>1. a \o b \in Seq(Conversations) /\ Len(a \o b) = Len(cache) - 1
      BY <1>1, <1>4, <1>5
  <2>2. ASSUME NEW k \in 1..(Len(cache) - 1) PROVE (a \o b)[k] = cache[IF k < i THEN k ELSE k + 1]
    <3>1. CASE k < i
      <4>1. k \in 1..(i - 1)
          BY <1>1, <3>1
      <4>2. (a \o b)[k] = a[k]
          BY <1>4, <1>5, <4>1
      <4> QED
          BY <1>4, <3>1, <4>1, <4>2
    <3>2. CASE k >= i
      <4>1. /\ k - (i - 1) \in 1..(Len(cache) - i) /\ i + (k - (i - 1)) = k + 1
            /\ k \in i..(Len(cache) - 1)
          BY <1>1, <3>2
      <4>2. (a \o b)[k] = b[k - (i - 1)]
          BY <1>1, <1>4, <1>5, <4>1
      <4>3. b[k - (i - 1)] = cache[k + 1]
          BY <1>5, <4>1
      <4> QED
          BY <1>1, <3>2, <4>2, <4>3
    <3>3. k < i \/ k >= i
        BY <1>1
    <3> QED
        BY <3>1, <3>2, <3>3, Zenon
  <2> QED
      BY <2>1, <2>2
<1>7. cache' = Append(a \o b, c)
    BY <1>2 DEF Without, a, b
<1> DEFINE w == a \o b
<1>8. /\ w \in Seq(Conversations) /\ Len(w) = Len(cache) - 1 /\ cache' = Append(w, c)
      /\ \A k \in 1..(Len(cache) - 1) : w[k] = cache[IF k < i THEN k ELSE k + 1]
    BY <1>6, <1>7
<1> HIDE DEF w
<1>9. /\ cache' \in Seq(Conversations) /\ Len(cache') = Len(cache) /\ cache'[Len(cache)] = c
      /\ \A k \in 1..(Len(cache) - 1) : cache'[k] = w[k]
    BY <1>1, <1>8, AppendProperties
<1>10. RefreshedAt(c, i)
    BY <1>1, <1>8, <1>9 DEF RefreshedAt, CacheType
<1> QED
    BY <1>1, <1>10

LEMMA InsertedRefreshes ==
    ASSUME CacheType, NEW c \in Conversations, ~Cached(c), cache' = Inserted(c)
    PROVE  \E i \in Nat : RefreshedAt(c, i)
<1>0. Len(cache) \in Nat /\ MaxCacheSize \in Nat \ {0}
    BY LenProperties, ConstantsAssumption DEF CacheType
<1>1. CASE Len(cache) >= MaxCacheSize
  <2>1. cache # <<>> /\ cache \in Seq(Conversations) /\ Len(cache) = MaxCacheSize
      BY <1>0, <1>1 DEF CacheType
  <2> DEFINE w == Tail(cache)
  <2>2. /\ w \in Seq(Conversations) /\ Len(w) = Len(cache) - 1
        /\ \A k \in 1..(Len(cache) - 1) : w[k] = cache[k + 1]
      BY <2>1, HeadTailProperties
  <2>3. cache' = Append(w, c)
      BY <1>1 DEF Inserted
  <2> HIDE DEF w
  <2>4. /\ cache' \in Seq(Conversations) /\ Len(cache') = Len(cache) /\ cache'[Len(cache)] = c
        /\ \A k \in 1..(Len(cache) - 1) : cache'[k] = w[k]
      BY <1>0, <2>2, <2>3, AppendProperties
  <2>5. RefreshedAt(c, 1)
      BY <1>0, <2>1, <2>2, <2>4 DEF RefreshedAt
  <2> QED
      BY <2>5
<1>2. CASE Len(cache) < MaxCacheSize
  <2>1. cache' = Append(cache, c)
      BY <1>0, <1>2 DEF Inserted
  <2>2. /\ cache' \in Seq(Conversations) /\ Len(cache') = Len(cache) + 1
        /\ cache'[Len(cache) + 1] = c
        /\ \A k \in 1..Len(cache) : cache'[k] = cache[k]
      BY <2>1, AppendProperties DEF CacheType
  <2>3. RefreshedAt(c, Len(cache) + 1)
      BY <1>0, <1>2, <2>2 DEF RefreshedAt
  <2> QED
      BY <1>0, <2>3
<1> QED
    BY <1>0, <1>1, <1>2

-----------------------------------------------------------------------------
(* The invariant of the routing cache.  It is ordered by use: whoever       *)
(* stands behind a key acquired after that key's conversation last did.     *)
(* A conversation that acquired and lost its key was passed by as many      *)
(* others as the cache holds.                                               *)
Acquired(c) == turns[c] > 1 \/ (turns[c] = 1 /\ pc[c] # "acquiring")

ByUse ==
    \A i, j \in 1..Len(cache) :
        i < j => cache[i] # cache[j] /\ cache[j] \in since[cache[i]]

RoutingTypes ==
    /\ CacheType
    /\ since \in [Conversations -> SUBSET Conversations]
    /\ turns \in [Conversations -> Nat]
    /\ pc \in [Conversations -> PcStates]
    /\ held \in [Conversations -> Servers]
    /\ route = held

(* A conversation that has acquired is in the cache, or as many others as   *)
(* the cache holds have acquired since.                                     *)
Routing ==
    /\ RoutingTypes
    /\ ByUse
    /\ \A c \in Conversations : pc[c] # "ready" => turns[c] > 0
    /\ \A c \in Conversations : Cached(c) => Acquired(c)
    /\ \A c \in Conversations :
           Acquired(c) /\ ~Cached(c) => Cardinality(since[c]) >= MaxCacheSize

(* A set of conversations has a size.                                       *)
LEMMA SizeOfConversations ==
    \A S \in SUBSET Conversations : IsFiniteSet(S) /\ Cardinality(S) \in Nat
BY FS_Subset, FS_CardinalityType, ConstantsAssumption

(* What acquire_server(c) does to the cache and the history.                *)
LEMMA AcquireRefreshes ==
    ASSUME Routing, NEW c \in Conversations, AcquireServer(c)
    PROVE  /\ \E i \in Nat : RefreshedAt(c, i)
           /\ since' = [d \in Conversations |-> IF d = c THEN {} ELSE since[d] \cup {c}]
           /\ \E s \in Servers : /\ route' = [route EXCEPT ![c] = s]
                                 /\ held' = [held EXCEPT ![c] = s]
                                 /\ Cached(c) => s = route[c]
           /\ pc[c] = "acquiring" /\ pc' = [pc EXCEPT ![c] = "granted"]
           /\ UNCHANGED turns
<1>1. /\ since' = [d \in Conversations |-> IF d = c THEN {} ELSE since[d] \cup {c}]
      /\ \E s \in Servers : /\ route' = [route EXCEPT ![c] = s]
                            /\ held' = [held EXCEPT ![c] = s]
                            /\ Cached(c) => s = route[c]
      /\ pc[c] = "acquiring" /\ pc' = [pc EXCEPT ![c] = "granted"]
      /\ UNCHANGED turns
    BY DEF AcquireServer
<1>2. cache' = IF Cached(c) THEN Touched(c) ELSE Inserted(c)
    BY DEF AcquireServer
<1>3. \E i \in Nat : RefreshedAt(c, i)
    BY <1>2, TouchedRefreshes, InsertedRefreshes DEF Routing, RoutingTypes
<1> QED
    BY <1>1, <1>3

LEMMA AcquireKeepsOrder ==
    ASSUME Routing, NEW c \in Conversations, AcquireServer(c), NEW i \in Nat, RefreshedAt(c, i)
    PROVE  ByUse'
<1>0. /\ Len(cache) \in Nat /\ Len(cache') \in Nat /\ i \in 1..(Len(cache) + 1)
      /\ Len(cache') = IF i <= Len(cache) THEN Len(cache) ELSE Len(cache) + 1
      /\ cache'[Len(cache')] = c
    BY LenProperties DEF Routing, RoutingTypes, CacheType, RefreshedAt
<1> DEFINE e(j) == IF j < i THEN j ELSE j + 1
<1>1. ASSUME NEW j \in 1..(Len(cache') - 1)
      PROVE  e(j) \in 1..Len(cache) /\ e(j) # i /\ cache'[j] = cache[e(j)]
    BY <1>0, <1>1 DEF RefreshedAt
<1>2. \A j, k \in 1..(Len(cache') - 1) : j < k => e(j) < e(k)
    BY <1>0
<1>3. \A j \in 1..Len(cache) : cache[j] \in Conversations
    BY ElementOfSeq DEF Routing, RoutingTypes, CacheType
<1>4. \A j \in 1..Len(cache) : j # i => cache[j] # c
  <2>1. CASE Cached(c)
    <3>1. i \in 1..Len(cache) /\ cache[i] = c
        BY <1>0, <2>1 DEF RefreshedAt
    <3>2. \A j \in 1..Len(cache) : j # i => j < i \/ i < j
        BY <1>0
    <3> QED
        BY <3>1, <3>2 DEF Routing, ByUse
  <2>2. CASE ~Cached(c)
      BY <2>2, LenProperties DEF Cached, Routing, RoutingTypes, CacheType
  <2> QED
      BY <2>1, <2>2
<1>5. since' = [d \in Conversations |-> IF d = c THEN {} ELSE since[d] \cup {c}]
    BY DEF AcquireServer
<1> HIDE DEF e
<1> SUFFICES ASSUME NEW j \in 1..Len(cache'), NEW k \in 1..Len(cache'), j < k
             PROVE  cache'[j] # cache'[k] /\ cache'[k] \in since'[cache'[j]]
    BY DEF ByUse
<1>6. /\ j \in 1..(Len(cache') - 1) /\ e(j) \in 1..Len(cache) /\ cache'[j] = cache[e(j)]
      /\ cache[e(j)] # c /\ cache[e(j)] \in Conversations
  <2>1. j \in 1..(Len(cache') - 1)
      BY <1>0
  <2> QED
      BY <2>1, <1>1, <1>3, <1>4
<1>7. since'[cache'[j]] = since[cache[e(j)]] \cup {c}
    BY <1>5, <1>6
<1>8. CASE k = Len(cache')
    BY <1>0, <1>6, <1>7, <1>8
<1>9. CASE k \in 1..(Len(cache') - 1)
  <2>1. e(k) \in 1..Len(cache) /\ cache'[k] = cache[e(k)] /\ e(j) < e(k)
      BY <1>1, <1>2, <1>6, <1>9
  <2>2. cache[e(j)] # cache[e(k)] /\ cache[e(k)] \in since[cache[e(j)]]
      BY <1>6, <2>1 DEF Routing, ByUse
  <2> QED
      BY <1>6, <1>7, <2>1, <2>2
<1> QED
    BY <1>0, <1>8, <1>9

(* The key that makes room was passed by all the others and by the new one. *)
LEMMA EvictedWasPassed ==
    ASSUME Routing, NEW c \in Conversations, AcquireServer(c), RefreshedAt(c, 1),
           ~Cached(c), Len(cache) = MaxCacheSize
    PROVE  Cardinality(since'[cache[1]]) >= MaxCacheSize
<1> DEFINE d == cache[1]
           f == [k \in 1..MaxCacheSize |-> IF k < MaxCacheSize THEN cache[k + 1] ELSE c]
<1>0. MaxCacheSize \in Nat \ {0}
    BY ConstantsAssumption
<1>1. \A j \in 1..MaxCacheSize : cache[j] \in Conversations /\ cache[j] # c
    BY ElementOfSeq, LenProperties DEF Routing, RoutingTypes, CacheType, Cached
<1>2. since'[d] = since[d] \cup {c} /\ d \in Conversations /\ d # c
    BY <1>0, <1>1 DEF AcquireServer
<1>3. \A j, k \in 1..MaxCacheSize : j < k => cache[j] # cache[k] /\ cache[k] \in since[cache[j]]
    BY DEF Routing, ByUse
<1>4. f \in [1..MaxCacheSize -> since'[d]]
  <2> SUFFICES ASSUME NEW k \in 1..MaxCacheSize, k < MaxCacheSize PROVE cache[k + 1] \in since[d]
      BY <1>2
  <2>1. 1 \in 1..MaxCacheSize /\ k + 1 \in 1..MaxCacheSize /\ 1 < k + 1
      BY <1>0
  <2> QED
      BY <1>3, <2>1
<1>5. ASSUME NEW j \in 1..MaxCacheSize, NEW k \in 1..MaxCacheSize, f[j] = f[k] PROVE j = k
  <2>1. ASSUME NEW x \in 1..MaxCacheSize, NEW y \in 1..MaxCacheSize, x < y PROVE f[x] # f[y]
    <3>1. f[x] = cache[x + 1] /\ x + 1 \in 1..MaxCacheSize
        BY <1>0, <2>1
    <3>2. CASE y < MaxCacheSize
      <4>1. f[y] = cache[y + 1] /\ y + 1 \in 1..MaxCacheSize /\ x + 1 < y + 1
          BY <1>0, <2>1, <3>2
      <4> QED
          BY <1>3, <3>1, <4>1
    <3>3. CASE y = MaxCacheSize
        BY <1>0, <1>1, <3>1, <3>3
    <3> QED
        BY <1>0, <3>2, <3>3
  <2> QED
      BY <1>0, <1>5, <2>1
<1>6. f \in Injection(1..MaxCacheSize, since'[d])
    BY <1>4, <1>5 DEF Injection, IsInjective
<1>7. IsFiniteSet(since'[d]) /\ Cardinality(since'[d]) \in Nat
  <2>1. since'[d] \in SUBSET Conversations
      BY <1>2 DEF Routing, RoutingTypes
  <2> QED
      BY <2>1, SizeOfConversations
<1> HIDE DEF f, d
<1>8. Cardinality(1..MaxCacheSize) <= Cardinality(since'[d])
    BY <1>6, <1>7, FS_Injection
<1>9. Cardinality(1..MaxCacheSize) = MaxCacheSize
    BY <1>0, FS_Interval
<1> QED
    BY <1>0, <1>7, <1>8, <1>9 DEF d

LEMMA AcquireKeepsRouting ==
    ASSUME Routing, NEW c \in Conversations, AcquireServer(c)
    PROVE  Routing'
<1>1. PICK i \in Nat : RefreshedAt(c, i)
    BY AcquireRefreshes
<1>2. /\ pc[c] = "acquiring" /\ pc' = [pc EXCEPT ![c] = "granted"] /\ UNCHANGED turns
      /\ since' = [d \in Conversations |-> IF d = c THEN {} ELSE since[d] \cup {c}]
    BY AcquireRefreshes
<1>3. PICK s \in Servers : route' = [route EXCEPT ![c] = s] /\ held' = [held EXCEPT ![c] = s]
    BY AcquireRefreshes
<1>4. /\ Len(cache) \in Nat /\ Len(cache') \in Nat /\ i \in 1..(Len(cache) + 1)
      /\ Len(cache') = IF i <= Len(cache) THEN Len(cache) ELSE Len(cache) + 1
      /\ DOMAIN cache = 1..Len(cache) /\ DOMAIN cache' = 1..Len(cache')
    BY <1>1, LenProperties DEF RefreshedAt, Routing, RoutingTypes, CacheType
<1>5. RoutingTypes'
  <2>1. CacheType'
      BY <1>1 DEF RefreshedAt, CacheType
  <2>2. since' \in [Conversations -> SUBSET Conversations]
      BY <1>2 DEF Routing, RoutingTypes
  <2>3. pc' \in [Conversations -> PcStates] /\ turns' \in [Conversations -> Nat]
      BY <1>2 DEF Routing, RoutingTypes, PcStates, HoldingStates
  <2>4. held' \in [Conversations -> Servers] /\ route' = held'
      BY <1>3 DEF Routing, RoutingTypes
  <2> QED
      BY <2>1, <2>2, <2>3, <2>4 DEF RoutingTypes
<1>6. ByUse'
    BY <1>1, AcquireKeepsOrder
<1>7. \A d \in Conversations : pc'[d] # "ready" => turns'[d] > 0
    BY <1>2 DEF Routing, RoutingTypes
<1>8. /\ Acquired(c)'
      /\ \A d \in Conversations : d # c => (Acquired(d)' <=> Acquired(d))
  <2>1. turns[c] > 0 /\ turns[c] \in Nat
      BY <1>2 DEF Routing, RoutingTypes
  <2>2. pc'[c] = "granted" /\ \A d \in Conversations : d # c => pc'[d] = pc[d]
      BY <1>2 DEF Routing, RoutingTypes
  <2> QED
      BY <1>2, <2>1, <2>2 DEF Acquired
<1>9. Cached(c)'
    BY <1>1, <1>4 DEF Cached, RefreshedAt
<1>10. ASSUME NEW d \in Conversations, d # c, Cached(d)' PROVE Cached(d)
  <2>1. PICK j \in 1..Len(cache') : cache'[j] = d
      BY <1>4, <1>10 DEF Cached
  <2>2. j \in 1..(Len(cache') - 1)
      BY <1>1, <1>4, <1>10, <2>1 DEF RefreshedAt
  <2>3. d = cache[IF j < i THEN j ELSE j + 1]
      BY <1>1, <2>1, <2>2 DEF RefreshedAt
  <2>4. (IF j < i THEN j ELSE j + 1) \in 1..Len(cache)
      BY <1>4, <2>2
  <2> QED
      BY <1>4, <2>3, <2>4 DEF Cached
<1>11. ASSUME NEW d \in Conversations, Acquired(d)', ~Cached(d)'
       PROVE  Cardinality(since'[d]) >= MaxCacheSize
  <2>1. d # c /\ Acquired(d) /\ since'[d] = since[d] \cup {c}
      BY <1>2, <1>8, <1>9, <1>11
  <2>2. CASE ~Cached(d)
    <3>1. Cardinality(since[d]) >= MaxCacheSize
        BY <2>1, <2>2 DEF Routing
    <3>2. since[d] \in SUBSET since'[d] /\ since'[d] \in SUBSET Conversations
        BY <2>1 DEF Routing, RoutingTypes
    <3>3. since[d] \in SUBSET Conversations
        BY <3>2
    <3>4. IsFiniteSet(since'[d]) /\ Cardinality(since[d]) \in Nat /\ Cardinality(since'[d]) \in Nat
        BY <3>2, <3>3, SizeOfConversations
    <3>5. Cardinality(since[d]) <= Cardinality(since'[d])
        BY <3>2, <3>4, FS_Subset
    <3> QED
        BY <3>1, <3>4, <3>5, ConstantsAssumption
  <2>3. CASE Cached(d)
    <3>1. PICK p \in 1..Len(cache) : cache[p] = d
        BY <1>4, <2>3 DEF Cached
    <3>2. p = i
      <4>1. CASE p < i
        <5>1. p \in 1..(Len(cache') - 1)
            BY <1>4, <4>1
        <5>2. cache'[p] = d /\ p \in DOMAIN cache'
            BY <1>1, <1>4, <3>1, <4>1, <5>1 DEF RefreshedAt
        <5> QED
            BY <1>11, <5>2 DEF Cached
      <4>2. CASE p > i
        <5>1. p - 1 \in 1..(Len(cache') - 1) /\ ~(p - 1 < i) /\ p - 1 + 1 = p
            BY <1>4, <4>2
        <5>2. cache'[p - 1] = cache[p] /\ p - 1 \in DOMAIN cache'
            BY <1>1, <1>4, <5>1 DEF RefreshedAt
        <5> QED
            BY <1>11, <3>1, <5>2 DEF Cached
      <4> QED
          BY <1>4, <4>1, <4>2
    <3>3. i = 1 /\ ~Cached(c) /\ Len(cache) = MaxCacheSize
        BY <1>1, <1>4, <2>1, <3>1, <3>2 DEF RefreshedAt
    <3>4. RefreshedAt(c, 1)
        BY <1>1, <3>3
    <3> QED
        BY <3>1, <3>2, <3>3, <3>4, EvictedWasPassed
  <2> QED
      BY <2>2, <2>3
<1>12. \A d \in Conversations : Cached(d)' => Acquired(d)'
    BY <1>8, <1>10 DEF Routing
<1> QED
    BY <1>5, <1>6, <1>7, <1>11, <1>12 DEF Routing

(* Nobody else touches the cache, and acquiring is the only way to have     *)
(* acquired.                                                                *)
LEMMA OthersKeepRouting ==
    ASSUME Routing, NEW c \in Conversations, NEW s \in Servers,
           Client(c) \/ Server(c) \/ ReleaseServer(s) \/ UNCHANGED vars
    PROVE  Routing' /\ \A d \in Conversations : Acquired(d)' <=> Acquired(d)
<1>1. UNCHANGED <<cache, route, held, since>>
    BY DEF Client, CallAcquire, Finish, Submit, Answer, TimeOut, AbortRequest, Drain, Leave,
           Server, Register, Reject, Complete, SetJob, ReleaseServer, lbVars, vars
<1>2. /\ pc' \in [Conversations -> PcStates] /\ turns' \in [Conversations -> Nat]
      /\ \A d \in Conversations :
             /\ pc'[d] # "ready" => turns'[d] > 0
             /\ Acquired(d)' <=> Acquired(d)
  <2> USE DEF Routing, RoutingTypes, PcStates, HoldingStates, Acquired
  <2>1. CASE CallAcquire(c)
      BY <2>1 DEF CallAcquire
  <2>2. CASE Finish(c)
      BY <2>2 DEF Finish
  <2>3. CASE Submit(c) \/ TimeOut(c) \/ AbortRequest(c)
      BY <2>3 DEF Submit, TimeOut, AbortRequest
  <2>4. CASE Answer(c) \/ Drain(c)
    <3>1. /\ pc[c] \in {"waiting", "draining"} /\ UNCHANGED turns
          /\ \E st \in {"ready", "failed"} : pc' = [pc EXCEPT ![c] = st]
        BY <2>4 DEF Answer, Drain, Leave
    <3> QED
        BY <3>1
  <2>5. CASE UNCHANGED <<pc, turns>>
      BY <2>5
  <2> QED
      BY <2>1, <2>2, <2>3, <2>4, <2>5
      DEF Client, Server, Register, Reject, Complete, SetJob, ReleaseServer, vars
<1>3. RoutingTypes' /\ ByUse' /\ \A d \in Conversations : Cached(d)' <=> Cached(d)
    BY <1>1, <1>2 DEF Routing, RoutingTypes, CacheType, ByUse, Cached
<1> QED
    BY <1>1, <1>2, <1>3 DEF Routing

(* The routing cache and its history, for any number of servers, any cache  *)
(* size and any finite set of conversations.                                *)
THEOREM RoutingAlways == Spec => []Routing
<1>1. Init => Routing
  <2> SUFFICES ASSUME Init PROVE Routing
      OBVIOUS
  <2>1. cache = <<>> /\ Len(cache) = 0 /\ cache \in Seq(Conversations)
      BY DEF Init
  <2>2. \A c \in Conversations : ~Cached(c) /\ ~Acquired(c)
      BY <2>1 DEF Init, Cached, Acquired
  <2>3. RoutingTypes /\ ByUse
      BY <2>1, ConstantsAssumption DEF Init, RoutingTypes, CacheType, ByUse, Servers, PcStates
  <2> QED
      BY <2>2, <2>3 DEF Routing, Init
<1>2. Routing /\ [Next]_vars => Routing'
  <2> SUFFICES ASSUME Routing, [Next]_vars PROVE Routing'
      OBVIOUS
  <2>1. 1 \in Servers
      BY ConstantsAssumption DEF Servers
  <2>2. CASE Conversations = {}
    <3>1. UNCHANGED <<cache, route, held, since, pc, turns>>
        BY <2>2 DEF Next, Idle, ReleaseServer, vars
    <3> QED
        BY <3>1 DEF Routing, RoutingTypes, CacheType, ByUse, Cached, Acquired
  <2>3. ASSUME NEW c0 \in Conversations PROVE Routing'
      BY <2>1, AcquireKeepsRouting, OthersKeepRouting DEF Next, Idle
  <2> QED
      BY <2>2, <2>3
<1> QED
    BY <1>1, <1>2, PTL DEF Spec

(* A turn goes to another server than the turn before only after its route  *)
(* was evicted, that is after MaxCacheSize other conversations acquired:    *)
(* the LRU cache never forgets the most recently used ones.                 *)
THEOREM Sticky == Spec => StickyUnlessEvicted
<1> DEFINE P == \A c \in Conversations :
                    (turns[c] > 1 /\ pc[c] = "acquiring" /\ held'[c] # held[c])
                        => Cardinality(since[c]) >= MaxCacheSize
<1>1. Routing /\ [Next]_vars => [P]_vars
  <2> SUFFICES ASSUME Routing, [Next]_vars,
                      NEW c \in Conversations, turns[c] > 1, held'[c] # held[c]
               PROVE  Cardinality(since[c]) >= MaxCacheSize
      OBVIOUS
  <2>1. 1 \in Servers
      BY ConstantsAssumption DEF Servers
  <2>2. PICK d \in Conversations : AcquireServer(d)
    <3>1. SUFFICES ASSUME \A d \in Conversations : ~AcquireServer(d) PROVE held' = held
        BY <3>1
    <3>2. \/ \E d \in Conversations : Client(d) \/ Server(d)
          \/ \E s \in Servers : ReleaseServer(s)
          \/ UNCHANGED vars
        BY <3>1 DEF Next, Idle
    <3> QED
        BY <3>2 DEF Client, CallAcquire, Finish, Submit, Answer, TimeOut, AbortRequest, Drain,
                    Leave, Server, Register, Reject, Complete, SetJob, ReleaseServer, vars
  <2>3. PICK s \in Servers : held' = [held EXCEPT ![d] = s] /\ (Cached(d) => s = route[d])
      BY <2>2, AcquireRefreshes
  <2>4. d = c /\ ~Cached(c)
      BY <2>3 DEF Routing, RoutingTypes
  <2> QED
      BY <2>4 DEF Routing, Acquired
<1>2. Spec => [][P]_vars
    BY <1>1, RoutingAlways, PTL DEF Spec
<1> QED
    BY <1>2 DEF StickyUnlessEvicted

-----------------------------------------------------------------------------
(* No conversation goes on beside a generation of its own: after a timeout  *)
(* it fails, and every other way out of generate has seen the answer.       *)
THEOREM NoOrphans == Spec => []OrphansOnlyAfterFailure
<1>1. Init => OrphansOnlyAfterFailure
    BY DEF Init, OrphansOnlyAfterFailure
<1>2. IInv /\ OrphansOnlyAfterFailure /\ [Next]_vars => OrphansOnlyAfterFailure'
  <2> SUFFICES ASSUME IInv, OrphansOnlyAfterFailure, [Next]_vars,
                      NEW c \in Conversations,
                      pc'[c] \in {"ready", "acquiring", "granted", "done"}
               PROVE  job'[c] \notin {"submitted", "running"}
      BY DEF OrphansOnlyAfterFailure
  <2> USE DEF OrphansOnlyAfterFailure, IInv, SlotTypes
  <2>1. ASSUME NEW d \in Conversations, AcquireServer(d) PROVE job'[c] \notin {"submitted", "running"}
      BY <2>1 DEF AcquireServer
  <2>2. ASSUME NEW s \in Servers, ReleaseServer(s) PROVE job'[c] \notin {"submitted", "running"}
      BY <2>2 DEF ReleaseServer
  <2>3. ASSUME NEW d \in Conversations, CallAcquire(d) \/ Finish(d) \/ Submit(d) \/ TimeOut(d)
        PROVE  job'[c] \notin {"submitted", "running"}
      BY <2>3 DEF CallAcquire, Finish, Submit, TimeOut
  <2>4. ASSUME NEW d \in Conversations, AbortRequest(d)
        PROVE  job'[c] \notin {"submitted", "running"}
      BY <2>4 DEF AbortRequest
  <2>5. ASSUME NEW d \in Conversations, Answer(d) PROVE job'[c] \notin {"submitted", "running"}
      BY <2>5 DEF Answer, Leave, FinishedJob
  <2>6. ASSUME NEW d \in Conversations, Drain(d) PROVE job'[c] \notin {"submitted", "running"}
      BY <2>6 DEF Drain, Leave
  <2>7. ASSUME NEW d \in Conversations, Register(d) \/ Reject(d) \/ Complete(d)
        PROVE  job'[c] \notin {"submitted", "running"}
      BY <2>7 DEF Register, Reject, Complete, SetJob
  <2>8. CASE UNCHANGED vars
      BY <2>8 DEF vars
  <2> QED
      BY <2>1, <2>2, <2>3, <2>4, <2>5, <2>6, <2>7, <2>8 DEF Next, Client, Server, Idle
<1> QED
    BY <1>1, <1>2, Accounting, PTL DEF Spec

-----------------------------------------------------------------------------
(* Greedy routing of first turns.  Every count of a server stands for a     *)
(* conversation of its own that acquired it.                                *)
Owned(s) == {c \in Conversations : Acquired(c) /\ held[c] = s}
FirstTurns == \A c \in Conversations : turns[c] <= 1
Counted == FirstTurns => \A s \in Servers : inflight[s] <= Cardinality(Owned(s))

(* A set with m members has m of them in a row.                             *)
LEMMA Enumerated ==
    ASSUME NEW S, IsFiniteSet(S), NEW m \in Nat, m <= Cardinality(S)
    PROVE  \E h : h \in Injection(1..m, S)
<1>1. Cardinality(S) \in Nat /\ ExistsBijection(1..Cardinality(S), S)
    BY FS_CardinalityType
<1>2. PICK b : b \in Bijection(1..Cardinality(S), S)
    BY <1>1 DEF ExistsBijection
<1> DEFINE h == [k \in 1..m |-> b[k]]
<1>3. \A k \in 1..m : k \in 1..Cardinality(S)
    BY <1>1
<1>4. /\ b \in [1..Cardinality(S) -> S]
      /\ \A j, k \in 1..Cardinality(S) : b[j] = b[k] => j = k
    BY <1>2 DEF Bijection, Injection, IsInjective
<1>5. h \in Injection(1..m, S)
    BY <1>3, <1>4 DEF Injection, IsInjective
<1> QED
    BY <1>5

(* If every server has m conversations of its own, there are m times as     *)
(* many conversations as servers.                                           *)
LEMMA SharesAddUp ==
    ASSUME NEW U \in SUBSET Conversations, NEW F \in [Servers -> SUBSET U], NEW m \in Nat,
           \A s, t \in Servers : s # t => F[s] \cap F[t] = {},
           \A s \in Servers : m <= Cardinality(F[s])
    PROVE  NumServers * m <= Cardinality(U)
<1> DEFINE g == [s \in Servers |-> CHOOSE h : h \in Injection(1..m, F[s])]
           f == [p \in Servers \X (1..m) |-> g[p[1]][p[2]]]
<1>1. ASSUME NEW s \in Servers PROVE g[s] \in Injection(1..m, F[s])
  <2>1. F[s] \in SUBSET Conversations
      OBVIOUS
  <2>2. \E h : h \in Injection(1..m, F[s])
      BY <2>1, SizeOfConversations, Enumerated
  <2> QED
      BY <2>2
<1> HIDE DEF g
<1>2. ASSUME NEW s \in Servers, NEW k \in 1..m PROVE g[s][k] \in F[s]
    BY <1>1 DEF Injection
<1>3. f \in [Servers \X (1..m) -> U]
    BY <1>2
<1>4. ASSUME NEW p \in Servers \X (1..m), NEW q \in Servers \X (1..m), f[p] = f[q] PROVE p = q
  <2>1. p[1] = q[1]
      BY <1>2, <1>4
  <2>2. p[2] = q[2]
      BY <1>1, <1>4, <2>1 DEF Injection, IsInjective
  <2> QED
      BY <2>1, <2>2
<1>5. f \in Injection(Servers \X (1..m), U)
    BY <1>3, <1>4 DEF Injection, IsInjective
<1> HIDE DEF f
<1>6. IsFiniteSet(Servers) /\ Cardinality(Servers) = NumServers
    BY FS_Interval, ConstantsAssumption DEF Servers
<1>7. IsFiniteSet(1..m) /\ Cardinality(1..m) = m
    BY FS_Interval
<1>8. Cardinality(Servers \X (1..m)) = NumServers * m
    BY <1>6, <1>7, FS_Product
<1>9. IsFiniteSet(U)
    BY SizeOfConversations
<1> QED
    BY <1>5, <1>8, <1>9, FS_Injection

LEMMA RoundedUp ==
    ASSUME NEW k \in Nat \ {0}, NEW n \in Nat, NEW m \in Nat, k * m <= n - 1
    PROVE  m + 1 <= (n + k - 1) \div k
<1> DEFINE q == (n + k - 1) \div k
           r == (n + k - 1) % k
<1>1. q \in Int /\ r \in 0..(k - 1) /\ n + k - 1 = k * q + r
    OBVIOUS
<1> HIDE DEF q, r
<1>2. SUFFICES ASSUME q <= m PROVE FALSE
    BY <1>1 DEF q
<1>3. k * q <= k * m
    BY <1>1, <1>2
<1>4. k * q \in Int /\ k * m \in Int
    BY <1>1
<1> QED
    BY <1>1, <1>3, <1>4

(* A first acquisition goes to a server with no more than its share.        *)
LEMMA AcquireKeepsShare ==
    ASSUME IInv, Routing, Counted, FirstTurns, NEW c \in Conversations, AcquireServer(c),
           FairShare
    PROVE  Counted' /\ FairShare'
<1>1. /\ pc[c] = "acquiring" /\ pc' = [pc EXCEPT ![c] = "granted"] /\ UNCHANGED turns
      /\ pc \in [Conversations -> PcStates] /\ turns \in [Conversations -> Nat]
    BY DEF AcquireServer, Routing, RoutingTypes
<1>2. turns[c] = 1 /\ ~Acquired(c) /\ ~Cached(c)
    BY <1>1 DEF Routing, FirstTurns, Acquired
<1>3. PICK s \in Servers : /\ LeastLoaded(s)
                           /\ inflight' = [inflight EXCEPT ![s] = @ + 1]
                           /\ held' = [held EXCEPT ![c] = s]
    BY <1>2 DEF AcquireServer
<1>4. inflight \in [Servers -> Nat] /\ held \in [Conversations -> Servers]
    BY DEF IInv, SlotTypes
<1>5. /\ Acquired(c)' /\ held'[c] = s
      /\ \A d \in Conversations : d # c => (Acquired(d)' <=> Acquired(d)) /\ held'[d] = held[d]
    BY <1>1, <1>2, <1>3, <1>4 DEF Acquired
<1>6. /\ Owned(s)' = Owned(s) \cup {c} /\ c \notin Owned(s)
      /\ \A t \in Servers : t # s => Owned(t)' = Owned(t)
    BY <1>2, <1>5 DEF Owned
<1>7. \A t \in Servers : inflight[t] <= Cardinality(Owned(t))
    BY DEF Counted
<1>8. \A t \in Servers : Owned(t) \in SUBSET (Conversations \ {c}) /\ Owned(t) \in SUBSET Conversations
    BY <1>2 DEF Owned
<1>9. Counted'
  <2> SUFFICES ASSUME NEW t \in Servers PROVE inflight'[t] <= Cardinality(Owned(t)')
      BY DEF Counted
  <2>1. CASE t = s
    <3>1. Cardinality(Owned(s)') = Cardinality(Owned(s)) + 1 /\ Cardinality(Owned(s)) \in Nat
        BY <1>6, <1>8, SizeOfConversations, FS_AddElement
    <3> QED
        BY <1>3, <1>4, <1>7, <2>1, <3>1
  <2>2. CASE t # s
      BY <1>3, <1>4, <1>6, <1>7, <2>2
  <2> QED
      BY <2>1, <2>2
<1>10. inflight[s] + 1 <= (Cardinality(Conversations) + NumServers - 1) \div NumServers
  <2> DEFINE U == Conversations \ {c}
             F == [t \in Servers |-> Owned(t)]
             m == inflight[s]
  <2>1. IsFiniteSet(Conversations) /\ Cardinality(Conversations) \in Nat
      BY SizeOfConversations
  <2>2. Cardinality(U) = Cardinality(Conversations) - 1
      BY <2>1, FS_RemoveElement
  <2>3. U \in SUBSET Conversations /\ F \in [Servers -> SUBSET U] /\ m \in Nat
      BY <1>4, <1>8
  <2>4. \A a, b \in Servers : a # b => F[a] \cap F[b] = {}
      BY DEF Owned
  <2>5. \A t \in Servers : m <= Cardinality(F[t])
    <3> SUFFICES ASSUME NEW t \in Servers PROVE m <= Cardinality(Owned(t))
        OBVIOUS
    <3>1. inflight[s] <= inflight[t]
        BY <1>3, <1>4 DEF LeastLoaded
    <3>2. inflight[t] <= Cardinality(Owned(t)) /\ Cardinality(Owned(t)) \in Nat
        BY <1>7, <1>8, SizeOfConversations
    <3> QED
        BY <1>4, <3>1, <3>2
  <2> HIDE DEF U, F, m
  <2>6. NumServers * m <= Cardinality(Conversations) - 1
      BY <2>2, <2>3, <2>4, <2>5, SharesAddUp
  <2>7. m + 1 <= (Cardinality(Conversations) + NumServers - 1) \div NumServers
      BY <2>1, <2>3, <2>6, RoundedUp, ConstantsAssumption
  <2> QED
      BY <2>7 DEF m
<1>11. FairShare'
  <2> SUFFICES ASSUME NEW t \in Servers
               PROVE  inflight'[t] <= (Cardinality(Conversations) + NumServers - 1) \div NumServers
      BY DEF FairShare
  <2>1. inflight[t] <= (Cardinality(Conversations) + NumServers - 1) \div NumServers
      BY DEF FairShare, FirstTurns
  <2> QED
      BY <1>3, <1>4, <1>10, <2>1
<1> QED
    BY <1>9, <1>11

(* As long as every conversation is in its first turn, no server ever has   *)
(* more in flight than its share of the conversations, rounded up, however  *)
(* acquires, releases, timeouts and failures interleave.                    *)
THEOREM FairShareAlways == Spec => []FairShare
<1> DEFINE J == Counted /\ FairShare
<1>1. Init => J
  <2> SUFFICES ASSUME Init PROVE J
      OBVIOUS
  <2>1. \A s \in Servers : inflight[s] = 0
      BY DEF Init
  <2>2. \A s \in Servers : Cardinality(Owned(s)) \in Nat
    <3>1. \A s \in Servers : Owned(s) \in SUBSET Conversations
        BY DEF Owned
    <3> QED
        BY <3>1, SizeOfConversations
  <2>3. Cardinality(Conversations) \in Nat
      BY SizeOfConversations
  <2>4. 0 <= (Cardinality(Conversations) + NumServers - 1) \div NumServers
      BY <2>3, ConstantsAssumption
  <2> QED
      BY <2>1, <2>2, <2>4 DEF Counted, FairShare
<1>2. IInv /\ Routing /\ Routing' /\ J /\ [Next]_vars => J'
  <2> SUFFICES ASSUME IInv, Routing, Routing', J, [Next]_vars, FirstTurns' PROVE J'
      BY DEF Counted, FairShare, FirstTurns
  <2>1. turns \in [Conversations -> Nat] /\ inflight \in [Servers -> Nat]
      BY DEF Routing, RoutingTypes, IInv, SlotTypes
  <2>2. FirstTurns
    <3>1. \A c \in Conversations : turns[c] <= turns'[c]
        BY <2>1 DEF Next, Idle, AcquireServer, Client, CallAcquire, Finish, Submit, Answer,
                    TimeOut, AbortRequest, Drain, Leave, Server, Register, Reject, Complete,
                    SetJob, ReleaseServer, vars
    <3>2. turns' \in [Conversations -> Nat]
        BY DEF Routing, RoutingTypes
    <3> QED
        BY <2>1, <3>1, <3>2 DEF FirstTurns
  <2>3. ASSUME NEW c \in Conversations, AcquireServer(c) PROVE J'
      BY <2>2, <2>3, AcquireKeepsShare
  <2>4. ASSUME NEW s0 \in Servers,
               \/ \E c \in Conversations : Client(c) \/ Server(c)
               \/ \E s \in Servers : ReleaseServer(s)
               \/ UNCHANGED vars
        PROVE  J'
    <3>1. \A t \in Servers : inflight'[t] \in Nat /\ inflight'[t] <= inflight[t]
        BY <2>1, <2>4 DEF Client, CallAcquire, Finish, Submit, Answer, TimeOut, AbortRequest,
                          Drain, Leave, Server, Register, Reject, Complete, SetJob,
                          ReleaseServer, lbVars, vars
    <3>2. held' = held /\ \A d \in Conversations : Acquired(d)' <=> Acquired(d)
      <4>1. held' = held
          BY <2>4 DEF Client, CallAcquire, Finish, Submit, Answer, TimeOut, AbortRequest, Drain,
                      Leave, Server, Register, Reject, Complete, SetJob, ReleaseServer, vars
      <4>2. ASSUME NEW d \in Conversations PROVE Acquired(d)' <=> Acquired(d)
          BY <2>4, OthersKeepRouting
      <4> QED
          BY <4>1, <4>2
    <3>3. \A t \in Servers : Owned(t)' = Owned(t)
        BY <3>2 DEF Owned
    <3>4. \A t \in Servers : Cardinality(Owned(t)) \in Nat
      <4>1. \A t \in Servers : Owned(t) \in SUBSET Conversations
          BY DEF Owned
      <4> QED
          BY <4>1, SizeOfConversations
    <3>5. (Cardinality(Conversations) + NumServers - 1) \div NumServers \in Int
      <4>1. Cardinality(Conversations) \in Nat
          BY SizeOfConversations
      <4> QED
          BY <4>1, ConstantsAssumption
    <3>6. Counted'
        BY <2>1, <2>2, <3>1, <3>3, <3>4 DEF Counted
    <3>7. FairShare'
        BY <2>1, <2>2, <3>1, <3>5 DEF FairShare, FirstTurns
    <3> QED
        BY <3>6, <3>7
  <2>5. 1 \in Servers
      BY ConstantsAssumption DEF Servers
  <2> QED
      BY <2>3, <2>4, <2>5 DEF Next, Idle
<1>3. J => FairShare
    OBVIOUS
<1> QED
    BY <1>1, <1>2, <1>3, Accounting, RoutingAlways, PTL DEF Spec
=============================================================================
