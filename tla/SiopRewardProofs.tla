--------------------------- MODULE SiopRewardProofs ---------------------------
(***************************************************************************)
(* Process rewards and the outcome modes they rest on.                     *)
(*                                                                         *)
(* For every batch, every answer of the NLI model and every chunk the      *)
(* scoring server loses: differences are of one rollout's consecutive      *)
(* turns, a dead server leaves the terminal reward, the frequencies of a   *)
(* query's modes are a distribution and the majority baseline rewards one  *)
(* largest mode.  For every number of answers, chunk size and NLI model:   *)
(* cluster_answers is greedy, its references are its leaders, and what it  *)
(* returns is a clustering as assumed above.                               *)
(***************************************************************************)
EXTENDS SiopReward, NliClustering, FiniteSetTheorems, WellFoundedInduction, NaturalsInduction, TLAPS

(***************************************************************************)
(* The values of the variables.                                            *)
(***************************************************************************)
Phases == {"cluster", "calibrate", "build", "score", "post", "reward", "done"}

BatchTypes ==
    /\ call \in Calls
    /\ uid \in [Samples -> Samples]
    /\ ans \in [Samples -> Nat] /\ turns \in [Samples -> Nat] /\ gold \in [Samples -> BOOLEAN]

EntriesInv == entries \in Seq({entries[k] : k \in DOMAIN entries})

WorkTypes ==
    /\ client \in BOOLEAN /\ pc \in Phases
    /\ lead \in [Samples -> Samples]
    /\ \A s \in Samples : IsFiniteSet(refs[s])
    /\ DOMAIN refs = Samples
    /\ EntriesInv

(* What score_batch has returned so far: an item has its own score or none,*)
(* or there was no client and every item has zero.                         *)
OwnScore == \A k \in DOMAIN entries : scores[k] \in {k, Scores!Lost}
NoClient == ~client /\ \A k \in DOMAIN entries : scores[k] = Zero
ScoresInv ==
    /\ pc = "post" => OwnScore
    /\ pc \in {"post", "reward"} => call.mode = "process"
    /\ pc = "reward" \/ Done => OwnScore \/ NoClient

RewardsInv ==
    Done => rewards = [s \in Samples |->
                          IF MultiTurn(s) THEN TurnRewards(s)
                          ELSE IF HasReference(s) THEN <<Reward({}, {}, freq[s])>>
                          ELSE <<>>]

SiopInv == BatchTypes /\ WorkTypes /\ ScoresInv /\ RewardsInv

LEMMA SamplesFinite == ASSUME BatchTypes PROVE IsFiniteSet(Samples) /\ call.bsz \in Nat
<1>1. call.bsz \in Nat
    BY ConstantsAssumption DEF BatchTypes, CallType
<1> QED
    BY <1>1, FS_Interval DEF Samples

LEMMA ImageFinite ==
    ASSUME NEW S, IsFiniteSet(S), NEW f, f = [x \in S |-> f[x]] PROVE IsFiniteSet({f[x] : x \in S})
<1>1. f \in Surjection(S, {f[x] : x \in S})
    BY DEF Surjection
<1> QED
    BY <1>1, FS_Surjection

LEMMA TripleFinite ==
    ASSUME NEW s, NEW T, IsFiniteSet(T), NEW R, IsFiniteSet(R) PROVE IsFiniteSet({s} \X T \X R)
<1> DEFINE f == [p \in T \X R |-> <<s, p[1], p[2]>>]
<1>1. f \in Surjection(T \X R, {s} \X T \X R)
  <2>1. f \in [T \X R -> {s} \X T \X R]
      OBVIOUS
  <2>2. ASSUME NEW e \in {s} \X T \X R PROVE \E p \in T \X R : f[p] = e
    <3>1. PICK t \in T, r \in R : e = <<s, t, r>>
        OBVIOUS
    <3>2. f[<<t, r>>] = e
        BY <3>1
    <3> QED
        BY <3>2
  <2> QED
      BY <2>1, <2>2 DEF Surjection
<1>2. IsFiniteSet(T \X R)
    BY FS_Product
<1> QED
    BY <1>1, <1>2, FS_Surjection

(* The items of a batch are finitely many, so they are a sequence.         *)
LEMMA ItemsAreSequence ==
    ASSUME BatchTypes', \A s \in Samples' : IsFiniteSet(refs'[s]), entries' = Items'
    PROVE  EntriesInv'
<1> DEFINE all == UNION {{s} \X (-1..(turns'[s] - 1)) \X refs'[s] : s \in {j \in Samples' : MultiTurn(j)'}}
           n == Cardinality(all)
           item(k) == CHOOSE e \in all : Cardinality({d \in all : Before(d, e)}) = k - 1
<1>1. IsFiniteSet(all)
  <2> DEFINE multi == {j \in Samples' : MultiTurn(j)'}
             cell(s) == {s} \X (-1..(turns'[s] - 1)) \X refs'[s]
  <2>1. IsFiniteSet(Samples')
    <3>1. call'.bsz \in Nat
        BY ConstantsAssumption DEF BatchTypes, CallType
    <3> QED
        BY <3>1, FS_Interval DEF Samples
  <2>2. IsFiniteSet(multi)
      BY <2>1, FS_Subset
  <2>3. IsFiniteSet({cell(s) : s \in multi})
    <3> DEFINE f == [s \in multi |-> cell(s)]
    <3>1. f = [s \in multi |-> f[s]] /\ {f[s] : s \in multi} = {cell(s) : s \in multi}
        OBVIOUS
    <3> HIDE DEF f, multi, cell
    <3>2. IsFiniteSet({f[s] : s \in multi})
        BY <2>2, <3>1, ImageFinite
    <3> QED
        BY <3>1, <3>2
  <2>4. ASSUME NEW s \in multi PROVE IsFiniteSet(cell(s))
    <3>1. turns'[s] \in Nat /\ IsFiniteSet(refs'[s])
        BY DEF BatchTypes
    <3>2. IsFiniteSet(-1..(turns'[s] - 1))
        BY <3>1, FS_Interval
    <3> QED
        BY <3>1, <3>2, TripleFinite
  <2> QED
      BY <2>3, <2>4, FS_UNION
<1>2. n \in Nat
    BY <1>1, FS_CardinalityType
<1>3. entries' = [k \in 1..n |-> item(k)]
    BY DEF Items
<1> HIDE DEF n, item
<1> QED
    BY <1>2, <1>3 DEF EntriesInv

LEMMA SiopInit == ASSUME Init PROVE SiopInv
<1>1. BatchTypes
  <2>1. call \in Calls /\ call.texts \in Nat /\ call.maxTurns \in Nat
      BY ConstantsAssumption DEF Init, CallType
  <2>2. uid \in [Samples -> Samples]
      BY DEF Init
  <2>3. ans \in [Samples -> Nat]
      BY <2>1 DEF Init, NoAnswer
  <2>4. turns \in [Samples -> Nat]
      BY <2>1 DEF Init
  <2>5. gold \in [Samples -> BOOLEAN]
      BY DEF Init
  <2> QED
      BY <2>1, <2>2, <2>3, <2>4, <2>5 DEF BatchTypes
<1>2. WorkTypes
  <2>1. IsFiniteSet({})
      BY FS_EmptySet
  <2>2. EntriesInv
      BY DEF Init, EntriesInv
  <2> QED
      BY <2>1, <2>2 DEF Init, WorkTypes, Phases
<1>3. ScoresInv /\ RewardsInv
    BY DEF Init, ScoresInv, RewardsInv, Done
<1> QED
    BY <1>1, <1>2, <1>3 DEF SiopInv

LEMMA BatchStays == ASSUME BatchTypes, UNCHANGED batch PROVE BatchTypes' /\ Samples' = Samples
BY DEF BatchTypes, batch, Samples

LEMMA ServerChangesSiop == ASSUME SiopInv, ServerChanges PROVE SiopInv'
<1>1. /\ BatchTypes' /\ Samples' = Samples
      /\ pc # "done" /\ UNCHANGED <<call, client, pc, lead, refs, entries, scores>>
    BY BatchStays DEF SiopInv, ServerChanges, modes, batch
<1>2. WorkTypes'
    BY <1>1 DEF SiopInv, WorkTypes, EntriesInv
<1>3. ScoresInv' /\ RewardsInv'
    BY <1>1 DEF SiopInv, ScoresInv, RewardsInv, OwnScore, NoClient, Done
<1> QED
    BY <1>1, <1>2, <1>3 DEF SiopInv

LEMMA ClusterSiop == ASSUME SiopInv, Cluster PROVE SiopInv'
<1>1. BatchTypes' /\ Samples' = Samples
    BY BatchStays DEF SiopInv, Cluster
<1>2. client' \in BOOLEAN
    BY DEF Cluster, GetClient, SiopInv, WorkTypes
<1>3. DOMAIN refs' = Samples /\ \A s \in Samples : IsFiniteSet(refs'[s])
  <2>1. \A s \in Samples : refs'[s] \subseteq Samples
      BY DEF Cluster, PickRefs, Mode, Answered, Query
  <2>2. DOMAIN refs' = Samples
      BY DEF Cluster
  <2> QED
      BY <2>1, <2>2, SamplesFinite, FS_Subset DEF SiopInv
<1>4. lead' \in [Samples -> Samples]
    BY DEF Cluster, Clusterings
<1>5. WorkTypes'
    BY <1>1, <1>2, <1>3, <1>4 DEF SiopInv, Cluster, WorkTypes, EntriesInv, Phases
<1>6. ScoresInv' /\ RewardsInv'
    BY DEF Cluster, ScoresInv, RewardsInv, Done
<1> QED
    BY <1>1, <1>5, <1>6 DEF SiopInv

LEMMA CalibrateSiop == ASSUME SiopInv, Calibrate PROVE SiopInv'
<1>1. /\ BatchTypes' /\ Samples' = Samples
      /\ pc' = "build" /\ UNCHANGED <<client, lead, refs, entries>>
    BY BatchStays DEF SiopInv, Calibrate
<1>2. WorkTypes'
    BY <1>1 DEF SiopInv, WorkTypes, EntriesInv, Phases
<1>3. ScoresInv' /\ RewardsInv'
    BY <1>1 DEF ScoresInv, RewardsInv, Done
<1> QED
    BY <1>1, <1>2, <1>3 DEF SiopInv

LEMMA BuildSiop == ASSUME SiopInv, Build PROVE SiopInv'
<1>1. /\ BatchTypes' /\ Samples' = Samples
      /\ pc' = "score" /\ UNCHANGED <<client, lead>> /\ entries' = Items'
    BY BatchStays DEF SiopInv, Build
<1>2. DOMAIN refs' = Samples /\ \A s \in Samples : IsFiniteSet(refs'[s])
    BY FS_EmptySet, FS_Singleton DEF Build, Overridden, SiopInv, WorkTypes
<1>3. EntriesInv'
    BY <1>1, <1>2, ItemsAreSequence
<1>4. WorkTypes'
    BY <1>1, <1>2, <1>3 DEF SiopInv, WorkTypes, Phases
<1>5. ScoresInv' /\ RewardsInv'
    BY <1>1 DEF ScoresInv, RewardsInv, Done
<1> QED
    BY <1>1, <1>4, <1>5 DEF SiopInv

LEMMA ScoreNothingSiop == ASSUME SiopInv, ScoreNothing PROVE SiopInv'
<1>1. /\ BatchTypes' /\ Samples' = Samples /\ call' = call /\ call.mode = "process"
      /\ pc' = "reward" /\ UNCHANGED <<client, lead, refs, entries, scores>> /\ entries = <<>>
    BY BatchStays DEF SiopInv, ScoreNothing, modes, batch
<1>2. WorkTypes'
    BY <1>1 DEF SiopInv, WorkTypes, EntriesInv, Phases
<1>3. OwnScore'
    BY <1>1 DEF OwnScore
<1>4. ScoresInv' /\ RewardsInv'
    BY <1>1, <1>3 DEF ScoresInv, RewardsInv, Done
<1> QED
    BY <1>1, <1>2, <1>4 DEF SiopInv

LEMMA StartScoringSiop == ASSUME SiopInv, StartScoring PROVE SiopInv'
<1>1. /\ BatchTypes' /\ Samples' = Samples /\ call' = call /\ call.mode = "process"
      /\ pc' \in {"post", "reward"} /\ UNCHANGED <<lead, refs, entries>>
      /\ client' \in BOOLEAN
    BY BatchStays DEF SiopInv, StartScoring, modes, batch, GetClient, WorkTypes
<1>2. WorkTypes'
    BY <1>1 DEF SiopInv, WorkTypes, EntriesInv, Phases
<1>3. CASE client'
  <2>1. pc' = "post" /\ OwnScore'
      BY <1>1, <1>3 DEF StartScoring, OwnScore
  <2> QED
      BY <1>1, <1>2, <2>1 DEF ScoresInv, RewardsInv, Done, SiopInv
<1>4. CASE ~client'
  <2>1. pc' = "reward" /\ NoClient'
      BY <1>1, <1>4 DEF StartScoring, NoClient
  <2> QED
      BY <1>1, <1>2, <2>1 DEF ScoresInv, RewardsInv, Done, SiopInv
<1> QED
    BY <1>3, <1>4

LEMMA ScoreChunkSiop == ASSUME SiopInv, ScoreChunk PROVE SiopInv'
<1>1. /\ BatchTypes' /\ Samples' = Samples /\ call' = call /\ call.mode = "process"
      /\ pc = "post" /\ pc' = "post" /\ UNCHANGED <<client, lead, refs, entries>>
    BY BatchStays DEF SiopInv, ScoreChunk, modes, batch, ScoresInv
<1>2. WorkTypes'
    BY <1>1 DEF SiopInv, WorkTypes, EntriesInv, Phases
<1>3. OwnScore /\ DOMAIN entries = 1..Len(entries)
    BY <1>1 DEF SiopInv, ScoresInv, WorkTypes, EntriesInv
<1>4. scores' = scores \/ \A k \in 1..Len(entries) : scores'[k] = k \/ scores'[k] = scores[k]
    BY DEF ScoreChunk, Scores!Deliver, Scores!Lose
<1>5. OwnScore'
    BY <1>1, <1>3, <1>4 DEF OwnScore
<1>6. ScoresInv' /\ RewardsInv'
    BY <1>1, <1>5 DEF ScoresInv, RewardsInv, Done
<1> QED
    BY <1>1, <1>2, <1>6 DEF SiopInv

LEMMA ScoreReturnsSiop == ASSUME SiopInv, ScoreReturns PROVE SiopInv'
<1>1. /\ BatchTypes' /\ Samples' = Samples /\ call' = call /\ call.mode = "process"
      /\ pc' = "reward" /\ UNCHANGED <<client, lead, refs, entries, scores>>
    BY BatchStays DEF SiopInv, ScoreReturns, modes, batch, ScoresInv
<1>2. WorkTypes'
    BY <1>1 DEF SiopInv, WorkTypes, EntriesInv, Phases
<1>3. OwnScore'
    BY <1>1 DEF OwnScore, SiopInv, ScoresInv, ScoreReturns
<1>4. ScoresInv' /\ RewardsInv'
    BY <1>1, <1>3 DEF ScoresInv, RewardsInv, Done
<1> QED
    BY <1>1, <1>2, <1>4 DEF SiopInv

LEMMA ProcessRewardsSiop == ASSUME SiopInv, ProcessRewards PROVE SiopInv'
<1>1. /\ BatchTypes' /\ Samples' = Samples /\ call.mode = "process"
      /\ pc = "reward" /\ pc' = "done"
      /\ UNCHANGED <<call, turns, client, freq, lead, refs, entries, scores>>
    BY BatchStays DEF SiopInv, ProcessRewards, modes, batch, ScoresInv
<1>2. WorkTypes'
    BY <1>1 DEF SiopInv, WorkTypes, EntriesInv, Phases
<1>3. ScoresInv'
    BY <1>1 DEF SiopInv, ScoresInv, OwnScore, NoClient, Done
<1>4. RewardsInv'
    BY <1>1 DEF ProcessRewards, RewardsInv, MultiTurn, HasReference, TurnRewards, Cell, Reward
<1> QED
    BY <1>1, <1>2, <1>3, <1>4 DEF SiopInv

LEMMA BaselineSiop == ASSUME SiopInv, MajorityRewards \/ FrequencyRewards PROVE SiopInv'
<1>1. /\ BatchTypes' /\ Samples' = Samples /\ call.mode # "process" /\ call' = call
      /\ pc' = "done" /\ UNCHANGED <<client, lead, refs, entries>>
    BY BatchStays DEF SiopInv, MajorityRewards, FrequencyRewards, modes, batch
<1>2. WorkTypes'
    BY <1>1 DEF SiopInv, WorkTypes, EntriesInv, Phases
<1>3. ScoresInv' /\ RewardsInv'
    BY <1>1 DEF ScoresInv, RewardsInv, Done
<1> QED
    BY <1>1, <1>2, <1>3 DEF SiopInv

LEMMA SiopStutter == ASSUME SiopInv, UNCHANGED vars PROVE SiopInv'
<1>1. UNCHANGED <<call, uid, ans, turns, gold, client, pc, lead, freq, reference, refs, entries, scores, rewards>>
    BY DEF vars, batch, modes
<1>2. BatchTypes' /\ WorkTypes'
    BY <1>1 DEF SiopInv, BatchTypes, WorkTypes, EntriesInv, Samples
<1>3. ScoresInv'
    BY <1>1 DEF SiopInv, ScoresInv, OwnScore, NoClient, Done
<1>4. RewardsInv'
  <2>1. Samples' = Samples /\ (Done' <=> Done)
      BY <1>1 DEF Samples, Done
  <2>2. \A s \in Samples : (MultiTurn(s)' <=> MultiTurn(s)) /\ (HasReference(s)' <=> HasReference(s))
      BY <1>1 DEF MultiTurn, HasReference
  <2>3. \A s \in Samples : TurnRewards(s)' = TurnRewards(s)
      BY <1>1 DEF TurnRewards, Cell, Reward
  <2> QED
      BY <1>1, <2>1, <2>2, <2>3 DEF SiopInv, RewardsInv, Reward
<1> QED
    BY <1>2, <1>3, <1>4 DEF SiopInv

LEMMA SiopAlways == Spec => []SiopInv
<1>1. SiopInv /\ [Next]_vars => SiopInv'
    BY ServerChangesSiop, ClusterSiop, CalibrateSiop, BuildSiop, ScoreNothingSiop, StartScoringSiop,
       ScoreChunkSiop, ScoreReturnsSiop, ProcessRewardsSiop, BaselineSiop, SiopStutter, Zenon DEF Next, Idle
<1> QED
    BY <1>1, SiopInit, PTL DEF Spec

(* A rollout has a reward for each turn, the terminal one at its end.      *)
LEMMA TurnRewardsShape ==
    ASSUME BatchTypes, NEW s \in Samples, turns[s] > 1
    PROVE  /\ Len(TurnRewards(s)) = turns[s] /\ DOMAIN TurnRewards(s) = 1..turns[s]
           /\ \A k \in 1..turns[s] : TurnRewards(s)[k].plus = IF k = turns[s] THEN freq[s] ELSE <<0, 1>>
<1>1. turns[s] \in Nat
    BY DEF BatchTypes
<1>2. ASSUME NEW k \in 1..turns[s]
      PROVE  TurnRewards(s)[k].plus = IF k = turns[s] THEN freq[s] ELSE <<0, 1>>
    BY DEF TurnRewards, Reward
<1>3. Len(TurnRewards(s)) = turns[s] /\ DOMAIN TurnRewards(s) = 1..turns[s]
    BY <1>1 DEF TurnRewards
<1> QED
    BY <1>2, <1>3

(* The difference of a turn.                                               *)
LEMMA TurnDifference ==
    ASSUME SiopInv, Done, NEW s \in Samples, MultiTurn(s), NEW t \in 0..(turns[s] - 1)
    PROVE  /\ Cell(s, t - 1) = {} \/ Cell(s, t) = {} =>
                  rewards[s][t + 1].prev = {} /\ rewards[s][t + 1].cur = {}
           /\ ~(Cell(s, t - 1) = {} \/ Cell(s, t) = {}) =>
                  rewards[s][t + 1].prev = Cell(s, t - 1) /\ rewards[s][t + 1].cur = Cell(s, t)
<1>1. rewards[s] = TurnRewards(s) /\ turns[s] \in Nat
    BY DEF SiopInv, RewardsInv, BatchTypes
<1>2. t + 1 \in 1..turns[s] /\ (t + 1) - 2 = t - 1 /\ (t + 1) - 1 = t
    BY <1>1
<1> DEFINE k == t + 1
<1>3. k \in 1..turns[s] /\ k - 2 = t - 1 /\ k - 1 = t
    BY <1>2
<1> HIDE DEF k
<1>4. rewards[s][k] = LET plus == IF k = turns[s] THEN freq[s] ELSE <<0, 1>>
                      IN  IF Cell(s, t - 1) = {} \/ Cell(s, t) = {} THEN Reward({}, {}, plus)
                          ELSE Reward(Cell(s, t - 1), Cell(s, t), plus)
    BY <1>1, <1>3 DEF TurnRewards
<1> QED
    BY <1>4 DEF Reward, k

(* The finite scores of a turn are those of its own items.                 *)
Got(s, t) == {k \in ItemsOf(s, t) : scores[k] # Scores!Lost}

LEMMA OwnCell == ASSUME OwnScore, NEW s, NEW t PROVE Cell(s, t) = Got(s, t)
BY DEF OwnScore, Cell, Got, ItemsOf

LEMMA ZeroCell == ASSUME NoClient, NEW s, NEW t
                  PROVE  Cell(s, t) = (IF Got(s, t) = {} THEN {} ELSE {Zero}) /\ Got(s, t) = ItemsOf(s, t)
BY DEF NoClient, Cell, Got, ItemsOf, Zero, Scores!Lost

LEMMA ItemsArePositions == ASSUME SiopInv, NEW s, NEW t PROVE Zero \notin Got(s, t)
<1>1. DOMAIN entries = 1..Len(entries)
    BY DEF SiopInv, WorkTypes, EntriesInv
<1> QED
    BY <1>1 DEF Got, ItemsOf, Zero

(* The reward of a turn is the difference of the scores of that turn and the*)
(* one before, of the same rollout, and lost scores change no other reward.*)
THEOREM DifferencesAreOfOneTurn == Spec => []DifferencesAreOwn
<1>1. SiopInv => DifferencesAreOwn
  <2> SUFFICES ASSUME SiopInv, Done, NEW s \in Samples, MultiTurn(s), NEW t \in 0..(turns[s] - 1)
               PROVE  LET r == rewards[s][t + 1]
                      IN  IF Zero \in r.prev \cup r.cur
                          THEN r.prev = {Zero} /\ r.cur = {Zero} /\ ~client
                          ELSE IF Got(s, t) # {} /\ Got(s, t - 1) # {}
                               THEN r.prev = Got(s, t - 1) /\ r.cur = Got(s, t)
                               ELSE r.prev = {} /\ r.cur = {}
      BY DEF DifferencesAreOwn, Got
  <2>1. /\ Cell(s, t - 1) = {} \/ Cell(s, t) = {} =>
               rewards[s][t + 1].prev = {} /\ rewards[s][t + 1].cur = {}
        /\ ~(Cell(s, t - 1) = {} \/ Cell(s, t) = {}) =>
               rewards[s][t + 1].prev = Cell(s, t - 1) /\ rewards[s][t + 1].cur = Cell(s, t)
      BY TurnDifference
  <2>2. OwnScore \/ NoClient
      BY DEF SiopInv, ScoresInv
  <2>3. Zero \notin Got(s, t) /\ Zero \notin Got(s, t - 1)
      BY ItemsArePositions
  <2>4. CASE OwnScore
    <3>1. Cell(s, t) = Got(s, t) /\ Cell(s, t - 1) = Got(s, t - 1)
        BY <2>4, OwnCell
    <3> QED
        BY <2>1, <2>3, <3>1
  <2>5. CASE NoClient
    <3>1. /\ Cell(s, t) = (IF Got(s, t) = {} THEN {} ELSE {Zero})
          /\ Cell(s, t - 1) = (IF Got(s, t - 1) = {} THEN {} ELSE {Zero})
        BY <2>5, ZeroCell
    <3> QED
        BY <2>1, <2>5, <3>1 DEF NoClient
  <2> QED
      BY <2>2, <2>4, <2>5
<1> QED
    BY <1>1, SiopAlways, PTL

(* With every score lost, as with no scoring client at all, the terminal   *)
(* reward is what is left.                                                 *)
THEOREM LostScoresLeaveTerminal == Spec => []DegradesToTerminal
<1>1. SiopInv => DegradesToTerminal
  <2> SUFFICES ASSUME SiopInv, Done, \A k \in DOMAIN entries : scores[k] \in {Zero, Scores!Lost},
                      NEW s \in Samples, NEW k \in DOMAIN rewards[s]
               PROVE  /\ rewards[s][k].prev = rewards[s][k].cur
                      /\ k = Len(rewards[s]) => rewards[s][k].plus = freq[s]
      BY DEF DegradesToTerminal
  <2>1. \A t : Cell(s, t) = {} \/ Cell(s, t) = {Zero}
      BY DEF Cell
  <2>2. rewards[s] = IF MultiTurn(s) THEN TurnRewards(s)
                     ELSE IF HasReference(s) THEN <<Reward({}, {}, freq[s])>> ELSE <<>>
      BY DEF SiopInv, RewardsInv
  <2>3. CASE MultiTurn(s)
    <3>1. k \in 1..turns[s] /\ turns[s] \in Nat
        BY <2>2, <2>3, TurnRewardsShape DEF MultiTurn, SiopInv, BatchTypes
    <3> DEFINE t == k - 1
    <3>2. t \in 0..(turns[s] - 1) /\ k = t + 1
        BY <3>1
    <3> HIDE DEF t
    <3>3. rewards[s][t + 1].prev = rewards[s][t + 1].cur
      <4>1. /\ Cell(s, t - 1) = {} \/ Cell(s, t - 1) = {Zero}
            /\ Cell(s, t) = {} \/ Cell(s, t) = {Zero}
          BY <2>1
      <4>2. /\ Cell(s, t - 1) = {} \/ Cell(s, t) = {} =>
                   rewards[s][t + 1].prev = {} /\ rewards[s][t + 1].cur = {}
            /\ ~(Cell(s, t - 1) = {} \/ Cell(s, t) = {}) =>
                   rewards[s][t + 1].prev = Cell(s, t - 1) /\ rewards[s][t + 1].cur = Cell(s, t)
          BY <2>3, <3>2, TurnDifference
      <4>3. CASE Cell(s, t - 1) = {} \/ Cell(s, t) = {}
          BY <4>2, <4>3, Zenon
      <4>4. CASE ~(Cell(s, t - 1) = {} \/ Cell(s, t) = {})
          BY <4>1, <4>2, <4>4, Zenon
      <4> QED
          BY <4>3, <4>4
    <3> QED
        BY <2>2, <2>3, <3>2, <3>3, TurnRewardsShape DEF MultiTurn, SiopInv
  <2>4. CASE ~MultiTurn(s)
    <3>1. rewards[s] = <<>> \/ rewards[s] = <<Reward({}, {}, freq[s])>>
        BY <2>2, <2>4
    <3>2. rewards[s] = <<Reward({}, {}, freq[s])>> /\ k = 1
        BY <3>1
    <3>3. rewards[s][k] = Reward({}, {}, freq[s])
        BY <3>2
    <3> QED
        BY <3>3 DEF Reward
  <2> QED
      BY <2>3, <2>4
<1> QED
    BY <1>1, SiopAlways, PTL

(***************************************************************************)
(* Sums over finite sets, by least counterexamples.                        *)
(***************************************************************************)
LEMMA Least ==
    ASSUME NEW T \in SUBSET Nat, T # {}
    PROVE  \E m \in T : \A k \in T : m <= k
<1> DEFINE R == OpToRel(<, Nat)
<1>1. IsWellFoundedOn(R, Nat)
    BY NatLessThanWellFounded
<1>2. \A x, y \in Nat : <<x, y>> \in R <=> x < y
    BY DEF OpToRel
<1> HIDE DEF R
<1>3. PICK m \in T : \A y \in T : ~ (<<y, m>> \in R)
    BY <1>1, WFMin
<1>4. \A k \in T : ~ (k < m)
    BY <1>2, <1>3
<1>5. \A k \in T : m <= k
    BY <1>4
<1> QED
    BY <1>5

(* A smallest subset among some: without any element of it, it is not one  *)
(* of them.                                                                *)
LEMMA Smallest ==
    ASSUME NEW S, IsFiniteSet(S), NEW Bad \in SUBSET (SUBSET S), Bad # {}
    PROVE  \E T \in Bad : IsFiniteSet(T) /\ \A x \in T : T \ {x} \notin Bad
<1>1. \A T \in Bad : IsFiniteSet(T) /\ Cardinality(T) \in Nat
    BY FS_Subset, FS_CardinalityType
<1> DEFINE sizes == {Cardinality(T) : T \in Bad}
<1>2. PICK m \in sizes : \A k \in sizes : m <= k
  <2>1. sizes \in SUBSET Nat /\ sizes # {}
      BY <1>1
  <2> HIDE DEF sizes
  <2> QED
      BY <2>1, Least
<1>3. PICK T \in Bad : Cardinality(T) = m
    OBVIOUS
<1>4. ASSUME NEW x \in T, T \ {x} \in Bad PROVE FALSE
  <2>1. Cardinality(T \ {x}) = Cardinality(T) - 1
      BY <1>1, FS_RemoveElement
  <2>2. m <= Cardinality(T \ {x})
      BY <1>2, <1>4
  <2> QED
      BY <1>1, <1>3, <2>1, <2>2
<1> QED
    BY <1>1, <1>4

(* The partial sums of F over the subsets of S.                            *)
Any(T) == CHOOSE y \in T : TRUE
Sums(g, F, S) == g = [T \in SUBSET S |-> IF T = {} THEN 0 ELSE F[Any(T)] + g[T \ {Any(T)}]]

LEMMA AnyIsMember == ASSUME NEW T, T # {} PROVE Any(T) \in T
BY DEF Any

LEMMA SumsExist == ASSUME NEW S, IsFiniteSet(S), NEW F PROVE \E g : Sums(g, F, S)
<1> DEFINE Sub(n) == {T \in SUBSET S : Cardinality(T) <= n}
           Step(g, T) == IF T = {} THEN 0 ELSE F[Any(T)] + g[T \ {Any(T)}]
           Upto(g, n) == g = [T \in Sub(n) |-> Step(g, T)]
           Bad == {n \in Nat : ~ \E g : Upto(g, n)}
<1>1. \A T \in SUBSET S : IsFiniteSet(T) /\ Cardinality(T) \in Nat
    BY FS_Subset, FS_CardinalityType
<1>2. ASSUME Bad # {} PROVE FALSE
  <2>1. PICK m \in Bad : \A k \in Bad : m <= k
      BY <1>2, Least
  <2>2. CASE m = 0
    <3> DEFINE g == [T \in Sub(0) |-> 0]
    <3>1. \A T \in Sub(0) : T = {}
        BY <1>1, FS_EmptySet
    <3>2. Upto(g, 0)
        BY <3>1
    <3> QED
        BY <2>2, <3>2
  <2>3. CASE m # 0
    <3>0. m \in Nat
        OBVIOUS
    <3>1. m - 1 \in Nat /\ m - 1 \notin Bad
      <4> HIDE DEF Bad
      <4> QED
          BY <2>1, <2>3, <3>0
    <3>2. PICK h : Upto(h, m - 1)
        BY <3>1
    <3> DEFINE g == [T \in Sub(m) |-> Step(h, T)]
    <3>3. ASSUME NEW T \in Sub(m), T # {} PROVE T \ {Any(T)} \in Sub(m - 1) /\ T \ {Any(T)} \in Sub(m)
      <4>1. Cardinality(T \ {Any(T)}) = Cardinality(T) - 1
          BY <1>1, <3>3, AnyIsMember, FS_RemoveElement
      <4> QED
          BY <1>1, <4>1
    <3>4. \A U \in Sub(m - 1) : h[U] = Step(h, U)
        BY <3>2
    <3>5. ASSUME NEW T \in Sub(m), T # {} PROVE g[T \ {Any(T)}] = h[T \ {Any(T)}]
      <4> DEFINE U == T \ {Any(T)}
      <4>1. U \in Sub(m - 1) /\ U \in Sub(m)
          BY <3>3, <3>5
      <4>2. g[U] = Step(h, U)
          BY <4>1
      <4>3. h[U] = Step(h, U)
          BY <4>1, <3>4
      <4> QED
          BY <4>2, <4>3
    <3>6. \A T \in Sub(m) : Step(g, T) = Step(h, T)
      <4> HIDE DEF Sub, g
      <4> QED
          BY <3>5
    <3>7. Upto(g, m)
      <4> HIDE DEF Sub, Step
      <4> QED
          BY <3>6
    <3> QED
        BY <2>1, <3>7
  <2> QED
      BY <2>2, <2>3
<1>3. Cardinality(S) \in Nat
    BY <1>1
<1>4. PICK g : Upto(g, Cardinality(S))
    BY <1>2, <1>3
<1>5. Sub(Cardinality(S)) = SUBSET S
    BY FS_Subset
<1>6. Sums(g, F, S)
    BY <1>4, <1>5 DEF Sums
<1> QED
    BY <1>6

LEMMA SumsStep ==
    ASSUME NEW S, NEW F, NEW g, Sums(g, F, S)
    PROVE  g[{}] = 0 /\ \A T \in SUBSET S : T # {} => g[T] = F[Any(T)] + g[T \ {Any(T)}]
BY DEF Sums

(* Equal summands have the same sum.                                       *)
LEMMA SumsEqual ==
    ASSUME NEW S, IsFiniteSet(S), NEW F, NEW G, \A x \in S : F[x] = G[x],
           NEW g, Sums(g, F, S), NEW h, Sums(h, G, S)
    PROVE  g[S] = h[S]
<1> DEFINE Bad == {T \in SUBSET S : g[T] # h[T]}
<1>1. ASSUME Bad # {} PROVE FALSE
  <2>1. PICK T \in Bad : \A x \in T : T \ {x} \notin Bad
      BY <1>1, Smallest
  <2>2. T # {}
      BY <2>1, SumsStep
  <2>3. Any(T) \in T /\ Any(T) \in S
      BY <2>2, AnyIsMember
  <2>4. g[T] = F[Any(T)] + g[T \ {Any(T)}] /\ h[T] = G[Any(T)] + h[T \ {Any(T)}]
      BY <2>2, SumsStep
  <2>5. g[T \ {Any(T)}] = h[T \ {Any(T)}]
      BY <2>1, <2>3
  <2> QED
      BY <2>1, <2>3, <2>4, <2>5
<1> QED
    BY <1>1

(* The sizes of disjoint parts add up to the size of the whole.            *)
Whole(P, S) == UNION {P[x] : x \in S}
Apart(P, S) == (\A x \in S : IsFiniteSet(P[x])) /\ \A x, y \in S : x # y => P[x] \cap P[y] = {}

LEMMA PartsAddUp ==
    ASSUME NEW S, IsFiniteSet(S), NEW P, Apart(P, S), NEW F,
           \A x \in S : F[x] = Cardinality(P[x]), NEW g, Sums(g, F, S)
    PROVE  g[S] = Cardinality(Whole(P, S))
<1> DEFINE All(T) == UNION {P[x] : x \in T}
           Bad == {T \in SUBSET S : ~(IsFiniteSet(All(T)) /\ g[T] = Cardinality(All(T)))}
<1>0. /\ \A x \in S : IsFiniteSet(P[x])
      /\ \A x, y \in S : x # y => P[x] \cap P[y] = {}
    BY DEF Apart
<1>9. \A T \in SUBSET S : T # {} => g[T] = F[Any(T)] + g[T \ {Any(T)}]
    BY DEF Sums
<1>1. ASSUME Bad # {} PROVE FALSE
  <2>1. PICK T \in Bad : \A x \in T : T \ {x} \notin Bad
      BY <1>1, Smallest
  <2>2. CASE T = {}
    <3>1. All(T) = {} /\ g[T] = 0
        BY <2>2, SumsStep
    <3> QED
        BY <2>1, <3>1, FS_EmptySet
  <2>3. CASE T # {}
    <3> DEFINE x == Any(T)
               U == T \ {x}
    <3>1. x \in T /\ x \in S
        BY <2>3, AnyIsMember
    <3>2. g[T] = F[x] + g[U]
      <4>1. g[T] = F[Any(T)] + g[T \ {Any(T)}]
          BY <2>3, <1>9 DEF Bad
      <4> QED
          BY <4>1, Zenon
    <3> HIDE DEF x
    <3>3. IsFiniteSet(All(U)) /\ g[U] = Cardinality(All(U))
        BY <2>1, <3>1
    <3>4. All(T) = P[x] \cup All(U) /\ P[x] \cap All(U) = {}
        BY <1>0, <3>1
    <3>5. IsFiniteSet(All(T)) /\ Cardinality(All(T)) = Cardinality(P[x]) + Cardinality(All(U)) - 0
      <4> DEFINE A == P[x]
                 B == All(U)
      <4>1. IsFiniteSet(A) /\ IsFiniteSet(B) /\ A \cap B = {} /\ All(T) = A \cup B
          BY <1>0, <3>1, <3>3, <3>4
      <4>2. Cardinality({}) = 0
          BY FS_EmptySet
      <4> HIDE DEF A, B, All
      <4>3. IsFiniteSet(A \cup B) /\ Cardinality(A \cup B) = Cardinality(A) + Cardinality(B) - Cardinality(A \cap B)
          BY <4>1, FS_Union
      <4>4. IsFiniteSet(All(T)) /\ Cardinality(All(T)) = Cardinality(A) + Cardinality(B) - 0
          BY <4>1, <4>2, <4>3, Zenon
      <4> QED
          BY <4>4 DEF A, B
    <3> QED
      <4> HIDE DEF All, U
      <4>1. Cardinality(P[x]) \in Nat /\ Cardinality(All(U)) \in Nat
          BY <1>0, <3>1, <3>3, FS_CardinalityType
      <4>2. g[T] = Cardinality(All(T))
          BY <3>1, <3>2, <3>3, <3>5, <4>1
      <4> QED
          BY <2>1, <3>5, <4>2
  <2> QED
      BY <2>2, <2>3
<1>2. S \notin Bad
    BY <1>1
<1> QED
    BY <1>2 DEF Whole

SumOf(F, S) == (CHOOSE g : Sums(g, F, S))[S]

LEMMA SumOfValue ==
    ASSUME NEW S, IsFiniteSet(S), NEW F, NEW G, \A x \in S : F[x] = G[x], NEW g, Sums(g, G, S)
    PROVE  SumOf(F, S) = g[S]
<1>1. \E h : Sums(h, F, S)
    BY SumsExist
<1> DEFINE h == CHOOSE f : Sums(f, F, S)
<1>2. Sums(h, F, S)
    BY <1>1
<1> HIDE DEF h
<1>3. h[S] = g[S]
    BY <1>2, SumsEqual
<1> QED
    BY <1>3 DEF SumOf, h

LEMMA SumOfEqual ==
    ASSUME NEW S, IsFiniteSet(S), NEW F, NEW G, \A x \in S : F[x] = G[x]
    PROVE  SumOf(F, S) = SumOf(G, S)
<1>1. PICK g : Sums(g, G, S)
    BY SumsExist
<1>2. SumOf(F, S) = g[S]
    BY <1>1, SumOfValue
<1>3. SumOf(G, S) = g[S]
    BY <1>1, SumOfValue
<1> QED
    BY <1>2, <1>3

LEMMA SizesAddUp ==
    ASSUME NEW S, IsFiniteSet(S), NEW P, Apart(P, S), NEW F,
           \A x \in S : F[x] = Cardinality(P[x])
    PROVE  SumOf(F, S) = Cardinality(Whole(P, S))
<1>1. PICK g : Sums(g, F, S)
    BY SumsExist
<1>2. g[S] = Cardinality(Whole(P, S))
    BY <1>1, PartsAddUp
<1>3. SumOf(F, S) = g[S]
    BY <1>1, SumOfValue
<1> QED
    BY <1>2, <1>3

(***************************************************************************)
(* The modes of a query and their frequencies.                             *)
(***************************************************************************)
LEMMA QueryFinite ==
    ASSUME BatchTypes, NEW s
    PROVE  IsFiniteSet(Query(s)) /\ IsFiniteSet(Answered(s)) /\ IsFiniteSet(References(s))
<1>1. IsFiniteSet(Query(s)) /\ IsFiniteSet(Answered(s))
    BY SamplesFinite, FS_Subset DEF Query, Answered
<1> DEFINE f == [j \in Query(s) |-> reference[j]]
<1>2. f = [j \in Query(s) |-> f[j]] /\ References(s) \in SUBSET {f[j] : j \in Query(s)}
    BY DEF References
<1> HIDE DEF f
<1>3. IsFiniteSet({f[j] : j \in Query(s)})
    BY <1>1, <1>2, ImageFinite
<1>4. IsFiniteSet(References(s))
    BY <1>2, <1>3, FS_Subset
<1> QED
    BY <1>1, <1>4

(* The share of the mode of s with evidence w.                             *)
Support(s, w) == [x \in References(s) |-> Cardinality(Carrying(s, x)) * w[<<uid[s], x>>]]
Share(s, w) == <<Cardinality(Bucket(s)) * w[<<uid[s], reference[s]>>], SumOf(Support(s, w), References(s))>>

LEMMA PosteriorIsShare == ASSUME BatchTypes, NEW s, NEW w PROVE Posterior(s, w) = Share(s, w)
<1> DEFINE S == References(s)
           e(x) == Cardinality(Carrying(s, x)) * w[<<uid[s], x>>]
           F == [x \in S |-> e(x)]
           Q(g) == g = [T \in SUBSET S |-> IF T = {} THEN 0 ELSE e(Any(T)) + g[T \ {Any(T)}]]
<1>1. IsFiniteSet(S)
    BY QueryFinite
<1>2. ASSUME NEW g PROVE Sums(g, F, S) <=> Q(g)
  <2> HIDE DEF S, e
  <2>1. \A T \in SUBSET S : T # {} => F[Any(T)] = e(Any(T))
      BY AnyIsMember
  <2> QED
      BY <2>1 DEF Sums
<1>3. MapThenSumSet(LAMBDA x : Cardinality(Carrying(s, x)) * w[<<uid[s], x>>], S) = (CHOOSE g : Q(g))[S]
    BY DEF MapThenSumSet, MapThenFoldSet, Any
<1> DEFINE h == CHOOSE g : Q(g)
<1> HIDE DEF S, F, Q
<1>4. Sums(h, F, S)
    BY <1>1, <1>2, SumsExist
<1>5. SumOf(F, S) = h[S]
    BY <1>1, <1>4, SumOfValue
<1> QED
    BY <1>3, <1>5 DEF Posterior, Share, Support, S, F


(* The modes as clustering left them, until the gold answers replace them. *)
Clustered == lead \in Clusterings /\ reference = [s \in Samples |-> ans[lead[s]]]

(* The frequencies counted, and the shares with evidence w.                *)
Counted == [s \in Samples |-> Frequency(lead, s)]
Weighted(s) == reference[s] # NoAnswer /\ Cardinality(References(s)) > 1
Shares(w) == [s \in Samples |-> IF Weighted(s) THEN Share(s, w) ELSE Frequency(lead, s)]
Keys == {<<uid[s], reference[s]>> : s \in {j \in Samples : reference[j] # NoAnswer}}

(* Before the gold answers are put in, the frequencies are counted or      *)
(* weighted with some evidence.                                            *)
ModesInv ==
    /\ pc # "cluster" /\ ~call.gold => Clustered
    /\ pc = "calibrate" => freq = Counted
    /\ pc # "cluster" /\ ~call.gold => freq = Counted \/ \E w \in [Keys -> Nat] : freq = Shares(w)

MajorityInv ==
    pc = "done" /\ call.mode = "majority_binary" =>
        rewards = [s \in Samples |->
                      <<Reward({}, {}, IF reference[s] # NoAnswer /\ Wins(s) THEN <<1, 1>> ELSE <<0, 1>>)>>]

LEMMA ModesStay ==
    ASSUME ModesInv, UNCHANGED <<call, uid, ans, lead, reference, freq>>, pc # "cluster", pc' # "calibrate"
    PROVE  ModesInv'
<1>1. Samples' = Samples /\ Clusterings' = Clusterings /\ Keys' = Keys /\ Counted' = Counted
    BY DEF Samples, Clusterings, Keys, Counted, Answered, Query, Frequency, Mode
<1>2. Clustered' <=> Clustered
    BY <1>1 DEF Clustered
<1>3. ASSUME NEW w PROVE Shares(w)' = Shares(w)
    BY <1>1 DEF Shares, Weighted, Share, Support, Frequency, References, Carrying, Bucket, Query, Mode, Answered
<1> QED
    BY <1>1, <1>2, <1>3, Zenon DEF ModesInv

LEMMA ModesCluster == ASSUME Cluster PROVE ModesInv'
<1>1. pc' = "calibrate" /\ UNCHANGED batch
    BY DEF Cluster
<1>2. Samples' = Samples /\ Clusterings' = Clusterings
    BY <1>1 DEF Samples, batch, Clusterings, Answered, Query
<1>3. lead' \in Clusterings' /\ reference' = [s \in Samples' |-> ans'[lead'[s]]]
    BY <1>1, <1>2 DEF Cluster, batch
<1>4. freq' = Counted'
    BY <1>1, <1>2 DEF Cluster, Counted, batch, Frequency, Mode, Answered, Query
<1> QED
    BY <1>1, <1>3, <1>4 DEF ModesInv, Clustered

LEMMA ModesCalibrate == ASSUME SiopInv, ModesInv, Calibrate PROVE ModesInv'
<1>1. /\ pc = "calibrate" /\ pc' = "build" /\ freq = Counted
      /\ UNCHANGED <<call, uid, ans, client, lead, reference>>
    BY DEF Calibrate, batch, ModesInv
<1>2. Samples' = Samples /\ Clusterings' = Clusterings /\ Keys' = Keys /\ Counted' = Counted
    BY <1>1 DEF Samples, Clusterings, Keys, Counted, Answered, Query, Frequency, Mode
<1>3. Clustered' <=> Clustered
    BY <1>1, <1>2 DEF Clustered
<1>4. ASSUME NEW w PROVE Shares(w)' = Shares(w)
    BY <1>1, <1>2 DEF Shares, Weighted, Share, Support, Frequency, References, Carrying, Bucket, Query, Mode, Answered
<1>5. PICK w \in Evidence :
          freq' = [s \in Samples |->
                      IF call.calibrated /\ client /\ reference[s] # NoAnswer /\ Cardinality(References(s)) > 1
                      THEN Posterior(s, w) ELSE freq[s]]
    BY DEF Calibrate
<1>6. w \in [Keys -> Nat]
    BY <1>5, ConstantsAssumption DEF Evidence, Keys
<1>7. CASE call.calibrated /\ client
  <2>1. freq' = Shares(w)
    <3>1. \A s \in Samples : Posterior(s, w) = Share(s, w)
        BY PosteriorIsShare DEF SiopInv
    <3> QED
        BY <1>1, <1>5, <1>7, <3>1 DEF Shares, Weighted, Counted
  <2> QED
      BY <1>1, <1>2, <1>3, <1>4, <1>6, <2>1, Zenon DEF ModesInv
<1>8. CASE ~(call.calibrated /\ client)
  <2>1. freq' = Counted
      BY <1>1, <1>5, <1>8 DEF Counted
  <2> QED
      BY <1>1, <1>2, <1>3, <2>1 DEF ModesInv
<1> QED
    BY <1>7, <1>8

LEMMA ModesBuild == ASSUME ModesInv, Build PROVE ModesInv'
<1>1. pc' = "score" /\ pc # "cluster" /\ UNCHANGED <<call, uid, ans, lead>>
    BY DEF Build, batch
<1>2. CASE call.gold
    BY <1>1, <1>2 DEF ModesInv
<1>3. CASE ~call.gold
  <2>1. UNCHANGED <<reference, freq>>
      BY <1>3 DEF Build, Overridden
  <2> QED
      BY <1>1, <2>1, ModesStay
<1> QED
    BY <1>2, <1>3

LEMMA ModesNext == ASSUME SiopInv, ModesInv, [Next]_vars PROVE ModesInv'
<1>1. CASE ServerChanges
  <2>1. UNCHANGED <<call, uid, ans, lead, reference, freq, pc>> /\ pc # "calibrate"
      BY <1>1 DEF ServerChanges, batch, modes
  <2> QED
    <3>1. CASE pc = "cluster"
        BY <2>1, <3>1 DEF ModesInv
    <3>2. CASE pc # "cluster"
        BY <2>1, <3>2, ModesStay
    <3> QED
        BY <3>1, <3>2
<1>2. CASE ScoreNothing \/ StartScoring \/ ScoreChunk \/ ScoreReturns \/ ProcessRewards \/ MajorityRewards
              \/ FrequencyRewards
  <2>1. /\ UNCHANGED <<call, uid, ans, lead, reference, freq>>
        /\ pc # "cluster" /\ pc' # "calibrate"
      BY <1>2 DEF ScoreNothing, StartScoring, ScoreChunk, ScoreReturns, ProcessRewards, MajorityRewards,
                  FrequencyRewards, batch, modes
  <2> QED
      BY <2>1, ModesStay
<1>3. CASE UNCHANGED vars
  <2>1. UNCHANGED <<call, uid, ans, lead, reference, freq, pc>>
      BY <1>3 DEF vars, batch, modes
  <2>2. CASE pc \in {"cluster", "calibrate"}
    <3>1. Counted' = Counted /\ (Clustered' <=> Clustered) /\ Keys' = Keys
        BY <2>1 DEF Counted, Clustered, Clusterings, Samples, Answered, Query, Frequency, Mode, Keys
    <3> QED
        BY <2>1, <2>2, <3>1 DEF ModesInv
  <2>3. CASE pc \notin {"cluster", "calibrate"}
      BY <2>1, <2>3, ModesStay
  <2> QED
      BY <2>2, <2>3
<1> QED
    BY <1>1, <1>2, <1>3, ModesCluster, ModesCalibrate, ModesBuild, Zenon DEF Next, Idle

LEMMA MajorityNext == ASSUME SiopInv, MajorityInv, [Next]_vars PROVE MajorityInv'
<1>1. CASE MajorityRewards
  <2>1. UNCHANGED <<call, uid, reference>>
      BY <1>1 DEF MajorityRewards, batch, modes
  <2>2. ASSUME NEW s PROVE Wins(s)' <=> Wins(s)
      BY <2>1 DEF Wins, References, Carrying, Bucket, Query, Samples
  <2>3. Samples' = Samples
      BY <2>1 DEF Samples
  <2>4. rewards' = [s \in Samples |->
            <<Reward({}, {}, IF reference[s] # NoAnswer /\ Wins(s) THEN <<1, 1>> ELSE <<0, 1>>)>>]
      BY <1>1 DEF MajorityRewards
  <2> QED
      BY <2>1, <2>2, <2>3, <2>4 DEF MajorityInv, Reward
<1>2. CASE UNCHANGED vars
  <2>1. UNCHANGED <<call, uid, reference, pc, rewards>>
      BY <1>2 DEF vars, batch, modes
  <2>2. ASSUME NEW s PROVE Wins(s)' <=> Wins(s)
      BY <2>1 DEF Wins, References, Carrying, Bucket, Query, Samples
  <2>3. Samples' = Samples
      BY <2>1 DEF Samples
  <2> QED
      BY <2>1, <2>2, <2>3 DEF MajorityInv, Reward
<1>3. CASE ProcessRewards \/ FrequencyRewards
  <2>1. call'.mode # "majority_binary"
      BY <1>3 DEF ProcessRewards, FrequencyRewards, SiopInv, ScoresInv, batch
  <2> QED
      BY <2>1 DEF MajorityInv
<1>4. CASE pc' # "done"
    BY <1>4 DEF MajorityInv
<1>5. CASE ServerChanges \/ Cluster \/ Calibrate \/ Build \/ ScoreNothing \/ StartScoring \/ ScoreChunk
              \/ ScoreReturns
  <2>1. pc' # "done"
      BY <1>5 DEF ServerChanges, Cluster, Calibrate, Build, ScoreNothing, StartScoring, ScoreChunk, ScoreReturns
  <2> QED
      BY <2>1, <1>4
<1> QED
    BY <1>1, <1>2, <1>3, <1>5, Zenon DEF Next, Idle

LEMMA ModesAlways == Spec => [](SiopInv /\ ModesInv /\ MajorityInv)
<1>1. Init => ModesInv /\ MajorityInv
    BY DEF Init, ModesInv, MajorityInv
<1>2. SiopInv /\ ModesInv /\ MajorityInv /\ [Next]_vars => ModesInv' /\ MajorityInv'
    BY ModesNext, MajorityNext
<1> QED
    BY <1>1, <1>2, SiopAlways, PTL DEF Spec

(***************************************************************************)
(* When equal answers are never separated: a reference is a mode.          *)
(***************************************************************************)
LEMMA MinIsLeast ==
    ASSUME NEW T \in SUBSET Nat, T # {} PROVE Min(T) \in T /\ \A k \in T : Min(T) <= k
BY Least DEF Min

Modal == BatchTypes /\ Clustered /\ call.determined

LEMMA SamplesAreNumbers == Samples \subseteq Nat
BY DEF Samples

LEMMA Leads ==
    ASSUME Modal, NEW s \in Samples
    PROVE  /\ ans[s] = NoAnswer => reference[s] = NoAnswer
           /\ ans[s] # NoAnswer => /\ lead[s] \in Answered(s) /\ lead[lead[s]] = lead[s]
                                   /\ reference[s] # NoAnswer
<1>1. /\ lead \in [Samples -> Samples] /\ reference = [k \in Samples |-> ans[lead[k]]]
      /\ lead[lead[s]] = lead[s]
      /\ IF ans[s] = NoAnswer THEN lead[s] = s ELSE lead[s] \in Answered(s)
    BY DEF Modal, Clustered, Clusterings
<1> QED
    BY <1>1 DEF Answered

LEMMA SameQuery ==
    ASSUME NEW s \in Samples, NEW j \in Query(s)
    PROVE  /\ j \in Samples /\ uid[j] = uid[s] /\ Query(j) = Query(s) /\ Answered(j) = Answered(s)
           /\ References(j) = References(s) /\ \A x : Carrying(j, x) = Carrying(s, x)
<1>1. j \in Samples /\ uid[j] = uid[s]
    BY DEF Query
<1>2. Query(j) = Query(s)
    BY <1>1 DEF Query
<1> QED
    BY <1>1, <1>2 DEF Answered, References, Carrying

LEMMA BucketIsMode ==
    ASSUME Modal, NEW s \in Samples, ans[s] # NoAnswer
    PROVE  s \in Bucket(s) /\ Bucket(s) = Mode(lead, s) /\ Bucket(s) \subseteq Answered(s)
<1>1. s \in Bucket(s)
    BY DEF Bucket, Query
<1>2. ASSUME NEW j \in Bucket(s) PROVE j \in Mode(lead, s)
  <2>1. j \in Query(s) /\ reference[j] = reference[s]
      BY <1>2 DEF Bucket
  <2>2. j \in Samples /\ Answered(j) = Answered(s)
      BY <2>1, SameQuery
  <2>3. ans[j] # NoAnswer
      BY <2>1, <2>2, Leads
  <2>4. /\ lead[s] \in Answered(s) /\ lead[lead[s]] = lead[s]
        /\ lead[j] \in Answered(s) /\ lead[lead[j]] = lead[j]
      BY <2>2, <2>3, Leads
  <2>5. lead[s] \in Query(s) /\ lead[s] \in Samples
      BY <2>4 DEF Answered, Query
  <2>6. Answered(lead[s]) = Answered(s)
      BY <2>5, SameQuery
  <2>7. ans[lead[s]] = ans[lead[j]]
      BY <2>1, <2>2 DEF Modal, Clustered
  <2>8. lead[lead[s]] = lead[lead[j]]
      BY <2>4, <2>5, <2>6, <2>7 DEF Modal, Clustered, Clusterings
  <2> QED
      BY <2>1, <2>3, <2>4, <2>8 DEF Mode, Answered
<1>3. ASSUME NEW j \in Mode(lead, s) PROVE j \in Bucket(s)
    BY <1>3 DEF Mode, Answered, Bucket, Query, Modal, Clustered
<1> QED
    BY <1>1, <1>2, <1>3 DEF Mode

(* The carriers of a reference are the bucket of the first of them.        *)
LEMMA CarriersAreBucket ==
    ASSUME Modal, NEW s \in Samples, NEW x \in References(s)
    PROVE  LET m == Min(Carrying(s, x))
           IN  /\ m \in Answered(s) /\ m \in Samples /\ ans[m] # NoAnswer /\ reference[m] = x
               /\ Carrying(s, x) = Bucket(m) /\ \A k \in Carrying(s, x) : m <= k
<1> DEFINE C == Carrying(s, x)
           m == Min(C)
<1>1. C \in SUBSET Samples /\ C # {}
    BY DEF Carrying, References, Query
<1>2. C \in SUBSET Nat
    BY <1>1, SamplesAreNumbers
<1>3. m \in C /\ \A k \in C : m <= k
    BY <1>1, <1>2, MinIsLeast
<1> HIDE DEF m
<1>4. m \in Query(s) /\ reference[m] = x /\ x # NoAnswer
    BY <1>3 DEF Carrying, References
<1>5. m \in Samples /\ Query(m) = Query(s)
    BY <1>4, SameQuery
<1>6. ans[m] # NoAnswer
    BY <1>4, <1>5, Leads
<1>7. Carrying(s, x) = Bucket(m)
    BY <1>4, <1>5 DEF Carrying, Bucket
<1> QED
    BY <1>3, <1>4, <1>5, <1>6, <1>7 DEF Answered, m

(* The carriers of the references of a query are its answered samples.     *)
Carriers(s) == [x \in References(s) |-> Carrying(s, x)]
Sizes(s) == [x \in References(s) |-> Cardinality(Carrying(s, x))]

LEMMA CarriersAddUp ==
    ASSUME Modal, NEW s \in Samples
    PROVE  SumOf(Sizes(s), References(s)) = Cardinality(Answered(s))
<1>1. Whole(Carriers(s), References(s)) = Answered(s)
  <2>1. ASSUME NEW j \in Answered(s) PROVE j \in Whole(Carriers(s), References(s))
    <3>1. j \in Query(s) /\ j \in Samples /\ ans[j] # NoAnswer
        BY <2>1 DEF Answered, Query
    <3>2. reference[j] \in References(s) /\ j \in Carrying(s, reference[j])
        BY <3>1, Leads DEF References, Carrying
    <3> QED
        BY <3>2 DEF Whole, Carriers
  <2>2. ASSUME NEW j \in Whole(Carriers(s), References(s)) PROVE j \in Answered(s)
    <3>1. PICK x \in References(s) : j \in Carrying(s, x)
        BY <2>2 DEF Whole, Carriers
    <3>2. j \in Query(s) /\ reference[j] # NoAnswer
        BY <3>1 DEF Carrying, References
    <3>3. j \in Samples
        BY <3>2 DEF Query
    <3>4. ans[j] # NoAnswer
        BY <3>2, <3>3, Leads
    <3> QED
        BY <3>2, <3>4 DEF Answered
  <2> QED
      BY <2>1, <2>2
<1>2. IsFiniteSet(Query(s)) /\ IsFiniteSet(References(s))
    BY QueryFinite DEF Modal
<1>3. Apart(Carriers(s), References(s))
  <2>1. \A x \in References(s) : IsFiniteSet(Carrying(s, x))
      BY <1>2, FS_Subset DEF Carrying
  <2>2. \A x, y \in References(s) : x # y => Carrying(s, x) \cap Carrying(s, y) = {}
      BY DEF Carrying
  <2> QED
      BY <2>1, <2>2 DEF Apart, Carriers
<1>4. \A x \in References(s) : Sizes(s)[x] = Cardinality(Carriers(s)[x])
    BY DEF Sizes, Carriers
<1> QED
    BY <1>1, <1>2, <1>3, <1>4, SizesAddUp

(* What the modes of a query hold together.                                *)
Mass(s) == [x \in References(s) |-> freq[Min(Carrying(s, x))][1]]

LEMMA MassIsSum ==
    ASSUME BatchTypes, NEW s
    PROVE  MapThenSumSet(LAMBDA x : freq[Min(Carrying(s, x))][1], References(s)) = SumOf(Mass(s), References(s))
<1> DEFINE S == References(s)
           e(x) == freq[Min(Carrying(s, x))][1]
           F == [x \in S |-> e(x)]
           Q(g) == g = [T \in SUBSET S |-> IF T = {} THEN 0 ELSE e(Any(T)) + g[T \ {Any(T)}]]
<1>1. IsFiniteSet(S)
    BY QueryFinite
<1>2. ASSUME NEW g PROVE Sums(g, F, S) <=> Q(g)
  <2> HIDE DEF S, e
  <2>1. \A T \in SUBSET S : T # {} => F[Any(T)] = e(Any(T))
      BY AnyIsMember
  <2> QED
      BY <2>1 DEF Sums
<1>3. MapThenSumSet(LAMBDA x : freq[Min(Carrying(s, x))][1], S) = (CHOOSE g : Q(g))[S]
    BY DEF MapThenSumSet, MapThenFoldSet, Any
<1> DEFINE h == CHOOSE g : Q(g)
<1> HIDE DEF S, F, Q
<1>4. Sums(h, F, S)
    BY <1>1, <1>2, SumsExist
<1>5. SumOf(F, S) = h[S]
    BY <1>1, <1>4, SumOfValue
<1> QED
    BY <1>3, <1>5 DEF Mass, S, F

(* A query of which the frequencies are counted, or weighted with evidence.*)
CountedIn(s) == \A j \in Answered(s) : freq[j] = Frequency(lead, j)
SharedIn(s, w) == \A j \in Answered(s) : freq[j] = Share(j, w)

Distributed(s) ==
    /\ \A j \in Bucket(s) : freq[j] = freq[s]
    /\ \A j \in Answered(s) : freq[j][2] = freq[s][2]
    /\ SumOf(Mass(s), References(s)) = freq[s][2]

LEMMA CountsAreDistributed ==
    ASSUME Modal, NEW s \in Samples, ans[s] # NoAnswer, CountedIn(s) PROVE Distributed(s)
<1>1. s \in Bucket(s) /\ Bucket(s) = Mode(lead, s) /\ Bucket(s) \subseteq Answered(s)
    BY BucketIsMode
<1>2. ASSUME NEW j \in Answered(s)
      PROVE  j \in Samples /\ ans[j] # NoAnswer /\ Answered(j) = Answered(s)
    BY SameQuery DEF Answered, Query
<1>3. ASSUME NEW j \in Answered(s)
      PROVE  freq[j] = <<Cardinality(Mode(lead, j)), Cardinality(Answered(s))>>
    BY <1>2, <1>3 DEF CountedIn, Frequency
<1>4. ASSUME NEW j \in Bucket(s) PROVE freq[j] = freq[s]
  <2>1. lead[j] = lead[s] /\ j \in Answered(s) /\ s \in Answered(s)
      BY <1>1, <1>4 DEF Mode
  <2>2. Mode(lead, j) = Mode(lead, s)
      BY <1>2, <2>1 DEF Mode
  <2> QED
      BY <1>3, <2>1, <2>2
<1>5. \A x \in References(s) : Mass(s)[x] = Sizes(s)[x]
  <2> SUFFICES ASSUME NEW x \in References(s) PROVE Mass(s)[x] = Sizes(s)[x]
      OBVIOUS
  <2> DEFINE m == Min(Carrying(s, x))
  <2>1. m \in Answered(s) /\ m \in Samples /\ ans[m] # NoAnswer /\ Carrying(s, x) = Bucket(m)
      BY CarriersAreBucket
  <2> HIDE DEF m
  <2>2. Bucket(m) = Mode(lead, m)
      BY <2>1, BucketIsMode
  <2>3. freq[m][1] = Cardinality(Carrying(s, x))
      BY <1>3, <2>1, <2>2
  <2> QED
      BY <2>3 DEF Mass, Sizes, m
<1>6. IsFiniteSet(References(s))
    BY QueryFinite DEF Modal
<1>7. SumOf(Mass(s), References(s)) = Cardinality(Answered(s))
    BY <1>5, <1>6, SumOfEqual, CarriersAddUp
<1>8. s \in Answered(s)
    BY <1>1
<1>9. freq[s][2] = Cardinality(Answered(s)) /\ \A j \in Answered(s) : freq[j][2] = freq[s][2]
    BY <1>3, <1>8
<1> QED
    BY <1>4, <1>7, <1>9 DEF Distributed

LEMMA SharesAreDistributed ==
    ASSUME Modal, NEW s \in Samples, ans[s] # NoAnswer, NEW w, SharedIn(s, w) PROVE Distributed(s)
<1>1. s \in Bucket(s) /\ Bucket(s) \subseteq Answered(s)
    BY BucketIsMode
<1>2. ASSUME NEW j \in Answered(s)
      PROVE  /\ j \in Samples /\ uid[j] = uid[s] /\ References(j) = References(s) /\ Query(j) = Query(s)
             /\ \A x : Carrying(j, x) = Carrying(s, x)
    BY SameQuery DEF Answered
<1>3. ASSUME NEW j \in Answered(s) PROVE Support(j, w) = Support(s, w)
    BY <1>2 DEF Support
<1>4. ASSUME NEW j \in Answered(s)
      PROVE  freq[j] = <<Cardinality(Bucket(j)) * w[<<uid[s], reference[j]>>],
                         SumOf(Support(s, w), References(s))>>
    BY <1>2, <1>3 DEF SharedIn, Share
<1>5. ASSUME NEW j \in Bucket(s) PROVE freq[j] = freq[s]
  <2>1. reference[j] = reference[s] /\ j \in Answered(s) /\ s \in Answered(s)
      BY <1>1 DEF Bucket
  <2>2. Bucket(j) = Bucket(s)
      BY <1>2, <2>1 DEF Bucket
  <2> QED
      BY <1>4, <2>1, <2>2
<1>6. \A x \in References(s) : Mass(s)[x] = Support(s, w)[x]
  <2> SUFFICES ASSUME NEW x \in References(s) PROVE Mass(s)[x] = Support(s, w)[x]
      OBVIOUS
  <2> DEFINE m == Min(Carrying(s, x))
  <2>1. m \in Answered(s) /\ Carrying(s, x) = Bucket(m) /\ reference[m] = x
      BY CarriersAreBucket
  <2> HIDE DEF m
  <2>2. freq[m][1] = Cardinality(Carrying(s, x)) * w[<<uid[s], x>>]
      BY <1>4, <2>1
  <2> QED
      BY <2>2 DEF Mass, Support, m
<1>7. IsFiniteSet(References(s))
    BY QueryFinite DEF Modal
<1>8. SumOf(Mass(s), References(s)) = SumOf(Support(s, w), References(s))
    BY <1>6, <1>7, SumOfEqual
<1>9. ASSUME NEW j \in Answered(s) PROVE freq[j][2] = SumOf(Support(s, w), References(s))
  <2> DEFINE a == Cardinality(Bucket(j)) * w[<<uid[s], reference[j]>>]
             b == SumOf(Support(s, w), References(s))
  <2>1. freq[j] = <<a, b>>
      BY <1>4, <1>9
  <2> HIDE DEF a, b
  <2>2. freq[j][2] = b
      BY <2>1
  <2> QED
      BY <2>2 DEF b
<1> QED
    BY <1>1, <1>5, <1>8, <1>9 DEF Distributed

QFacts(s) == IF ans[s] = NoAnswer THEN freq[s][1] = 0 ELSE Distributed(s)

LEMMA QueriesAreDistributed ==
    ASSUME SiopInv, ModesInv, pc = "done", ~call.gold, call.determined, NEW s \in Samples PROVE QFacts(s)
<1>1. Modal
    BY DEF Modal, ModesInv, SiopInv
<1>2. CASE ans[s] = NoAnswer
  <2>1. Frequency(lead, s) = <<0, 1>> /\ ~Weighted(s)
      BY <1>1, <1>2, Leads DEF Frequency, Weighted
  <2>2. freq[s] = Frequency(lead, s)
      BY <2>1 DEF ModesInv, Counted, Shares
  <2> QED
      BY <1>2, <2>1, <2>2 DEF QFacts
<1>3. CASE ans[s] # NoAnswer
  <2>1. ASSUME NEW j \in Answered(s) PROVE j \in Samples /\ ans[j] # NoAnswer /\ References(j) = References(s)
      BY SameQuery DEF Answered, Query
  <2>2. CASE freq = Counted
    <3>1. CountedIn(s)
        BY <2>1, <2>2 DEF CountedIn, Counted
    <3> QED
        BY <1>1, <1>3, <3>1, CountsAreDistributed DEF QFacts
  <2>3. ASSUME NEW w, freq = Shares(w) PROVE QFacts(s)
    <3>1. CASE Cardinality(References(s)) > 1
      <4>1. \A j \in Answered(s) : Weighted(j)
          BY <1>1, <2>1, <3>1, Leads DEF Weighted
      <4>2. SharedIn(s, w)
          BY <2>1, <2>3, <4>1 DEF SharedIn, Shares
      <4> QED
          BY <1>1, <1>3, <4>2, SharesAreDistributed DEF QFacts
    <3>2. CASE ~(Cardinality(References(s)) > 1)
      <4>1. \A j \in Answered(s) : ~Weighted(j)
          BY <2>1, <3>2 DEF Weighted
      <4>2. CountedIn(s)
          BY <2>1, <2>3, <4>1 DEF CountedIn, Shares
      <4> QED
          BY <1>1, <1>3, <4>2, CountsAreDistributed DEF QFacts
    <3> QED
        BY <3>1, <3>2
  <2> QED
      BY <2>2, <2>3 DEF ModesInv
<1> QED
    BY <1>2, <1>3

(* The frequencies of the modes of a query are a distribution, counted or  *)
(* calibrated with any evidence: the rollouts of a mode share one          *)
(* frequency, all of a query have one denominator and the modes' shares add*)
(* up to it; a rollout without an answer has none.                         *)
THEOREM SharesSumToOne == Spec => []QIsDistribution
<1>1. SiopInv /\ ModesInv => QIsDistribution
  <2> SUFFICES ASSUME SiopInv, ModesInv, pc = "done", ~call.gold, call.determined, NEW s \in Samples
               PROVE  /\ ans[s] = NoAnswer => freq[s][1] = 0
                      /\ ans[s] # NoAnswer =>
                           /\ \A j \in Bucket(s) : freq[j] = freq[s]
                           /\ \A j \in Answered(s) : freq[j][2] = freq[s][2]
                           /\ MapThenSumSet(LAMBDA x : freq[Min(Carrying(s, x))][1], References(s)) = freq[s][2]
      BY DEF QIsDistribution
  <2>1. QFacts(s)
      BY QueriesAreDistributed
  <2>2. MapThenSumSet(LAMBDA x : freq[Min(Carrying(s, x))][1], References(s)) = SumOf(Mass(s), References(s))
      BY MassIsSum DEF SiopInv
  <2> QED
      BY <2>1, <2>2, Zenon DEF QFacts, Distributed
<1> QED
    BY <1>1, ModesAlways, PTL

(***************************************************************************)
(* The largest mode of a query, the first of those of its size.            *)
(***************************************************************************)
Size(j) == Cardinality(Bucket(j))
Largest(s) == {m \in Answered(s) : \A j \in Answered(s) : Size(j) <= Size(m)}

LEMMA LargestExists ==
    ASSUME Modal, NEW s \in Samples, Answered(s) # {} PROVE Largest(s) # {}
<1>1. ASSUME NEW j \in Answered(s) PROVE Size(j) \in Nat /\ Size(j) <= Cardinality(Samples)
  <2>1. Bucket(j) \subseteq Samples
      BY DEF Bucket, Query
  <2> QED
      BY <2>1, SamplesFinite, FS_Subset, FS_CardinalityType DEF Modal, Size
<1>2. Cardinality(Samples) \in Nat
    BY SamplesFinite, FS_CardinalityType DEF Modal
<1> DEFINE Rest == {Cardinality(Samples) - Size(j) : j \in Answered(s)}
<1>3. Rest \in SUBSET Nat /\ Rest # {}
    BY <1>1, <1>2
<1>4. PICK r \in Rest : \A k \in Rest : r <= k
  <2> HIDE DEF Rest
  <2> QED
      BY <1>3, Least
<1>5. PICK m \in Answered(s) : r = Cardinality(Samples) - Size(m)
    OBVIOUS
<1>6. ASSUME NEW j \in Answered(s) PROVE Size(j) <= Size(m)
  <2>1. r <= Cardinality(Samples) - Size(j)
      BY <1>4
  <2> QED
      BY <1>1, <1>2, <1>5, <2>1
<1> QED
    BY <1>5, <1>6 DEF Largest

Winner(s) == Min(Largest(s))

LEMMA WinnerIsFirst ==
    ASSUME Modal, NEW s \in Samples, Answered(s) # {}
    PROVE  Winner(s) \in Largest(s) /\ \A k \in Largest(s) : Winner(s) <= k
<1>1. Largest(s) \in SUBSET Nat
    BY SamplesAreNumbers DEF Largest, Answered, Query
<1> QED
    BY <1>1, LargestExists, MinIsLeast DEF Winner

LEMMA AnsweredFacts ==
    ASSUME Modal, NEW s \in Samples, NEW j \in Answered(s)
    PROVE  /\ j \in Samples /\ ans[j] # NoAnswer /\ Answered(j) = Answered(s) /\ j \in Bucket(j)
           /\ Size(j) \in Nat /\ reference[j] \in References(s) /\ References(j) = References(s)
           /\ Carrying(s, reference[j]) = Bucket(j) /\ \A x : Carrying(j, x) = Carrying(s, x)
<1>1. j \in Samples /\ ans[j] # NoAnswer /\ j \in Query(s)
    BY DEF Answered, Query
<1>2. Query(j) = Query(s) /\ Answered(j) = Answered(s) /\ References(j) = References(s)
      /\ \A x : Carrying(j, x) = Carrying(s, x)
    BY <1>1, SameQuery
<1>3. j \in Bucket(j) /\ IsFiniteSet(Query(s)) /\ Bucket(j) \subseteq Query(s)
    BY <1>1, <1>2, QueryFinite DEF Bucket, Modal
<1>4. Size(j) \in Nat
    BY <1>3, FS_Subset, FS_CardinalityType DEF Size
<1>5. reference[j] \in References(s)
    BY <1>1, Leads DEF References
<1>6. Carrying(s, reference[j]) = Bucket(j)
    BY <1>2 DEF Carrying, Bucket
<1> QED
    BY <1>1, <1>2, <1>3, <1>4, <1>5, <1>6

(* The first of a bucket is of the same size.                              *)
LEMMA FirstOfBucket ==
    ASSUME Modal, NEW s \in Samples, NEW j \in Answered(s)
    PROVE  /\ Min(Bucket(j)) \in Answered(s) /\ Min(Bucket(j)) \in Bucket(j)
           /\ \A k \in Bucket(j) : Min(Bucket(j)) <= k
           /\ Size(Min(Bucket(j))) = Size(j) /\ Min(Bucket(j)) \in Nat
<1>1. reference[j] \in References(s) /\ Carrying(s, reference[j]) = Bucket(j) /\ j \in Bucket(j)
    BY AnsweredFacts
<1> DEFINE m == Min(Bucket(j))
<1>2. m \in Answered(s) /\ m \in Samples /\ Bucket(j) = Bucket(m) /\ \A k \in Bucket(j) : m <= k
  <2> DEFINE x == reference[j]
             C == Carrying(s, x)
             k == Min(C)
  <2>1. k \in Answered(s) /\ k \in Samples /\ C = Bucket(k) /\ \A l \in C : k <= l
      BY <1>1, CarriersAreBucket
  <2>2. C = Bucket(j)
      BY <1>1
  <2> HIDE DEF C
  <2> QED
      BY <2>1, <2>2
<1>3. m \in Bucket(m)
    BY <1>2, AnsweredFacts
<1>4. m \in Nat
    BY <1>2, SamplesAreNumbers
<1> QED
    BY <1>2, <1>3, <1>4 DEF Size

LEMMA WinnersWin ==
    ASSUME Modal, NEW s \in Samples, Answered(s) # {}, NEW j \in Query(s)
    PROVE  (reference[j] # NoAnswer /\ Wins(j)) <=> j \in Mode(lead, Winner(s))
<1> DEFINE w == Winner(s)
<1>1. w \in Largest(s) /\ \A k \in Largest(s) : w <= k
    BY WinnerIsFirst
<1> HIDE DEF w
<1>2. w \in Answered(s) /\ \A k \in Answered(s) : Size(k) <= Size(w)
    BY <1>1 DEF Largest
<1>3. /\ w \in Samples /\ ans[w] # NoAnswer /\ w \in Bucket(w) /\ Size(w) \in Nat
      /\ reference[w] \in References(s) /\ Carrying(s, reference[w]) = Bucket(w) /\ Answered(w) = Answered(s)
    BY <1>2, AnsweredFacts
<1>4. Bucket(w) = Mode(lead, w) /\ w \in Nat
    BY <1>3, BucketIsMode, SamplesAreNumbers
<1>5. ASSUME reference[j] # NoAnswer, Wins(j) PROVE j \in Bucket(w)
  <2>1. j \in Answered(s)
    <3>1. j \in Samples
        BY DEF Query
    <3> QED
        BY <1>5, <3>1, Leads DEF Answered
  <2>2. /\ Size(j) \in Nat /\ References(j) = References(s) /\ Carrying(j, reference[w]) = Bucket(w)
        /\ j \in Bucket(j)
      BY <1>3, <2>1, AnsweredFacts
  <2>3. Size(w) < Size(j) \/ (Size(w) = Size(j) /\ Min(Bucket(j)) <= Min(Bucket(w)))
      BY <1>3, <1>5, <2>2 DEF Wins, Size
  <2>4. Size(j) <= Size(w)
      BY <1>2, <2>1
  <2>5. Size(w) = Size(j) /\ Min(Bucket(j)) <= Min(Bucket(w))
      BY <1>3, <2>2, <2>3, <2>4
  <2>6. /\ Min(Bucket(j)) \in Answered(s) /\ Size(Min(Bucket(j))) = Size(j) /\ Min(Bucket(j)) \in Nat
        /\ Min(Bucket(j)) \in Bucket(j)
      BY <2>1, FirstOfBucket
  <2>7. Min(Bucket(w)) <= w /\ Min(Bucket(w)) \in Nat
      BY <1>2, <1>3, FirstOfBucket
  <2>8. Min(Bucket(j)) \in Largest(s)
      BY <1>2, <2>5, <2>6 DEF Largest
  <2>9. w = Min(Bucket(j))
      BY <1>1, <1>4, <2>5, <2>6, <2>7, <2>8
  <2>10. w \in Bucket(j)
      BY <2>6, <2>9
  <2> QED
      BY <2>1, <2>10 DEF Bucket, Query, Answered
<1>6. ASSUME j \in Bucket(w) PROVE reference[j] # NoAnswer /\ Wins(j)
  <2>1. j \in Answered(s) /\ reference[j] = reference[w] /\ reference[w] # NoAnswer
      BY <1>3, <1>6, Leads, BucketIsMode DEF Bucket
  <2>2. Bucket(j) = Bucket(w)
      BY <1>3, <2>1, AnsweredFacts
  <2>3. References(j) = References(s) /\ \A x : Carrying(j, x) = Carrying(s, x)
      BY <2>1, AnsweredFacts
  <2>4. Min(Bucket(w)) <= w /\ Min(Bucket(w)) \in Nat
      BY <1>2, <1>3, FirstOfBucket
  <2>5. ASSUME NEW x \in References(j)
        PROVE  \/ Cardinality(Carrying(j, x)) < Cardinality(Bucket(j))
               \/ /\ Cardinality(Carrying(j, x)) = Cardinality(Bucket(j))
                  /\ Min(Bucket(j)) <= Min(Carrying(j, x))
    <3>1. x \in References(s) /\ Carrying(j, x) = Carrying(s, x)
        BY <2>3
    <3> DEFINE m == Min(Carrying(s, x))
    <3>2. m \in Answered(s) /\ Carrying(s, x) = Bucket(m)
        BY <3>1, CarriersAreBucket
    <3>3. m = Min(Bucket(m))
        BY <3>2
    <3> HIDE DEF m
    <3>4. Size(m) \in Nat /\ Size(m) <= Size(w)
        BY <1>2, <3>2, AnsweredFacts
    <3>5. ASSUME Size(m) = Size(w) PROVE Min(Bucket(w)) <= m
      <4>1. m \in Largest(s)
          BY <1>2, <3>2, <3>5 DEF Largest
      <4>2. m \in Nat
          BY <3>2, SamplesAreNumbers DEF Answered, Query
      <4> QED
          BY <1>1, <1>4, <2>4, <4>1, <4>2
    <3>6. Size(m) < Size(w) \/ (Size(m) = Size(w) /\ Min(Bucket(w)) <= m)
        BY <1>3, <3>4, <3>5
    <3> QED
        BY <2>2, <3>1, <3>2, <3>3, <3>6 DEF Size
  <2>6. Wins(j)
      BY <2>5 DEF Wins
  <2> QED
      BY <2>1, <2>6
<1> QED
    BY <1>4, <1>5, <1>6 DEF w

(* TTRL rewards the rollouts of exactly one mode of a query that has an    *)
(* answer, and no other mode is larger: among modes of the same size only  *)
(* the one that comes first wins.                                          *)
THEOREM OneModeWins == Spec => []MajorityIsDominant
<1>1. SiopInv /\ ModesInv /\ MajorityInv => MajorityIsDominant
  <2> SUFFICES ASSUME SiopInv, ModesInv, MajorityInv, pc = "done", call.mode = "majority_binary", ~call.gold,
                      call.determined, NEW s \in Samples, Answered(s) # {}
               PROVE  \E w \in Answered(s) :
                          /\ \A j \in Query(s) : rewards[j][1].plus = <<1, 1>> <=> j \in Mode(lead, w)
                          /\ \A j \in Answered(s) : Cardinality(Mode(lead, j)) <= Cardinality(Mode(lead, w))
      BY DEF MajorityIsDominant
  <2>1. Modal
      BY DEF Modal, ModesInv, SiopInv
  <2>2. Winner(s) \in Answered(s) /\ \A j \in Answered(s) : Size(j) <= Size(Winner(s))
      BY <2>1, WinnerIsFirst DEF Largest
  <2>3. ASSUME NEW j \in Query(s) PROVE rewards[j][1].plus = <<1, 1>> <=> j \in Mode(lead, Winner(s))
    <3>1. j \in Samples
        BY DEF Query
    <3>2. rewards[j][1].plus = IF reference[j] # NoAnswer /\ Wins(j) THEN <<1, 1>> ELSE <<0, 1>>
        BY <3>1 DEF MajorityInv, Reward
    <3>3. (reference[j] # NoAnswer /\ Wins(j)) <=> j \in Mode(lead, Winner(s))
        BY <2>1, <2>3, WinnersWin
    <3> HIDE DEF Wins
    <3> QED
        BY <3>2, <3>3
  <2>4. ASSUME NEW j \in Answered(s) PROVE Size(j) = Cardinality(Mode(lead, j))
    <3>1. j \in Samples /\ ans[j] # NoAnswer
        BY DEF Answered, Query
    <3> QED
        BY <2>1, <3>1, BucketIsMode DEF Size
  <2> QED
      BY <2>2, <2>3, <2>4
<1> QED
    BY <1>1, ModesAlways, PTL

-------------------------------------------------------------------------------
(***************************************************************************)
(* cluster_answers.                                                        *)
(***************************************************************************)
(* Where the loops are.                                                    *)
LoopInv ==
    /\ nextId < i
    /\ loop = "check" => i \in Answers /\ ids[i] = nextId /\ leader[nextId] = i
    /\ loop = "check" => pending \subseteq {j \in Answers : j > i /\ ids[j] = Unassigned}
    /\ loop = "done" => i = N + 1
    /\ \A j \in Answers : j < i => ids[j] # Unassigned

(* The modes so far: closed ones below nextId, the open one in "check".    *)
Open == IF loop = "check" THEN nextId ELSE nextId - 1

ModeInv ==
    /\ \A c \in 0..(nextId - 1) : leader[c] \in Answers /\ leader[c] < i /\ ids[leader[c]] = c
    /\ \A j \in Answers : ids[j] # Unassigned =>
           /\ ids[j] \in 0..Open
           /\ j # leader[ids[j]] => leader[ids[j]] < j /\ <<leader[ids[j]], j>> \in equiv

(* What has been compared in vain.                                         *)
VainInv ==
    /\ \A j \in Answers, c \in 0..(nextId - 1) :
           ids[j] = Unassigned \/ c < ids[j] => <<leader[c], j>> \in asked \ equiv
    /\ loop = "check" =>
           \A j \in Answers \ pending : j > i /\ ids[j] = Unassigned => <<i, j>> \in asked \ equiv
    /\ \A l, j \in Answers : <<l, j>> \in equiv => ids[j] # Unassigned

IInv == ClusteringTypes /\ LoopInv /\ ModeInv /\ VainInv

USE ClusteringAssumption DEF Answers, Unassigned

LEMMA InitInv == ClusteringInit => IInv
BY DEF ClusteringInit, IInv, ClusteringTypes, LoopInv, ModeInv, VainInv, Open

(* An answer that has a mode is passed over.                               *)
LEMMA SkipAssignedInv == ASSUME IInv, SkipAssigned PROVE IInv'
<1> USE DEF IInv
<1>1. /\ loop = "scan" /\ i \in Answers /\ i' = i + 1 /\ ids[i] # Unassigned
      /\ UNCHANGED <<ids, nextId, pending, loop, asked, equiv, leader>>
    BY DEF SkipAssigned, ClusteringTypes
<1>2. ClusteringTypes'
    BY <1>1 DEF ClusteringTypes
<1>3. LoopInv'
    BY <1>1 DEF LoopInv, ClusteringTypes
<1>4. \A c \in 0..(nextId - 1) : leader[c] \in Answers /\ leader[c] < i' /\ ids[leader[c]] = c
    BY <1>1 DEF ModeInv
<1>5. ModeInv'
    BY <1>1, <1>4 DEF ModeInv, Open
<1>6. VainInv'
    BY <1>1 DEF VainInv
<1> QED
    BY <1>2, <1>3, <1>5, <1>6

(* A new leader has been compared in vain with every earlier one.          *)
LEMMA LeadInv == ASSUME IInv, Lead PROVE IInv'
<1> USE DEF IInv
<1>1. i \in Answers /\ nextId \in 0..(N - 1) /\ loop = "scan" /\ ids[i] = Unassigned
    BY DEF Lead, ClusteringTypes, LoopInv
<1>2. /\ ids' = [ids EXCEPT ![i] = nextId] /\ leader' = [leader EXCEPT ![nextId] = i]
      /\ pending' = Remaining /\ loop' = "check" /\ UNCHANGED <<i, nextId, asked, equiv>>
    BY DEF Lead
<1>3. ClusteringTypes'
    BY <1>1, <1>2 DEF ClusteringTypes, Remaining
<1>4. LoopInv'
    BY <1>1, <1>2 DEF LoopInv, Remaining, ClusteringTypes
<1>5. \A c \in 0..(nextId - 1) : leader'[c] = leader[c] /\ leader[c] # i
    BY <1>1, <1>2 DEF ModeInv, ClusteringTypes
<1>6. \A j \in Answers : ids[j] # Unassigned =>
          j # i /\ ids'[j] = ids[j] /\ ids[j] \in 0..(nextId - 1)
    BY <1>1, <1>2 DEF ModeInv, ClusteringTypes, Open
<1>7. ids'[i] = nextId /\ leader'[nextId] = i
      /\ \A j \in Answers : j # i => ids'[j] = ids[j]
    BY <1>1, <1>2 DEF ClusteringTypes
<1>8. ModeInv'
  <2>1. \A c \in 0..(nextId - 1) : leader'[c] \in Answers /\ leader'[c] < i /\ ids'[leader'[c]] = c
      BY <1>5, <1>7 DEF ModeInv
  <2>2. ASSUME NEW j \in Answers, ids'[j] # Unassigned
        PROVE  /\ ids'[j] \in 0..nextId
               /\ j # leader'[ids'[j]] => leader'[ids'[j]] < j /\ <<leader'[ids'[j]], j>> \in equiv
    <3>1. CASE j = i
        BY <3>1, <1>1, <1>7
    <3>2. CASE j # i
        BY <3>2, <2>2, <1>1, <1>5, <1>6, <1>7 DEF ModeInv
    <3> QED
        BY <3>1, <3>2
  <2> QED
      BY <1>2, <2>1, <2>2 DEF ModeInv, Open
<1>9. VainInv'
  <2>1. ASSUME NEW j \in Answers, NEW c \in 0..(nextId - 1), ids'[j] = Unassigned \/ c < ids'[j]
        PROVE  <<leader'[c], j>> \in asked \ equiv
    <3>1. CASE j = i
        BY <3>1, <1>1, <1>5 DEF VainInv
    <3>2. CASE j # i
        BY <3>2, <2>1, <1>5, <1>7 DEF VainInv
    <3> QED
        BY <3>1, <3>2
  <2>2. \A j \in Answers \ pending' : ~(j > i /\ ids'[j] = Unassigned)
      BY <1>1, <1>2, <1>7 DEF Remaining
  <2>3. \A l, j \in Answers : <<l, j>> \in equiv => ids'[j] # Unassigned
      BY <1>1, <1>7 DEF VainInv
  <2> QED
      BY <1>2, <2>1, <2>2, <2>3 DEF VainInv
<1> QED
    BY <1>3, <1>4, <1>8, <1>9

(* The answers of a chunk join the open mode or have been compared in vain.*)
LEMMA CheckChunkInv == ASSUME IInv, CheckChunk PROVE IInv'
<1> USE DEF IInv
<1>0. PICK C \in SUBSET pending :
          /\ \E p, q \in [C -> Labels] :
                 LET joins == {j \in C : Equivalent(p[j], q[j])}
                 IN  /\ ids' = [j \in Answers |-> IF j \in joins THEN nextId ELSE ids[j]]
                     /\ equiv' = equiv \cup {<<i, j>> : j \in joins}
          /\ asked' = asked \cup {<<i, j>> : j \in C}
          /\ pending' = pending \ C
    BY DEF CheckChunk
<1>1. PICK p \in [C -> Labels], q \in [C -> Labels] :
          /\ ids' = [j \in Answers |->
                        IF j \in {k \in C : Equivalent(p[k], q[k])} THEN nextId ELSE ids[j]]
          /\ equiv' = equiv \cup {<<i, j>> : j \in {k \in C : Equivalent(p[k], q[k])}}
    BY <1>0
<1> DEFINE joins == {k \in C : Equivalent(p[k], q[k])}
<1> HIDE DEF joins
<1>2. joins \subseteq C
    BY DEF joins
<1>3. /\ ids' = [j \in Answers |-> IF j \in joins THEN nextId ELSE ids[j]]
      /\ equiv' = equiv \cup {<<i, j>> : j \in joins}
      /\ asked' = asked \cup {<<i, j>> : j \in C}
      /\ pending' = pending \ C
    BY <1>0, <1>1 DEF joins
<1>4. loop = "check" /\ UNCHANGED <<i, nextId, loop, leader>>
    BY DEF CheckChunk
<1>5. /\ i \in Answers /\ ids[i] = nextId /\ leader[nextId] = i /\ nextId \in 0..(N - 1)
      /\ \A j \in C : j \in Answers /\ j > i /\ ids[j] = Unassigned
    BY <1>4 DEF LoopInv, ClusteringTypes
<1>6. /\ \A j \in joins : ids'[j] = nextId
      /\ \A j \in Answers \ joins : ids'[j] = ids[j]
    BY <1>2, <1>3, <1>5
<1>7. ClusteringTypes'
  <2>1. ids' \in [Answers -> {Unassigned} \cup 0..(N - 1)]
    <3>1. \A j \in Answers : (IF j \in joins THEN nextId ELSE ids[j]) \in {Unassigned} \cup 0..(N - 1)
        BY <1>5 DEF ClusteringTypes
    <3> QED
        BY <1>3, <3>1
  <2>2. equiv' \subseteq asked' /\ asked' \subseteq Answers \X Answers
    <3>1. joins \subseteq C /\ \A j \in C : i \in Answers /\ j \in Answers
        BY <1>2, <1>5
    <3> QED
        BY <1>3, <3>1 DEF ClusteringTypes
  <2>3. pending' \subseteq Answers
      BY <1>3 DEF ClusteringTypes
  <2> QED
      BY <1>4, <2>1, <2>2, <2>3 DEF ClusteringTypes
<1>8. LoopInv'
    BY <1>2, <1>3, <1>4, <1>5, <1>6 DEF LoopInv, ClusteringTypes
<1>9. \A c \in 0..(nextId - 1) : leader[c] \in Answers /\ leader[c] < i /\ leader[c] \notin joins
    BY <1>2, <1>5 DEF ModeInv, ClusteringTypes
<1>10. ModeInv'
  <2>1. \A c \in 0..(nextId - 1) : ids'[leader[c]] = c
      BY <1>6, <1>9 DEF ModeInv
  <2>2. ASSUME NEW j \in Answers, ids'[j] # Unassigned
        PROVE  /\ ids'[j] \in 0..nextId
               /\ j # leader[ids'[j]] => leader[ids'[j]] < j /\ <<leader[ids'[j]], j>> \in equiv'
    <3>1. CASE j \in joins
        BY <3>1, <1>2, <1>3, <1>5, <1>6
    <3>2. CASE j \notin joins
        BY <3>2, <2>2, <1>3, <1>4, <1>6 DEF ModeInv, Open
    <3> QED
        BY <3>1, <3>2
  <2> QED
      BY <1>4, <1>9, <2>1, <2>2 DEF ModeInv, Open
<1>11. VainInv'
  <2>1. ASSUME NEW j \in Answers, NEW c \in 0..(nextId - 1), ids'[j] = Unassigned \/ c < ids'[j]
        PROVE  <<leader[c], j>> \in asked' \ equiv'
    <3>1. <<leader[c], j>> \in asked \ equiv
      <4>1. CASE j \in joins
          BY <4>1, <1>2, <1>5 DEF VainInv
      <4>2. CASE j \notin joins
          BY <4>2, <2>1, <1>6 DEF VainInv
      <4> QED
          BY <4>1, <4>2
    <3>2. leader[c] # i
        BY <1>5, <1>9
    <3> QED
        BY <3>1, <3>2, <1>3
  <2>2. ASSUME NEW j \in Answers \ pending', j > i, ids'[j] = Unassigned
        PROVE  <<i, j>> \in asked' \ equiv'
    <3>1. j \notin joins /\ ids[j] = Unassigned
        BY <2>2, <1>5, <1>6, <1>2
    <3>2. CASE j \in C
      <4>1. <<i, j>> \notin equiv
          BY <3>1, <1>5 DEF VainInv
      <4> QED
          BY <4>1, <3>1, <3>2, <1>3
    <3>3. CASE j \notin C
        BY <3>1, <3>3, <2>2, <1>3, <1>4 DEF VainInv
    <3> QED
        BY <3>2, <3>3
  <2>3. \A l, j \in Answers : <<l, j>> \in equiv' => ids'[j] # Unassigned
      BY <1>3, <1>5, <1>6 DEF VainInv
  <2> QED
      BY <1>4, <2>1, <2>2, <2>3 DEF VainInv
<1> QED
    BY <1>7, <1>8, <1>10, <1>11

(* Closing a mode: its leader has been compared with all that is left.     *)
LEMMA CloseModeInv == ASSUME IInv, CloseMode PROVE IInv'
<1> USE DEF IInv
<1>1. /\ loop = "check" /\ loop' = "scan" /\ pending = {} /\ nextId' = nextId + 1 /\ i' = i + 1
      /\ UNCHANGED <<ids, pending, asked, equiv, leader>>
    BY DEF CloseMode
<1>2. /\ i \in Answers /\ ids[i] = nextId /\ leader[nextId] = i /\ nextId \in 0..(N - 1)
      /\ nextId < i
    BY <1>1 DEF LoopInv, ClusteringTypes
<1>3. ClusteringTypes' /\ LoopInv'
    BY <1>1, <1>2 DEF ClusteringTypes, LoopInv
<1>4. \A c \in 0..nextId : c = nextId \/ c \in 0..(nextId - 1)
    BY <1>2
<1>5. ModeInv'
    BY <1>1, <1>2, <1>4 DEF ModeInv, Open
<1>6. VainInv'
  <2>1. ASSUME NEW j \in Answers, NEW c \in 0..nextId, ids[j] = Unassigned \/ c < ids[j]
        PROVE  <<leader[c], j>> \in asked \ equiv
    <3>1. CASE c \in 0..(nextId - 1)
        BY <3>1, <2>1 DEF VainInv
    <3>2. CASE c = nextId
      <4>0. ids[j] # Unassigned => ids[j] \in 0..nextId
          BY <1>1 DEF ModeInv, Open
      <4>1. ids[j] = Unassigned
          BY <4>0, <3>2, <2>1, <1>2
      <4>2. j > i
          BY <4>1, <1>2 DEF LoopInv
      <4> QED
          BY <3>2, <4>1, <4>2, <1>1, <1>2 DEF VainInv
    <3> QED
        BY <3>1, <3>2, <1>4
  <2> QED
      BY <1>1, <1>2, <2>1 DEF VainInv
<1> QED
    BY <1>3, <1>5, <1>6

LEMMA ReturnInv == ASSUME IInv, Return PROVE IInv'
BY DEF Return, IInv, ClusteringTypes, LoopInv, ModeInv, VainInv, Open

THEOREM Inductive == ClusteringSpec => []IInv
<1>1. IInv /\ [ClusteringNext]_clusteringVars => IInv'
  <2> SUFFICES ASSUME IInv, [ClusteringNext]_clusteringVars PROVE IInv'
      OBVIOUS
  <2>1. CASE UNCHANGED clusteringVars
      BY <2>1 DEF clusteringVars, IInv, ClusteringTypes, LoopInv, ModeInv, VainInv, Open
  <2> QED
      BY <2>1, SkipAssignedInv, LeadInv, CheckChunkInv, CloseModeInv, ReturnInv DEF ClusteringNext, ClusteringIdle
<1> QED
    BY <1>1, InitInv, PTL DEF ClusteringSpec

(* For any number of answers, any chunk size and any NLI model, an answer  *)
(* ends up in the first mode whose leader it was judged equivalent to.     *)
THEOREM ClusteringIsGreedy == ClusteringSpec => []ModesAreGreedy
<1>1. IInv => ModesAreGreedy
  <2> SUFFICES ASSUME IInv, loop = "done", NEW j \in Answers
               PROVE  /\ ids[j] \in 0..(nextId - 1)
                      /\ j # leader[ids[j]] => <<leader[ids[j]], j>> \in equiv
                      /\ \A c \in 0..(ids[j] - 1) : <<leader[c], j>> \in asked \ equiv
      BY DEF ModesAreGreedy
  <2>1. ids[j] # Unassigned
      BY DEF IInv, LoopInv
  <2>2. ids[j] \in 0..(nextId - 1)
      BY <2>1 DEF IInv, ModeInv, Open
  <2>3. \A c \in 0..(ids[j] - 1) : c \in 0..(nextId - 1) /\ c < ids[j]
      BY <2>2 DEF IInv, ClusteringTypes
  <2> QED
      BY <2>1, <2>2, <2>3 DEF IInv, ModeInv, VainInv
<1> QED
    BY <1>1, Inductive, PTL

(* The reference answer of every mode is the answer of its leader.         *)
THEOREM LeaderIsReference == ClusteringSpec => []ReferenceIsLeader
<1>1. IInv => ReferenceIsLeader
  <2> SUFFICES ASSUME IInv, loop = "done", NEW c \in 0..(nextId - 1), NEW j \in Answers,
                      IsReference(c, j), j # leader[c]
               PROVE  FALSE
      BY DEF ReferenceIsLeader
  <2>1. leader[c] \in Members(c) /\ ids[j] = c
      BY DEF IInv, ModeInv, Members, IsReference
  <2>2. j <= leader[c]
      BY <2>1 DEF IsReference
  <2>3. ids[j] # Unassigned
      BY <2>1 DEF IInv, ClusteringTypes
  <2>4. leader[c] < j
      BY <2>1, <2>3 DEF IInv, ModeInv
  <2>5. leader[c] \in Int /\ j \in Int
      BY DEF IInv, ClusteringTypes
  <2> QED
      BY <2>2, <2>4, <2>5
<1> QED
    BY <1>1, Inductive, PTL

(* What cluster_answers returns is one of the clusterings from which the   *)
(* process rewards start: an answer is in the mode of itself or of an      *)
(* earlier answer, which leads its own mode.                               *)
THEOREM ModesHaveLeaders ==
    ClusteringSpec => [](loop = "done" => \A j \in Answers :
        /\ leader[ids[j]] \in Answers /\ leader[ids[j]] <= j
        /\ leader[ids[leader[ids[j]]]] = leader[ids[j]])
<1>1. IInv => (loop = "done" => \A j \in Answers :
        /\ leader[ids[j]] \in Answers /\ leader[ids[j]] <= j
        /\ leader[ids[leader[ids[j]]]] = leader[ids[j]])
  <2> SUFFICES ASSUME IInv, loop = "done", NEW j \in Answers
               PROVE  /\ leader[ids[j]] \in Answers /\ leader[ids[j]] <= j
                      /\ leader[ids[leader[ids[j]]]] = leader[ids[j]]
      OBVIOUS
  <2>1. ids[j] # Unassigned
      BY DEF IInv, LoopInv
  <2>2. ids[j] \in 0..(nextId - 1)
      BY <2>1 DEF IInv, ModeInv, Open
  <2>3. leader[ids[j]] \in Answers /\ ids[leader[ids[j]]] = ids[j]
      BY <2>2 DEF IInv, ModeInv
  <2>4. j # leader[ids[j]] => leader[ids[j]] < j
      BY <2>1 DEF IInv, ModeInv
  <2>5. leader[ids[j]] <= j
    <3> DEFINE l == leader[ids[j]]
    <3>1. l \in Int /\ j \in Int
        BY <2>3, ClusteringAssumption DEF Answers
    <3> HIDE DEF l
    <3>2. j # l => l < j
        BY <2>4 DEF l
    <3>3. l <= j
        BY <3>1, <3>2
    <3> QED
        BY <3>3 DEF l
  <2> QED
      BY <2>3, <2>5
<1> QED
    BY <1>1, Inductive, PTL
===============================================================================
