------------------------- MODULE ScoringServiceProofs -------------------------
(***************************************************************************)
(* For every number of items, workers and every chunk size, each step of   *)
(* the scoring service is a step of ScoreBatch, or none of the caller's    *)
(* business: whatever runs late, fails or is given up.  Items are dealt    *)
(* evenly to the workers.                                                  *)
(***************************************************************************)
EXTENDS ScoringService, SequenceTheorems, FiniteSetTheorems, FunctionTheorems, TLAPS

Live == {"running", "answered"}

InQueue(r, w) == \E k \in DOMAIN queue[w] : queue[w][k] = r

Right(r, w) == \A i \in Dealt(r, first[r], w) : answer[r][i] = r + i

Types ==
    /\ n \in 0..MaxItems
    /\ start \in Nat \ {0}
    /\ request \in [Requests -> {"none", "sent", "running", "answered", "failed"}]
    /\ first \in [Requests -> Workers]
    /\ DOMAIN answer = Requests
    /\ queue \in [Workers -> Seq(Requests)]
    /\ workerIndex \in Workers

(* A worker's part of a request the server has taken up is still to come,   *)
(* has failed, or is in the answer; a request that was answered has every   *)
(* part.                                                                    *)
PartsInv ==
    \A r \in Requests : request[r] \in Live =>
        /\ DOMAIN answer[r] = Indices(r)
        /\ \A w \in Workers : InQueue(r, w) \/ <<r, w>> \in raised \/ Right(r, w)

AnsweredInv ==
    \A r \in Requests : request[r] = "answered" => \A i \in Indices(r) : answer[r][i] = r + i

IInv == Types /\ PartsInv /\ AnsweredInv

USE ConstantsAssumption

LEMMA RequestsAreNumbers == Requests \subseteq Nat \ {0}
BY DEF Requests

(* Every index of a request is dealt to some worker.                        *)
LEMMA EveryIndexIsDealt ==
    ASSUME NEW r \in Requests, NEW f \in Workers, NEW i \in Indices(r), n \in 0..MaxItems
    PROVE  \E w \in Workers : i \in Dealt(r, f, w)
<1>1. f + i \in Nat
    BY RequestsAreNumbers DEF Workers, Indices, Count
<1>2. (f + i) % NumWorkers \in Workers
    BY <1>1 DEF Workers
<1> QED
    BY <1>2 DEF Dealt

LEMMA InitInv == Init => IInv
<1> SUFFICES ASSUME Init PROVE IInv
    OBVIOUS
<1>1. 0 \in Workers /\ <<>> \in Seq(Requests)
    BY DEF Workers
<1>2. Types
    BY <1>1 DEF Init, Types
<1>3. \A r \in Requests : request[r] = "none"
    BY DEF Init
<1> QED
    BY <1>2, <1>3 DEF IInv, PartsInv, AnsweredInv, Live

LEMMA ClientInv == ASSUME IInv, Client PROVE IInv'
<1> USE DEF IInv
<1>0. UNCHANGED <<n, first, answer, queue, raised, workerIndex>>
    BY DEF Client, Post, Receive, GiveUp, client
<1>1. start' \in Nat \ {0}
    BY DEF Client, Post, Receive, GiveUp, client, Types
<1>2. /\ request' \in [Requests -> {"none", "sent", "running", "answered", "failed"}]
      /\ \A r \in Requests : request'[r] = request[r] \/ request'[r] = "sent"
    BY DEF Client, Post, Receive, GiveUp, Types
<1>3. Types'
    BY <1>0, <1>1, <1>2 DEF Types
<1>4. PartsInv'
    BY <1>0, <1>2 DEF PartsInv, Live, InQueue, Right, Dealt, Indices, Count
<1>5. AnsweredInv'
    BY <1>0, <1>2 DEF AnsweredInv, Indices, Count
<1> QED
    BY <1>3, <1>4, <1>5

LEMMA AcceptInv == ASSUME IInv, NEW r \in Requests, Accept(r) PROVE IInv'
<1> USE DEF IInv
<1>0. /\ UNCHANGED <<n, start, raised>>
      /\ request' = [request EXCEPT ![r] = "running"]
      /\ first' = [first EXCEPT ![r] = workerIndex]
      /\ answer' = [answer EXCEPT ![r] = [i \in Indices(r) |-> Filler]]
      /\ Types
    BY DEF Accept, client
<1>1. Count(r) \in Int /\ workerIndex' \in Workers
  <2>1. Count(r) \in Int
      BY <1>0, RequestsAreNumbers DEF Count, Types, Accept
  <2> QED
      BY <2>1, <1>0 DEF Accept, Advanced, Types, Workers
<1>2. ASSUME NEW w \in Workers
      PROVE  /\ queue'[w] \in Seq(Requests)
             /\ \A k \in DOMAIN queue[w] : k \in DOMAIN queue'[w] /\ queue'[w][k] = queue[w][k]
             /\ Dealt(r, workerIndex, w) # {} => \E k \in DOMAIN queue'[w] : queue'[w][k] = r
  <2>1. queue[w] \in Seq(Requests)
      BY <1>0 DEF Types
  <2>2. queue'[w] = IF Dealt(r, workerIndex, w) = {} THEN queue[w] ELSE Append(queue[w], r)
      BY DEF Accept
  <2>3. /\ Append(queue[w], r) \in Seq(Requests)
        /\ Len(Append(queue[w], r)) = Len(queue[w]) + 1
        /\ \A k \in 1..Len(queue[w]) : Append(queue[w], r)[k] = queue[w][k]
        /\ Append(queue[w], r)[Len(queue[w]) + 1] = r
        /\ Len(queue[w]) \in Nat
      BY <2>1, AppendProperties, LenProperties
  <2>4. /\ DOMAIN queue[w] = 1..Len(queue[w])
        /\ DOMAIN Append(queue[w], r) = 1..(Len(queue[w]) + 1)
      BY <2>1, <2>3, LenProperties
  <2> QED
      BY <2>1, <2>2, <2>3, <2>4
<1>3. Types'
  <2>1. queue' \in [Workers -> Seq(Requests)]
      BY <1>2 DEF Accept
  <2> QED
      BY <1>0, <1>1, <2>1 DEF Types
<1>4. PartsInv'
  <2> SUFFICES ASSUME NEW q \in Requests, request'[q] \in Live
               PROVE  /\ DOMAIN answer'[q] = Indices(q)'
                      /\ \A w \in Workers : InQueue(q, w)' \/ <<q, w>> \in raised' \/ Right(q, w)'
      BY DEF PartsInv
  <2>0. Indices(q)' = Indices(q) /\ \A f, w : Dealt(q, f, w)' = Dealt(q, f, w)
      BY <1>0 DEF Indices, Count, Dealt
  <2>1. CASE q = r
    <3>1. DOMAIN answer'[q] = Indices(q)
        BY <1>0, <2>1 DEF Types
    <3>2. first'[q] = workerIndex
        BY <1>0, <2>1 DEF Types
    <3>3. \A w \in Workers : InQueue(q, w)' \/ Dealt(q, first'[q], w) = {}
        BY <1>2, <2>1, <3>2 DEF InQueue
    <3> QED
        BY <3>1, <3>3, <2>0 DEF Right, Dealt, Indices, Count
  <2>2. CASE q # r
    <3>1. request[q] \in Live /\ answer'[q] = answer[q] /\ first'[q] = first[q]
        BY <1>0, <2>2 DEF Types
    <3>2. \A w \in Workers : InQueue(q, w) => InQueue(q, w)'
        BY <1>2 DEF InQueue
    <3>3. \A w \in Workers : Right(q, w) => Right(q, w)'
        BY <3>1, <2>0 DEF Right, Dealt, Indices, Count
    <3> QED
        BY <3>1, <3>2, <3>3, <2>0, <1>0 DEF PartsInv
  <2> QED
      BY <2>1, <2>2
<1>5. AnsweredInv'
    BY <1>0 DEF AnsweredInv, Types, Indices, Count
<1> QED
    BY <1>3, <1>4, <1>5

(* A worker that is done with the head of its queue leaves the others there. *)
LEMMA TailOfQueue ==
    ASSUME Types, NEW w \in Workers, queue[w] # <<>>,
           queue' = [queue EXCEPT ![w] = Tail(@)]
    PROVE  /\ Head(queue[w]) \in Requests
           /\ queue' \in [Workers -> Seq(Requests)]
           /\ \A q \in Requests, v \in Workers :
                  InQueue(q, v) /\ ~(v = w /\ q = Head(queue[w])) => InQueue(q, v)'
<1>1. queue[w] \in Seq(Requests)
    BY DEF Types
<1>2. /\ Head(queue[w]) \in Requests /\ Tail(queue[w]) \in Seq(Requests)
      /\ Len(queue[w]) \in Nat /\ Len(queue[w]) > 0
      /\ Len(Tail(queue[w])) = Len(queue[w]) - 1
      /\ Head(queue[w]) = queue[w][1]
      /\ \A k \in 1..(Len(queue[w]) - 1) : Tail(queue[w])[k] = queue[w][k + 1]
    BY <1>1, HeadTailProperties, LenProperties, EmptySeq
<1>3. queue' \in [Workers -> Seq(Requests)]
    BY <1>2 DEF Types
<1>4. ASSUME NEW q \in Requests, NEW v \in Workers,
             InQueue(q, v), ~(v = w /\ q = Head(queue[w]))
      PROVE  InQueue(q, v)'
  <2>1. CASE v # w
      BY <1>4, <2>1 DEF InQueue, Types
  <2>2. CASE v = w
    <3>1. PICK k \in DOMAIN queue[w] : queue[w][k] = q
        BY <1>4, <2>2 DEF InQueue
    <3>2. k \in 1..Len(queue[w]) /\ k # 1
        BY <1>1, <1>2, <1>4, <2>2, <3>1, LenProperties
    <3>3. k - 1 \in 1..(Len(queue[w]) - 1) /\ (k - 1) + 1 = k
        BY <3>2, <1>2
    <3>4. Tail(queue[w])[k - 1] = q
        BY <3>1, <3>3, <1>2
    <3>5. k - 1 \in DOMAIN Tail(queue[w])
        BY <3>3, <1>2, LenProperties
    <3>6. queue'[w] = Tail(queue[w])
        BY DEF Types
    <3> QED
        BY <2>2, <3>4, <3>5, <3>6 DEF InQueue
  <2> QED
      BY <2>1, <2>2
<1> QED
    BY <1>2, <1>3, <1>4

LEMMA WorkerScoresInv == ASSUME IInv, NEW w \in Workers, WorkerScores(w) PROVE IInv'
<1> USE DEF IInv
<1> DEFINE r == Head(queue[w])
<1>0. /\ UNCHANGED <<n, start, request, first, raised, workerIndex>>
      /\ Types
      /\ r \in Requests
      /\ queue' \in [Workers -> Seq(Requests)]
      /\ \A q \in Requests, v \in Workers :
             InQueue(q, v) /\ ~(v = w /\ q = r) => InQueue(q, v)'
    BY TailOfQueue DEF WorkerScores, client
<1>1. answer' = [answer EXCEPT ![r] =
         [i \in Indices(r) |-> IF i \in Dealt(r, first[r], w) THEN r + i ELSE answer[r][i]]]
    BY <1>0 DEF WorkerScores, Types
<1> HIDE DEF r
<1>2. Types'
    BY <1>0, <1>1 DEF Types
<1>3. \A q \in Requests : Indices(q)' = Indices(q) /\ \A v : Dealt(q, first[q], v)' = Dealt(q, first[q], v)
    BY <1>0 DEF Indices, Count, Dealt
<1>4. ASSUME NEW q \in Requests, request[q] \in Live
      PROVE  /\ DOMAIN answer'[q] = Indices(q)
             /\ \A i \in Indices(q) : answer[q][i] = q + i => answer'[q][i] = q + i
             /\ q = r => \A i \in Dealt(q, first[q], w) : answer'[q][i] = q + i
  <2>1. CASE q = r
    <3>1. answer'[q] = [i \in Indices(q) |->
                            IF i \in Dealt(q, first[q], w) THEN q + i ELSE answer[q][i]]
        BY <1>0, <1>1, <2>1 DEF Types
    <3>2. Dealt(q, first[q], w) \subseteq Indices(q)
        BY DEF Dealt
    <3> QED
        BY <3>1, <3>2
  <2>2. CASE q # r
    <3>1. answer'[q] = answer[q]
        BY <1>0, <1>1, <2>2 DEF Types
    <3> QED
        BY <3>1, <2>2, <1>4 DEF PartsInv
  <2> QED
      BY <2>1, <2>2
<1>5. PartsInv'
  <2> SUFFICES ASSUME NEW q \in Requests, request'[q] \in Live, NEW v \in Workers
               PROVE  /\ DOMAIN answer'[q] = Indices(q)'
                      /\ InQueue(q, v)' \/ <<q, v>> \in raised' \/ Right(q, v)'
      BY DEF PartsInv
  <2>1. request[q] \in Live
      BY <1>0
  <2>2. DOMAIN answer'[q] = Indices(q)'
      BY <1>3, <1>4, <2>1
  <2>3. InQueue(q, v) \/ <<q, v>> \in raised \/ Right(q, v)
      BY <2>1 DEF PartsInv
  <2>4. CASE v = w /\ q = r
    <3>1. \A i \in Dealt(q, first[q], v) : answer'[q][i] = q + i
        BY <1>4, <2>1, <2>4
    <3>2. Dealt(q, first[q], v)' = Dealt(q, first[q], v)
        BY <1>3
    <3>3. Right(q, v)'
        BY <3>1, <3>2 DEF Right
    <3> QED
        BY <2>2, <3>3
  <2>5. CASE ~(v = w /\ q = r) /\ InQueue(q, v)
      BY <2>2, <2>5, <1>0
  <2>6. CASE <<q, v>> \in raised
      BY <2>2, <2>6, <1>0
  <2>7. CASE Right(q, v)
    <3>1. \A i \in Dealt(q, first[q], v) : i \in Indices(q) /\ answer[q][i] = q + i
        BY <2>7 DEF Right, Dealt
    <3>2. \A i \in Dealt(q, first[q], v) : answer'[q][i] = q + i
        BY <3>1, <1>4, <2>1
    <3>3. Dealt(q, first[q], v)' = Dealt(q, first[q], v)
        BY <1>3
    <3>4. Right(q, v)'
        BY <3>2, <3>3 DEF Right
    <3> QED
        BY <2>2, <3>4
  <2> QED
      BY <2>3, <2>4, <2>5, <2>6, <2>7
<1>6. AnsweredInv'
    BY <1>0, <1>3, <1>4 DEF AnsweredInv, Live
<1> QED
    BY <1>2, <1>5, <1>6

LEMMA WorkerRaisesInv == ASSUME IInv, NEW w \in Workers, WorkerRaises(w) PROVE IInv'
<1> USE DEF IInv
<1>0. /\ UNCHANGED <<n, start, request, first, answer, workerIndex>>
      /\ raised' = raised \cup {<<Head(queue[w]), w>>}
      /\ Types
      /\ queue' \in [Workers -> Seq(Requests)]
      /\ \A q \in Requests, v \in Workers :
             InQueue(q, v) /\ ~(v = w /\ q = Head(queue[w])) => InQueue(q, v)'
    BY TailOfQueue DEF WorkerRaises, client
<1>1. Types'
    BY <1>0 DEF Types
<1>2. PartsInv'
  <2> SUFFICES ASSUME NEW q \in Requests, request'[q] \in Live, NEW v \in Workers
               PROVE  /\ DOMAIN answer'[q] = Indices(q)'
                      /\ InQueue(q, v)' \/ <<q, v>> \in raised' \/ Right(q, v)'
      BY DEF PartsInv
  <2>1. request[q] \in Live /\ Indices(q)' = Indices(q) /\ (Right(q, v) => Right(q, v)')
      BY <1>0 DEF Indices, Count, Right, Dealt
  <2>2. DOMAIN answer'[q] = Indices(q)'
      BY <2>1, <1>0 DEF PartsInv
  <2>3. InQueue(q, v) \/ <<q, v>> \in raised \/ Right(q, v)
      BY <2>1 DEF PartsInv
  <2>4. CASE v = w /\ q = Head(queue[w])
      BY <2>2, <2>4, <1>0
  <2>5. CASE ~(v = w /\ q = Head(queue[w]))
      BY <2>1, <2>2, <2>3, <2>5, <1>0
  <2> QED
      BY <2>4, <2>5
<1>3. AnsweredInv'
    BY <1>0 DEF AnsweredInv, Indices, Count
<1> QED
    BY <1>1, <1>2, <1>3

LEMMA AnswerInv == ASSUME IInv, NEW r \in Requests, Answer(r) \/ Fail(r) PROVE IInv'
<1> USE DEF IInv
<1>0. /\ UNCHANGED <<n, start, first, answer, queue, raised, workerIndex>>
      /\ Types
      /\ request[r] = "running"
      /\ request' \in [Requests -> {"none", "sent", "running", "answered", "failed"}]
      /\ \A q \in Requests : request'[q] \in Live => request[q] \in Live
      /\ \A q \in Requests : q # r => request'[q] = request[q]
    BY DEF Answer, Fail, client, Types, Live
<1>1. Types'
    BY <1>0 DEF Types
<1>2. PartsInv'
    BY <1>0 DEF PartsInv, InQueue, Right, Dealt, Indices, Count
<1>3. ASSUME request'[r] = "answered", NEW i \in Indices(r)
      PROVE  answer[r][i] = r + i
  <2>1. Answer(r)
      BY <1>3, <1>0 DEF Fail, Answer, Types
  <2>2. PICK w \in Workers : i \in Dealt(r, first[r], w)
      BY <1>0, <1>3, EveryIndexIsDealt DEF Types
  <2>3. InQueue(r, w) \/ <<r, w>> \in raised \/ Right(r, w)
      BY <1>0 DEF PartsInv, Live
  <2>4. ~InQueue(r, w) /\ <<r, w>> \notin raised
      BY <2>1 DEF Answer, AllWorkersDone, InQueue
  <2> QED
      BY <2>2, <2>3, <2>4 DEF Right
<1>4. AnsweredInv'
    BY <1>0, <1>3 DEF AnsweredInv, Indices, Count
<1> QED
    BY <1>1, <1>2, <1>4

LEMMA StepInv == IInv /\ [Next]_vars => IInv'
<1> SUFFICES ASSUME IInv, [Next]_vars PROVE IInv'
    OBVIOUS
<1>1. CASE UNCHANGED vars
  <2>1. UNCHANGED <<n, start, request, first, answer, queue, raised, workerIndex>>
      BY <1>1 DEF vars, client
  <2>2. Types'
      BY <2>1 DEF IInv, Types
  <2>3. PartsInv'
      BY <2>1 DEF IInv, PartsInv, InQueue, Right, Dealt, Indices, Count
  <2>4. AnsweredInv'
      BY <2>1 DEF IInv, AnsweredInv, Indices, Count
  <2> QED
      BY <2>2, <2>3, <2>4 DEF IInv
<1>2. ASSUME NEW r \in Requests, Server(r) PROVE IInv'
    BY <1>2, AcceptInv, AnswerInv DEF Server
<1>3. ASSUME NEW w \in Workers, Worker(w) PROVE IInv'
    BY <1>3, WorkerScoresInv, WorkerRaisesInv DEF Worker
<1> QED
    BY <1>1, <1>2, <1>3, ClientInv DEF Next, Returned

-----------------------------------------------------------------------------
LEMMA InitRefines == Init => Batch!Init
BY DEF Init, Batch!Init, Batch!Fresh, Lost, Batch!Lost

(* The scores stored from an answer are those of the chunk.                 *)
LEMMA ReceiveDelivers == ASSUME IInv, Receive PROVE Batch!Deliver
<1>1. /\ start \in Requests /\ start \in Nat \ {0} /\ start <= n /\ n \in Nat
      /\ request[start] = "answered"
      /\ scores' = Stored /\ start' = start + ChunkSize /\ n' = n
    BY DEF IInv, Types, Receive, Waiting
<1>2. DOMAIN answer[start] = Indices(start) /\ \A i \in Indices(start) : answer[start][i] = start + i
    BY <1>1 DEF IInv, PartsInv, AnsweredInv, Live
<1>3. ASSUME NEW j \in 1..n
      PROVE  /\ j - start \in Indices(start) <=> j \in Batch!Chunk
             /\ j \in Batch!Chunk => start + (j - start) = j
    BY <1>1 DEF Batch!Chunk, Indices, Count
<1>4. Stored = [j \in 1..n |-> IF j \in Batch!Chunk THEN j ELSE scores[j]]
    BY <1>1, <1>2, <1>3 DEF Stored
<1> QED
    BY <1>1, <1>4 DEF Batch!Deliver

LEMMA StepRefines == IInv /\ [Next]_vars => [Batch!Next]_(Batch!sbVars)
<1> SUFFICES ASSUME IInv, [Next]_vars PROVE [Batch!Next]_(Batch!sbVars)
    OBVIOUS
<1>1. CASE Receive
    BY <1>1, ReceiveDelivers DEF Batch!Next
<1>2. CASE GiveUp
    BY <1>2 DEF GiveUp, Batch!Next, Batch!Lose
<1>3. CASE UNCHANGED client
    BY <1>3 DEF client, Batch!sbVars
<1>4. Receive \/ GiveUp \/ UNCHANGED client
    BY DEF Next, Client, Post, Server, Accept, Answer, Fail, Worker, WorkerScores, WorkerRaises,
           Returned, vars, client
<1> QED
    BY <1>1, <1>2, <1>3, <1>4

(* A call against the scoring service is a ScoreBatch call, in every        *)
(* interleaving of timeouts, late answers and failing workers.  (That it    *)
(* returns is checked by TLC.)                                              *)
THEOREM ServiceImplementsBatch == Spec => Batch!Init /\ [][Batch!Next]_(Batch!sbVars)
BY InitInv, StepInv, InitRefines, StepRefines, PTL DEF Spec

-----------------------------------------------------------------------------
(* Remainders of the division by the number of workers.                     *)
LEMMA Remainder ==
    ASSUME NEW a \in Int
    PROVE  /\ a \div NumWorkers \in Int /\ a % NumWorkers \in Workers
           /\ a = NumWorkers * (a \div NumWorkers) + (a % NumWorkers)
BY DEF Workers

LEMMA SmallMultiple ==
    ASSUME NEW d \in Int, NEW k \in Int, d = NumWorkers * k, d < NumWorkers, -NumWorkers < d
    PROVE  d = 0
<1>1. CASE k >= 1
  <2>1. NumWorkers * k >= NumWorkers
      BY <1>1
  <2> QED
      BY <2>1
<1>2. CASE k <= -1
  <2>1. NumWorkers * k <= -NumWorkers
      BY <1>2
  <2> QED
      BY <2>1
<1> QED
    BY <1>1, <1>2

LEMMA RemainderUnique ==
    ASSUME NEW q \in Int, NEW r \in Workers, NEW a \in Int, a = NumWorkers * q + r
    PROVE  a % NumWorkers = r
<1> DEFINE p == a \div NumWorkers
           s == a % NumWorkers
<1>1. p \in Int /\ s \in Workers /\ a = NumWorkers * p + s
    BY Remainder
<1> HIDE DEF p, s
<1>2. s - r = NumWorkers * (q - p) /\ q - p \in Int
    BY <1>1 DEF Workers
<1>3. s - r \in Int /\ s - r < NumWorkers /\ -NumWorkers < s - r
    BY <1>1 DEF Workers
<1>4. s - r = 0
    BY <1>2, <1>3, SmallMultiple
<1>5. s = r
    BY <1>1, <1>4 DEF Workers
<1> QED
    BY <1>5 DEF s

LEMMA RemainderShift ==
    ASSUME NEW a \in Int, NEW b \in Int
    PROVE  ((a % NumWorkers) + b) % NumWorkers = (a + b) % NumWorkers
<1> DEFINE p == a \div NumWorkers
           s == a % NumWorkers
<1>1. p \in Int /\ s \in Workers /\ s \in Int /\ a = NumWorkers * p + s
    BY Remainder DEF Workers
<1> HIDE DEF p, s
<1> DEFINE t == (s + b) \div NumWorkers
           u == (s + b) % NumWorkers
<1>2. s + b \in Int
    BY <1>1
<1>3. t \in Int /\ u \in Workers /\ s + b = NumWorkers * t + u
    BY <1>2, Remainder
<1> HIDE DEF t, u
<1>4. a + b = NumWorkers * (p + t) + u /\ p + t \in Int /\ a + b \in Int
    BY <1>1, <1>3 DEF Workers
<1>5. (a + b) % NumWorkers = u
    BY <1>3, <1>4, RemainderUnique
<1> QED
    BY <1>5 DEF s, u

(* The places of the first t items, dealt from worker f on, that are w's.   *)
Places(f, t, w) == {k \in 0..(t - 1) : (f + k) % NumWorkers = w}

LEMMA PlacesFinite ==
    ASSUME NEW f, NEW t \in Nat, NEW w
    PROVE  IsFiniteSet(Places(f, t, w)) /\ Cardinality(Places(f, t, w)) \in Nat
<1>1. IsFiniteSet(0..(t - 1))
    BY FS_Interval
<1>2. Places(f, t, w) \subseteq 0..(t - 1)
    BY DEF Places
<1>3. IsFiniteSet(Places(f, t, w))
    BY <1>1, <1>2, FS_Subset
<1> QED
    BY <1>3, FS_CardinalityType

(* Two places of one worker are at least a round apart.                     *)
LEMMA RoundsApart ==
    ASSUME NEW f \in Workers, NEW j \in Nat, NEW k \in Nat, j < NumWorkers, k < NumWorkers,
           (f + j) % NumWorkers = (f + k) % NumWorkers
    PROVE  j = k
<1> DEFINE a == f + j
           b == f + k
<1>1. a \in Int /\ b \in Int /\ f \in Int
    BY DEF Workers
<1> DEFINE p == a \div NumWorkers
           q == b \div NumWorkers
           s == a % NumWorkers
<1>2. p \in Int /\ q \in Int /\ s \in Workers /\ a = NumWorkers * p + s /\ b = NumWorkers * q + s
    BY <1>1, Remainder
<1>3. j - k = a - b
    BY <1>1
<1> HIDE DEF a, b, p, q, s
<1>4. j - k = NumWorkers * (p - q) /\ p - q \in Int
    BY <1>1, <1>2, <1>3 DEF Workers
<1>5. j - k = 0
    BY <1>4, SmallMultiple
<1> QED
    BY <1>5

(* However many items were dealt, no worker has two more than another: all  *)
(* places of v but one are less than a round after a place of w.            *)
LEMMA PlacesEven ==
    ASSUME NEW f \in Workers, NEW t \in Nat, NEW v \in Workers, NEW w \in Workers
    PROVE  Cardinality(Places(f, t, v)) <= Cardinality(Places(f, t, w)) + 1
<1> DEFINE s == (v - w) % NumWorkers
           Late == {k \in Places(f, t, v) : k >= s}
           Early == {k \in Places(f, t, v) : k < s}
           g == [k \in Late |-> k - s]
<1>1. s \in 0..(NumWorkers - 1) /\ s \in Int
    BY Remainder DEF Workers
<1>2. \A k \in Late : k - s \in Places(f, t, w)
  <2> SUFFICES ASSUME NEW k \in Late PROVE k - s \in Places(f, t, w)
      OBVIOUS
  <2>1. k \in 0..(t - 1) /\ (f + k) % NumWorkers = v /\ k >= s
      BY DEF Places
  <2> DEFINE p == (f + k) \div NumWorkers
             q == (v - w) \div NumWorkers
  <2>2. f + k \in Int /\ v - w \in Int /\ f \in Int
      BY <2>1 DEF Workers
  <2>3. p \in Int /\ f + k = NumWorkers * p + v
      BY <2>1, <2>2, Remainder
  <2>4. q \in Int /\ v - w = NumWorkers * q + s
      BY <2>2, Remainder
  <2> HIDE DEF p, q, s
  <2>5. f + (k - s) = NumWorkers * (p + q) + w /\ p + q \in Int /\ f + (k - s) \in Int
      BY <1>1, <2>1, <2>2, <2>3, <2>4 DEF Workers
  <2>6. (f + (k - s)) % NumWorkers = w
      BY <2>5, RemainderUnique
  <2>7. k - s \in 0..(t - 1)
      BY <1>1, <2>1
  <2> QED
      BY <2>6, <2>7 DEF Places
<1>3. g \in Injection(Late, Places(f, t, w))
  <2>1. g \in [Late -> Places(f, t, w)]
      BY <1>2
  <2>2. Late \subseteq Int
      BY DEF Places
  <2> HIDE DEF s, Late
  <2>3. \A j, k \in Late : j - s = k - s => j = k
      BY <1>1, <2>2
  <2> QED
      BY <2>1, <2>3 DEF Injection, IsInjective
<1>4. IsFiniteSet(Late) /\ Cardinality(Late) <= Cardinality(Places(f, t, w))
    BY <1>3, PlacesFinite, FS_Injection
<1>5. \A j, k \in Early : j = k
  <2> SUFFICES ASSUME NEW j \in Early, NEW k \in Early PROVE j = k
      OBVIOUS
  <2>1. /\ j \in Nat /\ k \in Nat /\ j < NumWorkers /\ k < NumWorkers
        /\ (f + j) % NumWorkers = v /\ (f + k) % NumWorkers = v
      BY <1>1 DEF Places
  <2> QED
      BY <2>1, RoundsApart
<1>6. Cardinality(Places(f, t, v)) <= Cardinality(Late) + 1
  <2>1. CASE Early = {}
    <3>1. Places(f, t, v) = Late
        BY <1>1, <2>1 DEF Places
    <3>2. Cardinality(Late) \in Nat
        BY <1>4, FS_CardinalityType
    <3> HIDE DEF Late
    <3> QED
        BY <3>1, <3>2
  <2>2. CASE Early # {}
    <3>1. PICK e \in Early : TRUE
        BY <2>2
    <3>2. Places(f, t, v) = Late \cup {e}
        BY <1>1, <1>5, <3>1 DEF Places
    <3> HIDE DEF Late
    <3>3. Cardinality(Late \cup {e}) = IF e \in Late THEN Cardinality(Late) ELSE Cardinality(Late) + 1
        BY <1>4, FS_AddElement
    <3>4. Cardinality(Late) \in Nat
        BY <1>4, FS_CardinalityType
    <3> QED
        BY <3>2, <3>3, <3>4
  <2> QED
      BY <2>1, <2>2
<1> HIDE DEF Late
<1>7. /\ Cardinality(Late) \in Nat /\ Cardinality(Places(f, t, v)) \in Nat
      /\ Cardinality(Places(f, t, w)) \in Nat
    BY <1>4, PlacesFinite, FS_CardinalityType
<1> QED
    BY <1>4, <1>6, <1>7

(* The places of c more items are theirs among the c, moved by t.           *)
LEMMA PlacesGrow ==
    ASSUME NEW f \in Workers, NEW t \in Nat, NEW c \in Nat, NEW w \in Workers
    PROVE  Cardinality(Places(f, t + c, w)) =
               Cardinality(Places(f, t, w)) + Cardinality(Places((f + t) % NumWorkers, c, w))
<1> DEFINE h == (f + t) % NumWorkers
           P == Places(f, t, w)
           Q == Places(h, c, w)
           New == {k \in Places(f, t + c, w) : k >= t}
           g == [i \in Q |-> t + i]
<1>1. f \in Int /\ f + t \in Int /\ h \in Workers
    BY Remainder DEF Workers
<1>2. \A i \in 0..(c - 1) : (h + i) % NumWorkers = (f + (t + i)) % NumWorkers
  <2> SUFFICES ASSUME NEW i \in 0..(c - 1) PROVE (h + i) % NumWorkers = (f + (t + i)) % NumWorkers
      OBVIOUS
  <2>0. i \in Int
      OBVIOUS
  <2>1. (h + i) % NumWorkers = ((f + t) + i) % NumWorkers
      BY <1>1, <2>0, RemainderShift, Zenon
  <2>2. (f + t) + i = f + (t + i)
      BY <1>1
  <2> QED
      BY <2>1, <2>2
<1> HIDE DEF h
<1>3. Places(f, t + c, w) = P \cup New
    BY DEF Places
<1>4. P \cap New = {}
    BY DEF Places
<1>5. \A i \in Q : t + i \in New
    BY <1>2 DEF Places
<1>6. \A k \in New : k - t \in Q /\ t + (k - t) = k
  <2> SUFFICES ASSUME NEW k \in New PROVE k - t \in Q /\ t + (k - t) = k
      OBVIOUS
  <2>1. k \in 0..(t + c - 1) /\ k >= t /\ (f + k) % NumWorkers = w
      BY DEF Places
  <2>2. k - t \in 0..(c - 1) /\ t + (k - t) = k
      BY <2>1
  <2>3. (h + (k - t)) % NumWorkers = w
      BY <1>2, <2>1, <2>2
  <2> QED
      BY <2>2, <2>3 DEF Places
<1>7. g \in Bijection(Q, New)
  <2>1. Q \subseteq Int
      BY DEF Places
  <2> HIDE DEF Q, New
  <2>2. g \in [Q -> New] /\ \A k \in New : \E i \in Q : g[i] = k
      BY <1>5, <1>6
  <2>3. \A i, j \in Q : t + i = t + j => i = j
      BY <2>1
  <2>4. g \in Injection(Q, New)
      BY <2>2, <2>3 DEF Injection, IsInjective
  <2>5. g \in Surjection(Q, New)
      BY <2>2 DEF Surjection
  <2> QED
      BY <2>4, <2>5 DEF Bijection
<1>8. IsFiniteSet(P) /\ IsFiniteSet(Q)
    BY PlacesFinite
<1>9. ExistsBijection(Q, New)
    BY <1>7 DEF ExistsBijection
<1>10. IsFiniteSet(New) /\ Cardinality(New) = Cardinality(Q)
    BY <1>8, <1>9, FS_Bijection
<1> HIDE DEF P, Q, New
<1>11. Cardinality(P \cup New) = Cardinality(P) + Cardinality(New) - Cardinality(P \cap New)
    BY <1>8, <1>10, FS_Union
<1>12. Cardinality(P \cap New) = 0
    BY <1>4, FS_EmptySet
<1>13. Cardinality(P) \in Nat /\ Cardinality(New) \in Nat
    BY <1>8, <1>10, FS_CardinalityType
<1>14. Cardinality(P \cup New) = Cardinality(P) + Cardinality(New)
    BY <1>11, <1>12, <1>13
<1>15. Cardinality(Places(f, t + c, w)) = Cardinality(P) + Cardinality(Q)
    BY <1>3, <1>10, <1>14, Zenon
<1> QED
    BY <1>15 DEF P, Q, h

(* What has been dealt so far is a first part of one endless round robin.   *)
RoundRobin ==
    \E f \in Workers, t \in Nat :
        /\ workerIndex = (f + t) % NumWorkers
        /\ \A w \in Workers : dealt[w] = Cardinality(Places(f, t, w))

(* A request that was posted has items.                                     *)
Posted == \A r \in Requests : request[r] # "none" => r <= n

LEMMA PostedStep == ASSUME IInv, Posted, [Next]_vars PROVE Posted'
<1>1. CASE Post
  <2>1. n' = n /\ start <= n /\ request' = [request EXCEPT ![start] = "sent"]
      BY <1>1 DEF Post, client
  <2>2. \A r \in Requests : request'[r] = request[r] \/ r = start
      BY <2>1 DEF IInv, Types
  <2> QED
      BY <2>1, <2>2 DEF Posted
<1>2. CASE Receive \/ GiveUp \/ UNCHANGED vars
  <2>1. n' = n /\ request' = request
      BY <1>2 DEF Receive, GiveUp, vars, client
  <2> QED
      BY <2>1 DEF Posted
<1>3. ASSUME NEW q \in Requests, Server(q) PROVE Posted'
  <2>1. PICK c \in {"running", "answered", "failed"} : request' = [request EXCEPT ![q] = c]
      BY <1>3 DEF Server, Accept, Answer, Fail
  <2>2. n' = n /\ request[q] # "none"
      BY <1>3 DEF Server, Accept, Answer, Fail, client
  <2>3. \A r \in Requests : request'[r] = request[r] \/ r = q
      BY <2>1 DEF IInv, Types
  <2> QED
      BY <2>2, <2>3 DEF Posted
<1>4. ASSUME NEW w \in Workers, Worker(w) PROVE Posted'
  <2>1. n' = n /\ request' = request
      BY <1>4 DEF Worker, WorkerScores, WorkerRaises, client
  <2> QED
      BY <2>1 DEF Posted
<1> QED
    BY <1>1, <1>2, <1>3, <1>4 DEF Next, Client, Returned

LEMMA RoundRobinStep == ASSUME IInv, Posted, RoundRobin, [Next]_vars PROVE RoundRobin'
<1>1. ASSUME NEW r \in Requests, Accept(r) PROVE RoundRobin'
  <2>1. PICK f \in Workers, t \in Nat :
            /\ workerIndex = (f + t) % NumWorkers
            /\ \A w \in Workers : dealt[w] = Cardinality(Places(f, t, w))
      BY DEF RoundRobin
  <2>2. r \in Nat \ {0} /\ r <= n /\ n \in Nat
      BY <1>1, RequestsAreNumbers DEF Accept, Posted, IInv, Types
  <2> DEFINE c == Count(r)
  <2>3. c \in Nat
      BY <2>2 DEF Count
  <2>4. /\ workerIndex' = (workerIndex + c) % NumWorkers
        /\ dealt' = [w \in Workers |-> dealt[w] + Cardinality(Dealt(r, workerIndex, w))]
      BY <1>1 DEF Accept, Advanced
  <2>5. \A w \in Workers : Dealt(r, workerIndex, w) = Places((f + t) % NumWorkers, c, w)
      BY <2>1 DEF Dealt, Indices, Places
  <2> HIDE DEF c
  <2>6. ASSUME NEW w \in Workers PROVE dealt'[w] = Cardinality(Places(f, t + c, w))
    <3>1. dealt'[w] = Cardinality(Places(f, t, w)) + Cardinality(Places((f + t) % NumWorkers, c, w))
        BY <2>1, <2>4, <2>5
    <3> QED
        BY <2>3, <3>1, PlacesGrow
  <2>7. workerIndex' = (f + (t + c)) % NumWorkers
    <3>0. c \in Int
        BY <2>3
    <3>1. f \in Int /\ f + t \in Int /\ (f + t) + c = f + (t + c)
        BY <2>3 DEF Workers
    <3>2. (((f + t) % NumWorkers) + c) % NumWorkers = ((f + t) + c) % NumWorkers
        BY <3>0, <3>1, RemainderShift, Zenon
    <3> QED
        BY <2>1, <2>4, <3>1, <3>2
  <2>8. t + c \in Nat
      BY <2>3
  <2> QED
      BY <2>6, <2>7, <2>8 DEF RoundRobin
<1>2. CASE UNCHANGED <<workerIndex, dealt>>
    BY <1>2 DEF RoundRobin
<1>3. (\E r \in Requests : Accept(r)) \/ UNCHANGED <<workerIndex, dealt>>
    BY DEF Next, Client, Post, Receive, GiveUp, Server, Answer, Fail, Worker, WorkerScores,
           WorkerRaises, Returned, vars
<1> QED
    BY <1>1, <1>2, <1>3

(* The items of all requests are dealt evenly to the workers, for every     *)
(* number of them and every chunk size: no worker is ever two ahead.        *)
THEOREM DealtEvenlyAlways == Spec => []DealtEvenly
<1>1. Init => Posted /\ RoundRobin
  <2> SUFFICES ASSUME Init PROVE Posted /\ RoundRobin
      OBVIOUS
  <2>1. Posted
      BY DEF Init, Posted
  <2>2. workerIndex \in Workers /\ \A w \in Workers : dealt[w] = 0
      BY DEF Init
  <2>3. (workerIndex + 0) % NumWorkers = workerIndex
      BY <2>2 DEF Workers
  <2>4. \A w \in Workers : Places(workerIndex, 0, w) = {}
      BY DEF Places
  <2>5. \A w \in Workers : dealt[w] = Cardinality(Places(workerIndex, 0, w))
      BY <2>2, <2>4, FS_EmptySet
  <2> QED
      BY <2>1, <2>2, <2>3, <2>5 DEF RoundRobin
<1>2. RoundRobin => DealtEvenly
  <2> SUFFICES ASSUME RoundRobin, NEW v \in Workers, NEW w \in Workers PROVE dealt[v] <= dealt[w] + 1
      BY DEF DealtEvenly
  <2>1. PICK f \in Workers, t \in Nat : \A u \in Workers : dealt[u] = Cardinality(Places(f, t, u))
      BY DEF RoundRobin
  <2> QED
      BY <2>1, PlacesEven
<1>3. IInv /\ Posted /\ RoundRobin /\ [Next]_vars => (Posted /\ RoundRobin)'
    BY PostedStep, RoundRobinStep
<1> QED
    BY <1>1, <1>2, <1>3, InitInv, StepInv, PTL DEF Spec
==============================================================================
