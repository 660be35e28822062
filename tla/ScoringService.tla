---------------------------- MODULE ScoringService ----------------------------
(***************************************************************************)
(* One score_batch call against the scoring server: the client posts a     *)
(* chunk and waits, the server deals its items out to the GPU workers in   *)
(* turn, gathers their results and answers.  A client that timed out has   *)
(* already posted the next chunk while the server still works on the last. *)
(*                                                                         *)
(* Requests are named by the first item of their chunk; index i of request *)
(* r is item r + i.  A POST is not retried once it was sent, so that no    *)
(* request reaches the server twice.                                       *)
(***************************************************************************)
EXTENDS Integers, Sequences, FiniteSets

CONSTANTS
    MaxItems,     \* bound: items of the call
    ChunkSize,    \* chunk_size
    NumWorkers    \* len(_workers)

ASSUME ConstantsAssumption ==
    MaxItems \in Nat /\ ChunkSize \in Nat \ {0} /\ NumWorkers \in Nat \ {0}

VARIABLES
    n,            \* len(items)
    scores,       \* the client's all_scores
    start,        \* the client's loop variable
    request,      \* per request: "none", "sent", "running", "answered", "failed"
    first,        \* start_idx of each request
    answer,       \* all_scores of each request, on the server
    queue,        \* requests waiting for each worker, the first is running
    raised,       \* pairs <<request, worker>> that raised
    workerIndex,  \* _worker_index
    dealt         \* history: items dealt to each worker

client == <<n, scores, start>>
vars == <<n, scores, start, request, first, answer, queue, raised, workerIndex, dealt>>

Workers == 0..(NumWorkers - 1)
Requests == {r \in 1..MaxItems : (r - 1) % ChunkSize = 0}
Lost == 0
Filler == -1    \* the 0.0 of the server's all_scores

Count(r) == IF r + ChunkSize - 1 <= n THEN ChunkSize ELSE n - r + 1
Indices(r) == 0..(Count(r) - 1)

Init ==
    /\ n \in 0..MaxItems
    /\ scores = [j \in 1..n |-> Lost]
    /\ start = 1
    /\ request = [r \in Requests |-> "none"]
    /\ first = [r \in Requests |-> 0]
    /\ answer = [r \in Requests |-> <<>>]
    /\ queue = [w \in Workers |-> <<>>]
    /\ raised = {}
    /\ workerIndex \in Workers
    /\ dealt = [w \in Workers |-> 0]

-----------------------------------------------------------------------------
(* The server.                                                              *)

(* chunk_indices[w] of a request whose start_idx is f.                      *)
Dealt(r, f, w) == {i \in Indices(r) : (f + i) % NumWorkers = w}

(* _worker_index moves on by the items of the request.                      *)
Mut_NotAdvanced(r) == workerIndex
Advanced(r) == (workerIndex + Count(r)) % NumWorkers

(* The request is taken up: its items are dealt and the workers called.     *)
Accept(r) ==
    /\ request[r] = "sent"
    /\ request' = [request EXCEPT ![r] = "running"]
    /\ first' = [first EXCEPT ![r] = workerIndex]
    /\ workerIndex' = Advanced(r)
    /\ answer' = [answer EXCEPT ![r] = [i \in Indices(r) |-> Filler]]
    /\ queue' = [w \in Workers |->
                    IF Dealt(r, workerIndex, w) = {} THEN queue[w] ELSE Append(queue[w], r)]
    /\ dealt' = [w \in Workers |-> dealt[w] + Cardinality(Dealt(r, workerIndex, w))]
    /\ UNCHANGED <<client, raised>>

(* A worker is done with the request it works on: the scores of its items   *)
(* take their places.                                                       *)
WorkerScores(w) ==
    /\ queue[w] # <<>>
    /\ LET r == Head(queue[w])
       IN  answer' = [answer EXCEPT ![r] =
               [i \in Indices(r) |-> IF i \in Dealt(r, first[r], w) THEN r + i ELSE @[i]]]
    /\ queue' = [queue EXCEPT ![w] = Tail(@)]
    /\ UNCHANGED <<client, request, first, raised, workerIndex, dealt>>

WorkerRaises(w) ==
    /\ queue[w] # <<>>
    /\ raised' = raised \cup {<<Head(queue[w]), w>>}
    /\ queue' = [queue EXCEPT ![w] = Tail(@)]
    /\ UNCHANGED <<client, request, first, answer, workerIndex, dealt>>

(* ray.get returns when every worker has, or raises one's exception.        *)
AllWorkersDone(r) == \A w \in Workers : \A k \in DOMAIN queue[w] : queue[w][k] # r

Answer(r) ==
    /\ request[r] = "running"
    /\ AllWorkersDone(r)
    /\ \A w \in Workers : <<r, w>> \notin raised
    /\ request' = [request EXCEPT ![r] = "answered"]
    /\ UNCHANGED <<client, first, answer, queue, raised, workerIndex, dealt>>

Fail(r) ==
    /\ request[r] = "running"
    /\ \E w \in Workers : <<r, w>> \in raised
    /\ request' = [request EXCEPT ![r] = "failed"]
    /\ UNCHANGED <<client, first, answer, queue, raised, workerIndex, dealt>>

-----------------------------------------------------------------------------
(* The client.                                                              *)
Waiting == start \in Requests /\ request[start] # "none"

Post ==
    /\ start <= n
    /\ ~Waiting
    /\ request' = [request EXCEPT ![start] = "sent"]
    /\ UNCHANGED <<client, first, answer, queue, raised, workerIndex, dealt>>

(* The scores of the answer are stored, from start on.                      *)
Mut_StoredFromZero ==
    [j \in 1..n |-> IF j - 1 \in DOMAIN answer[start] THEN answer[start][j - 1] ELSE scores[j]]
Stored ==
    [j \in 1..n |-> IF j - start \in DOMAIN answer[start] THEN answer[start][j - start] ELSE scores[j]]

Receive ==
    /\ start <= n
    /\ Waiting
    /\ request[start] = "answered"
    /\ scores' = Stored
    /\ start' = start + ChunkSize
    /\ UNCHANGED <<n, request, first, answer, queue, raised, workerIndex, dealt>>

(* A status of 500, a timeout or a connection error: the chunk is given up. *)
GiveUp ==
    /\ start <= n
    /\ Waiting
    /\ start' = start + ChunkSize
    /\ UNCHANGED <<n, scores, request, first, answer, queue, raised, workerIndex, dealt>>

Returned == start > n /\ UNCHANGED vars

Client == Post \/ Receive \/ GiveUp
Server(r) == Accept(r) \/ Answer(r) \/ Fail(r)
Worker(w) == WorkerScores(w) \/ WorkerRaises(w)

Next ==
    \/ Client
    \/ \E r \in Requests : Server(r)
    \/ \E w \in Workers : Worker(w)
    \/ Returned

(* Only the client is sure to go on: its timeout ends every wait.           *)
Spec == Init /\ [][Next]_vars /\ WF_vars(Client)

-----------------------------------------------------------------------------
TypeOK ==
    /\ n \in 0..MaxItems
    /\ scores \in [1..n -> Int]
    /\ start \in Nat \ {0}
    /\ request \in [Requests -> {"none", "sent", "running", "answered", "failed"}]
    /\ first \in [Requests -> Workers]
    /\ \A r \in Requests : DOMAIN answer[r] \subseteq 0..(ChunkSize - 1)
    /\ queue \in [Workers -> Seq(Requests)]
    /\ raised \subseteq Requests \X Workers
    /\ workerIndex \in Workers
    /\ dealt \in [Workers -> Nat]

(* The call implements the abstract batch: no answer mixes the items of two *)
(* workers or two chunks, none still holds the server's 0.0 filler, no late *)
(* answer is taken for another chunk's, and the call returns whatever the   *)
(* server does.                                                             *)
Batch == INSTANCE ScoreBatch
ImplementsScoreBatch == Batch!Spec

(* The items of all requests together are dealt evenly: no worker has been  *)
(* given two more than another, although a request need not be a multiple   *)
(* of the number of workers.                                                *)
DealtEvenly == \A v, w \in Workers : dealt[v] <= dealt[w] + 1
===============================================================================
