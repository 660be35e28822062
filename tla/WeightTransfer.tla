---------------------------- MODULE WeightTransfer ----------------------------
(***************************************************************************)
(* One transfer of the trainer's weights to the workers of a rollout       *)
(* replica that does not share its GPUs (NCCLCheckpointEngine and          *)
(* BucketedWeightSender / BucketedWeightReceiver).                         *)
(*                                                                         *)
(* Rank 0 packs the weights into one of two buffers while the other is     *)
(* broadcast.  A rollout rank receives into one of its two buffers while   *)
(* it hands out tensors of the other; ServerAdapter.update_weights copies  *)
(* these into a third buffer, shared with the inference worker, which      *)
(* clones a bucket, answers, and loads it while the next is being filled.  *)
(*                                                                         *)
(* A byte of a buffer is the weight it belongs to, 0 before any.  A bucket *)
(* meta is a sequence of entries: a weight and its offset.  Broadcast and  *)
(* stream copies are external: a broadcast has read rank 0's buffer when   *)
(* it completes there, and fills a receiver's buffer some time later.      *)
(***************************************************************************)
EXTENDS Integers, Sequences, FiniteSets

CONSTANTS
    Receivers,    \* rollout ranks of the replica
    Leader,       \* rollout_rank 0
    NumWeights,   \* weights are 1..NumWeights in the generator's order
    BucketSize    \* bucket_size, the same for both kinds of bucket

ASSUME ConstantsAssumption ==
    /\ Leader \in Receivers
    /\ NumWeights \in Nat \ {0}
    /\ BucketSize \in Nat \ {0}

VARIABLES
    size,      \* nbytes of each weight; none is larger than a bucket
    next,      \* next weight of rank 0's generator
    sbuf,      \* rank 0: its two buffers
    fill,      \*         which of them is send_buf
    offset,    \*         offset
    meta,      \*         bucket_meta
    op,        \*         broadcast_op, with the receivers it has yet to reach
    wire,      \* per receiver: buckets that have left rank 0 and not arrived
    rbuf,      \* per receiver: the engine's two buffers
    recv,      \*         which of them is recv_buf
    posted,    \*         broadcast_op: "none", "posted", "complete"
    arrived,   \*         the metadata of the completed operation
    rmeta,     \*         entries of send_buf not yielded yet, and is_last
    copies,    \*         non-blocking copies that have not run yet, in order
    ibuf,      \*         the buffer shared with the inference worker
    imeta,     \*         bucket_meta of that buffer
    ioffset,   \*         offset in that buffer
    chan,      \*         the REQ/REP socket between the two
    clones,    \* per inference worker: the bucket it holds
    work,      \*         what it does
    loaded,    \*         weights given to the model, with the bytes read
    announced  \* clear_kv_cache and set_global_steps were called

senderVars == <<next, sbuf, fill, offset, meta, op>>
engineVars == <<rbuf, recv, posted, arrived, rmeta>>
bucketVars == <<copies, ibuf, imeta, ioffset>>
workerVars == <<clones, work, loaded>>
vars == <<size, senderVars, wire, engineVars, bucketVars, chan, workerVars, announced>>

Weights == 1..NumWeights
Cells == 0..(BucketSize - 1)
Buffers == [Cells -> 0..NumWeights]
Extent(w, o) == o..(o + size[w] - 1)
Fits(w, o) == o + size[w] <= BucketSize

Blank == [c \in Cells |-> 0]
NoMeta == [entries |-> <<>>, last |-> FALSE]

Init ==
    /\ size \in [Weights -> 1..BucketSize]
    /\ next = 1
    /\ sbuf = [b \in {0, 1} |-> Blank]
    /\ fill = 0
    /\ offset = 0
    /\ meta = <<>>
    /\ op = [buf |-> 1, meta |-> NoMeta, todo |-> {}]
    /\ wire = [r \in Receivers |-> <<>>]
    /\ rbuf = [r \in Receivers |-> [b \in {0, 1} |-> Blank]]
    /\ recv = [r \in Receivers |-> 1]
    /\ posted = [r \in Receivers |-> "none"]
    /\ arrived = [r \in Receivers |-> NoMeta]
    /\ rmeta = [r \in Receivers |-> NoMeta]
    /\ copies = [r \in Receivers |-> <<>>]
    /\ ibuf = [r \in Receivers |-> Blank]
    /\ imeta = [r \in Receivers |-> <<>>]
    /\ ioffset = [r \in Receivers |-> 0]
    /\ chan = [r \in Receivers |-> "connecting"]
    /\ clones = [r \in Receivers |-> <<>>]
    /\ work = [r \in Receivers |-> "receiving"]
    /\ loaded = [r \in Receivers |-> <<>>]
    /\ announced = FALSE

-----------------------------------------------------------------------------
(* Rank 0 of the trainer: send_weights.                                     *)

Written(buf, w, o) == [c \in Cells |-> IF c \in Extent(w, o) THEN w ELSE buf[c]]

Pack ==
    /\ ~op.meta.last
    /\ next \in Weights
    /\ Fits(next, offset)
    /\ sbuf' = [sbuf EXCEPT ![fill] = Written(@, next, offset)]
    /\ meta' = Append(meta, [weight |-> next, offset |-> offset])
    /\ offset' = offset + size[next]
    /\ next' = next + 1
    /\ UNCHANGED <<size, fill, op, wire, engineVars, bucketVars, chan, workerVars, announced>>

(* wait_for_complete of the previous broadcast, if there was one.           *)
Mut_NotAwaited == TRUE
PreviousComplete == op.todo = {}

(* The bucket is broadcast and the buffers change places, when the next     *)
(* weight does not fit or there is none.                                    *)
Broadcast ==
    /\ ~op.meta.last
    /\ next \in Weights => ~Fits(next, offset)
    /\ PreviousComplete
    /\ op' = [buf |-> fill,
              meta |-> [entries |-> meta, last |-> next \notin Weights],
              todo |-> Receivers]
    /\ fill' = 1 - fill
    /\ meta' = <<>>
    /\ offset' = 0
    /\ UNCHANGED <<size, next, sbuf, wire, engineVars, bucketVars, chan, workerVars, announced>>

(* NCCL and the metadata socket: the buffer is read for one receiver.       *)
Transmit(r) ==
    /\ r \in op.todo
    /\ wire' = [wire EXCEPT ![r] = Append(@, [meta |-> op.meta, data |-> sbuf[op.buf]])]
    /\ op' = [op EXCEPT !.todo = @ \ {r}]
    /\ UNCHANGED <<size, next, sbuf, fill, offset, meta, engineVars, bucketVars, chan,
                   workerVars, announced>>

(* NCCL: the bucket is in the receive buffer, the operation is complete.    *)
Arrive(r) ==
    /\ posted[r] = "posted"
    /\ wire[r] # <<>>
    /\ wire' = [wire EXCEPT ![r] = Tail(@)]
    /\ rbuf' = [rbuf EXCEPT ![r][recv[r]] = Head(wire[r]).data]
    /\ arrived' = [arrived EXCEPT ![r] = Head(wire[r]).meta]
    /\ posted' = [posted EXCEPT ![r] = "complete"]
    /\ UNCHANGED <<size, senderVars, recv, rmeta, bucketVars, chan, workerVars, announced>>

-----------------------------------------------------------------------------
(* A rollout rank: receive_weights as consumed by async_send_weights.       *)

(* The inference worker has answered the buffer's handle; the generator is  *)
(* asked for its first weight and posts its first operation.                *)
Connect(r) ==
    /\ chan[r] = "connecting"
    /\ chan' = [chan EXCEPT ![r] = "idle"]
    /\ posted' = [posted EXCEPT ![r] = "posted"]
    /\ UNCHANGED <<size, senderVars, wire, rbuf, recv, arrived, rmeta, bucketVars,
                   workerVars, announced>>

(* torch.cuda.synchronize before the buffers change places.                 *)
Mut_NotSynchronized(r) == TRUE
Synchronized(r) == copies[r] = <<>>

(* Everything was yielded and the next bucket is there: the buffers change  *)
(* places, and the operation after it is posted at once.                    *)
NextBucket(r) ==
    /\ chan[r] = "idle"
    /\ rmeta[r].entries = <<>>
    /\ posted[r] = "complete"
    /\ Synchronized(r)
    /\ recv' = [recv EXCEPT ![r] = 1 - @]
    /\ rmeta' = [rmeta EXCEPT ![r] = arrived[r]]
    /\ posted' = [posted EXCEPT ![r] = IF arrived[r].last THEN "none" ELSE "posted"]
    /\ UNCHANGED <<size, senderVars, wire, rbuf, arrived, bucketVars, chan, workerVars, announced>>

(* The next tensor, a view of send_buf, is copied into the shared buffer    *)
(* without waiting for the copy.                                            *)
Yield(r) ==
    LET e == Head(rmeta[r].entries)
    IN  /\ chan[r] = "idle"
        /\ rmeta[r].entries # <<>>
        /\ Fits(e.weight, ioffset[r])
        /\ rmeta' = [rmeta EXCEPT ![r].entries = Tail(@)]
        /\ copies' = [copies EXCEPT ![r] = Append(@,
               [weight |-> e.weight, buf |-> 1 - recv[r], from |-> e.offset, to |-> ioffset[r]])]
        /\ imeta' = [imeta EXCEPT ![r] = Append(@, [weight |-> e.weight, offset |-> ioffset[r]])]
        /\ ioffset' = [ioffset EXCEPT ![r] = @ + size[e.weight]]
        /\ UNCHANGED <<size, senderVars, wire, rbuf, recv, posted, arrived, ibuf, chan,
                       workerVars, announced>>

(* The device: a copy runs.                                                 *)
CopyRuns(r) ==
    LET c == Head(copies[r])
    IN  /\ copies[r] # <<>>
        /\ ibuf' = [ibuf EXCEPT ![r] =
               [x \in Cells |-> IF x \in Extent(c.weight, c.to)
                                THEN rbuf[r][c.buf][c.from + (x - c.to)] ELSE @[x]]]
        /\ copies' = [copies EXCEPT ![r] = Tail(@)]
        /\ UNCHANGED <<size, senderVars, wire, engineVars, imeta, ioffset, chan, workerVars,
                       announced>>

Exhausted(r) == rmeta[r].entries = <<>> /\ rmeta[r].last

(* The next tensor does not fit, or there is none: after a synchronize the  *)
(* bucket is sent to the inference worker.                                  *)
SendBucket(r) ==
    /\ chan[r] = "idle"
    /\ \/ Exhausted(r)
       \/ rmeta[r].entries # <<>> /\ ~Fits(Head(rmeta[r].entries).weight, ioffset[r])
    /\ copies[r] = <<>>
    /\ chan' = [chan EXCEPT ![r] = "request"]
    /\ UNCHANGED <<size, senderVars, wire, engineVars, bucketVars, workerVars, announced>>

Answered(r) ==
    /\ chan[r] = "reply"
    /\ chan' = [chan EXCEPT ![r] = IF Exhausted(r) THEN "closed" ELSE "idle"]
    /\ imeta' = [imeta EXCEPT ![r] = <<>>]
    /\ ioffset' = [ioffset EXCEPT ![r] = 0]
    /\ UNCHANGED <<size, senderVars, wire, engineVars, copies, ibuf, workerVars, announced>>

-----------------------------------------------------------------------------
(* The inference worker: receive_weights.                                   *)

BytesOf(r, e) == [name |-> e.weight, bytes |-> {ibuf[r][c] : c \in Extent(e.weight, e.offset)}]

(* The bucket is cloned, then the request is answered.                      *)
CloneBucket(r) ==
    /\ chan[r] = "request"
    /\ work[r] = "receiving"
    /\ clones' = [clones EXCEPT ![r] = [i \in DOMAIN imeta[r] |-> BytesOf(r, imeta[r][i])]]
    /\ work' = [work EXCEPT ![r] = IF Exhausted(r) THEN "loading last" ELSE "loading"]
    /\ chan' = [chan EXCEPT ![r] = "reply"]
    /\ UNCHANGED <<size, senderVars, wire, engineVars, bucketVars, loaded, announced>>

(* on_bucket_received: the clones are given to the model.                   *)
Load(r) ==
    /\ work[r] \in {"loading", "loading last"}
    /\ loaded' = [loaded EXCEPT ![r] = @ \o clones[r]]
    /\ work' = [work EXCEPT ![r] = IF @ = "loading" THEN "receiving" ELSE "done"]
    /\ clones' = [clones EXCEPT ![r] = <<>>]
    /\ UNCHANGED <<size, senderVars, wire, engineVars, bucketVars, chan, announced>>

(* The leader's sender has returned and the call on all workers with it:    *)
(* the server drops its prefix cache and takes the new step.                *)
Announce ==
    /\ ~announced
    /\ chan[Leader] = "closed"
    /\ \A r \in Receivers : work[r] = "done"
    /\ announced' = TRUE
    /\ UNCHANGED <<size, senderVars, wire, engineVars, bucketVars, chan, workerVars>>

Finished == announced /\ UNCHANGED vars

-----------------------------------------------------------------------------
Trainer == Pack \/ Broadcast
Network(r) == Transmit(r) \/ Arrive(r)
Rollout(r) == Connect(r) \/ NextBucket(r) \/ Yield(r) \/ CopyRuns(r) \/ SendBucket(r) \/ Answered(r)
Worker(r) == CloneBucket(r) \/ Load(r)

Next ==
    \/ Trainer
    \/ \E r \in Receivers : Network(r) \/ Rollout(r) \/ Worker(r)
    \/ Announce
    \/ Finished

(* Every step is the end of a wait that nothing else can prevent.           *)
Spec == Init /\ [][Next]_vars /\ WF_vars(Next)

-----------------------------------------------------------------------------
(* A bucket's entries, and a copy's two ends, lie within their buffers.      *)
Entries == {e \in [weight : Weights, offset : Cells] : Fits(e.weight, e.offset)}
BucketMetas == [entries : Seq(Entries), last : BOOLEAN]
Buckets == [meta : BucketMetas, data : Buffers]
Copies == {c \in [weight : Weights, buf : {0, 1}, from : Cells, to : Cells] :
              Fits(c.weight, c.from) /\ Fits(c.weight, c.to)}
Clones == [name : Weights, bytes : SUBSET (0..NumWeights)]

TypeOK ==
    /\ size \in [Weights -> 1..BucketSize]
    /\ next \in 1..(NumWeights + 1)
    /\ sbuf \in [{0, 1} -> Buffers] /\ fill \in {0, 1}
    /\ offset \in 0..BucketSize
    /\ meta \in Seq(Entries)
    /\ op \in [buf : {0, 1}, meta : BucketMetas, todo : SUBSET Receivers]
    /\ wire \in [Receivers -> Seq(Buckets)]
    /\ rbuf \in [Receivers -> [{0, 1} -> Buffers]] /\ recv \in [Receivers -> {0, 1}]
    /\ posted \in [Receivers -> {"none", "posted", "complete"}]
    /\ arrived \in [Receivers -> BucketMetas] /\ rmeta \in [Receivers -> BucketMetas]
    /\ copies \in [Receivers -> Seq(Copies)]
    /\ ibuf \in [Receivers -> Buffers]
    /\ imeta \in [Receivers -> Seq(Entries)]
    /\ ioffset \in [Receivers -> 0..BucketSize]
    /\ chan \in [Receivers -> {"connecting", "idle", "request", "reply", "closed"}]
    /\ clones \in [Receivers -> Seq(Clones)]
    /\ work \in [Receivers -> {"receiving", "loading", "loading last", "done"}]
    /\ loaded \in [Receivers -> Seq(Clones)]
    /\ announced \in BOOLEAN

(* No buffer has two users: rank 0 packs into a buffer that is not being    *)
(* broadcast, a receiver never has a copy to run from the buffer it has     *)
(* posted for the next bucket, nor bytes to come into the shared buffer     *)
(* while the inference worker reads it.                                     *)
BuffersApart ==
    /\ op.todo # {} => op.buf # fill
    /\ \A r \in Receivers :
           /\ posted[r] = "posted" => \A i \in DOMAIN copies[r] : copies[r][i].buf # recv[r]
           /\ chan[r] = "request" => copies[r] = <<>>

(* What the transfer implements: with the other engines it is compared with *)
(* the abstract stream in MCCheckpointEngine.                               *)
Stream == INSTANCE WeightStream
===============================================================================
