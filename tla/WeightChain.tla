------------------------------ MODULE WeightChain ------------------------------
(***************************************************************************)
(* What the NIXL and the Mooncake checkpoint engine have in common: the    *)
(* trainer's rank 0 packs the weights into one of two buffers, and buckets *)
(* go from rank to rank along a chain.  A rank of the rollout hands out    *)
(* tensors as views of a buffer; whoever takes them copies them without    *)
(* waiting for the copy.                                                   *)
(*                                                                         *)
(* A byte of a buffer is the weight it belongs to, 0 before any.  A bucket *)
(* meta is a sequence of entries: a weight and its offset.                 *)
(***************************************************************************)
EXTENDS Integers, Sequences

CONSTANTS
    Rollouts,     \* rollout_world_size
    NumWeights,   \* weights are 1..NumWeights in the generator's order
    BucketSize    \* bucket_size

VARIABLES
    size,      \* nbytes of each weight; none is larger than a bucket
    next,      \* next weight of rank 0's generator
    fill,      \* rank 0's buffer that is being packed
    offset,    \* offset in it
    meta,      \* bucket_meta of it
    buf,       \* per rank: its two buffers
    entries,   \* per rollout rank: the entries of its bucket not yielded yet
    copies,    \* copies of yielded tensors that have not run yet, in order
    loaded,    \* weights that were copied, with the bytes read
    announced  \* the manager goes on and resumes the replicas

packVars == <<next, fill, offset, meta>>
chainVars == <<size, packVars, buf, entries, copies, loaded, announced>>

Ranks == 0..Rollouts
RolloutRanks == 1..Rollouts
Weights == 1..NumWeights
Cells == 0..(BucketSize - 1)
Extent(w, o) == o..(o + size[w] - 1)
Fits(w, o) == o + size[w] <= BucketSize

ChainInit ==
    /\ size \in [Weights -> 1..BucketSize]
    /\ next = 1 /\ fill = 0 /\ offset = 0 /\ meta = <<>>
    /\ buf = [r \in Ranks |-> [b \in {0, 1} |-> [c \in Cells |-> 0]]]
    /\ entries = [r \in RolloutRanks |-> <<>>]
    /\ copies = [r \in RolloutRanks |-> <<>>]
    /\ loaded = [r \in RolloutRanks |-> <<>>]
    /\ announced = FALSE

(* send_weights puts the next weight into the bucket if it fits.            *)
Pack ==
    /\ next \in Weights /\ Fits(next, offset)
    /\ buf' = [buf EXCEPT ![0][fill] =
           [c \in Cells |-> IF c \in Extent(next, offset) THEN next ELSE @[c]]]
    /\ meta' = Append(meta, [weight |-> next, offset |-> offset])
    /\ offset' = offset + size[next]
    /\ next' = next + 1
    /\ UNCHANGED <<size, fill, entries, copies, loaded, announced>>

(* The bucket goes off when the next weight does not fit, or when there is  *)
(* none; after the last one nothing is left.                                *)
BucketReady == (next \in Weights => ~Fits(next, offset)) /\ meta # <<>>
IsLast == next \notin Weights
AllSent == next \notin Weights /\ meta = <<>>

EmptyBucket(b) ==
    /\ fill' = b /\ offset' = 0 /\ meta' = <<>>
    /\ UNCHANGED <<size, next, announced>>

(* receive_weights yields a tensor of buffer b, and its copy is started.    *)
Yield(r, b) ==
    /\ entries[r] # <<>>
    /\ copies' = [copies EXCEPT ![r] = Append(@, [buf |-> b, entry |-> Head(entries[r])])]
    /\ entries' = [entries EXCEPT ![r] = Tail(@)]
    /\ UNCHANGED <<size, packVars, buf, loaded, announced>>

(* The device: a copy runs.                                                 *)
CopyRuns(r) ==
    LET c == Head(copies[r])
        read == {buf[r][c.buf][x] : x \in Extent(c.entry.weight, c.entry.offset)}
    IN  /\ copies[r] # <<>>
        /\ loaded' = [loaded EXCEPT ![r] = Append(@, [name |-> c.entry.weight, bytes |-> read])]
        /\ copies' = [copies EXCEPT ![r] = Tail(@)]
        /\ UNCHANGED <<size, packVars, buf, entries, announced>>

(* CheckpointEngineManager.update_weights goes on when the calls on rank 0  *)
(* and on all rollout ranks have returned; whoever took the tensors there   *)
(* synchronizes the device before it returns.                               *)
AnnounceIf(returned) ==
    /\ ~announced
    /\ returned
    /\ \A r \in RolloutRanks : copies[r] = <<>>
    /\ announced' = TRUE
    /\ UNCHANGED <<size, packVars, buf, entries, copies, loaded>>
===============================================================================
