------------------------- MODULE WeightTransferProofs -------------------------
(***************************************************************************)
(* For any receivers, weights, sizes and buckets: no buffer has two users, *)
(* and the transfer implements the safety part of WeightStream.            *)
(*                                                                         *)
(* The inductive invariant follows the weights through the pipeline.  Read *)
(* backwards from a worker's model it is a sequence of segments: loaded,   *)
(* cloned, in the shared buffer, in the engine's two buffers, on the wire, *)
(* being broadcast, being packed.  Each segment begins with the weight     *)
(* after the last one of the segment before it, and in every buffer a      *)
(* weight still has its own bytes for as long as something reads them.     *)
(***************************************************************************)
EXTENDS WeightTransfer, TLAPS

(* The entries are consecutive weights from a on; buf has their bytes.      *)
Run(s, a) == \A i \in DOMAIN s : s[i].weight = a + i - 1
Holds(s, buf) ==
    \A i \in DOMAIN s : \A x \in Extent(s[i].weight, s[i].offset) : buf[x] = s[i].weight

-----------------------------------------------------------------------------
(* Rank 0: the bucket being packed follows the one being broadcast.         *)

MetaStart == next - Len(meta)
OpStart == MetaStart - Len(op.meta.entries)

PackInv ==
    /\ Run(meta, MetaStart)
    /\ Holds(meta, sbuf[fill])
    /\ \A i \in DOMAIN meta : meta[i].offset + size[meta[i].weight] <= offset
    /\ offset > 0 => meta # <<>>
    /\ next \notin Weights => meta # <<>> \/ op.meta.last

OpInv ==
    /\ op.todo # {} =>
           /\ op.buf # fill
           /\ op.meta.entries # <<>>
           /\ Holds(op.meta.entries, sbuf[op.buf])
    /\ Run(op.meta.entries, OpStart)
    /\ op.meta.last => meta = <<>> /\ next = NumWeights + 1

SenderInv == PackInv /\ OpInv

-----------------------------------------------------------------------------
(* The next weight that is not yet on the way to r, and the segments of r.  *)
Sent(r) == IF r \in op.todo THEN OpStart ELSE MetaStart

AfterLoaded(r) == Len(loaded[r]) + 1
AfterClones(r) == AfterLoaded(r) + Len(clones[r])
AfterShared(r) == AfterClones(r) + (IF chan[r] = "reply" THEN 0 ELSE Len(imeta[r]))
AfterEngine(r) == AfterShared(r) + Len(rmeta[r].entries)
AfterArrived(r) == AfterEngine(r) + (IF posted[r] = "complete" THEN Len(arrived[r].entries) ELSE 0)

(* The wire carries whole buckets one after the other: the k-th of w ends   *)
(* where the next begins, or at weight z.                                   *)
First(b) == b.meta.entries[1].weight

InPlace(w, k, z) ==
    LET s == w[k].meta.entries
    IN  /\ s # <<>>
        /\ Run(s, First(w[k]))
        /\ Holds(s, w[k].data)
        /\ First(w[k]) + Len(s) = IF k = Len(w) THEN z ELSE First(w[k + 1])
        /\ w[k].meta.last => k = Len(w) /\ z = NumWeights + 1

WireInv(r) ==
    /\ wire[r] = <<>> => AfterArrived(r) = Sent(r)
    /\ wire[r] # <<>> => First(wire[r][1]) = AfterArrived(r)
    /\ \A k \in DOMAIN wire[r] : InPlace(wire[r], k, Sent(r))

(* The engine's buffers: one being yielded and copied from, one received.   *)
EngineInv(r) ==
    /\ Run(rmeta[r].entries, AfterShared(r))
    /\ Holds(rmeta[r].entries, rbuf[r][1 - recv[r]])
    /\ rmeta[r].last => AfterEngine(r) = NumWeights + 1 /\ posted[r] = "none"
    /\ chan[r] = "connecting" => ~rmeta[r].last /\ posted[r] = "none"
    /\ posted[r] = "complete" =>
           /\ Run(arrived[r].entries, AfterEngine(r))
           /\ Holds(arrived[r].entries, rbuf[r][recv[r]])
           /\ arrived[r].last => AfterArrived(r) = NumWeights + 1

(* The shared buffer: entries do not overlap, and each has its bytes or a   *)
(* copy that will bring them.                                               *)
Brings(c, e) == c.weight = e.weight /\ c.to = e.offset

SharedInv(r) ==
    /\ chan[r] # "reply" => Run(imeta[r], AfterClones(r))
    /\ chan[r] # "idle" => copies[r] = <<>>
    /\ \A i \in DOMAIN imeta[r] : imeta[r][i].offset + size[imeta[r][i].weight] <= ioffset[r]
    /\ \A i, j \in DOMAIN imeta[r] :
           i < j => imeta[r][i].offset + size[imeta[r][i].weight] <= imeta[r][j].offset
    /\ \A j \in DOMAIN copies[r] :
           /\ copies[r][j].buf = 1 - recv[r]
           /\ \A x \in Extent(copies[r][j].weight, copies[r][j].from) :
                  rbuf[r][1 - recv[r]][x] = copies[r][j].weight
           /\ \E i \in DOMAIN imeta[r] : Brings(copies[r][j], imeta[r][i])
    /\ \A i \in DOMAIN imeta[r] :
           \/ \E j \in DOMAIN copies[r] : Brings(copies[r][j], imeta[r][i])
           \/ \A x \in Extent(imeta[r][i].weight, imeta[r][i].offset) : ibuf[r][x] = imeta[r][i].weight

(* The worker has the weights up to some weight, each with its own bytes.   *)
Own(w) == [name |-> w, bytes |-> {w}]

WorkerInv(r) ==
    /\ \A i \in DOMAIN loaded[r] : loaded[r][i] = Own(i)
    /\ \A i \in DOMAIN clones[r] : clones[r][i] = Own(Len(loaded[r]) + i)
    /\ work[r] \in {"receiving", "done"} => clones[r] = <<>>
    /\ work[r] = "loading last" => AfterClones(r) = NumWeights + 1
    /\ work[r] = "done" => AfterLoaded(r) = NumWeights + 1

ReceiverInv(r) == WireInv(r) /\ EngineInv(r) /\ SharedInv(r) /\ WorkerInv(r)

IInv == TypeOK /\ SenderInv /\ \A r \in Receivers : ReceiverInv(r)
-----------------------------------------------------------------------------
(* Sequences, for any set of elements.                                      *)
LEMMA AppendFacts ==
    ASSUME NEW S, NEW s \in Seq(S), NEW e \in S
    PROVE  /\ Append(s, e) \in Seq(S)
           /\ Len(Append(s, e)) = Len(s) + 1
           /\ DOMAIN Append(s, e) = 1..(Len(s) + 1)
           /\ Append(s, e)[Len(s) + 1] = e
           /\ \A i \in 1..Len(s) : Append(s, e)[i] = s[i]
OBVIOUS

LEMMA TailFacts ==
    ASSUME NEW S, NEW s \in Seq(S), s # <<>>
    PROVE  /\ Head(s) \in S /\ Head(s) = s[1] /\ 1 \in DOMAIN s
           /\ Tail(s) \in Seq(S)
           /\ Len(Tail(s)) = Len(s) - 1 /\ Len(s) \in Nat \ {0}
           /\ DOMAIN Tail(s) = 1..(Len(s) - 1)
           /\ \A i \in 1..(Len(s) - 1) : Tail(s)[i] = s[i + 1]
OBVIOUS

LEMMA ConcatFacts ==
    ASSUME NEW S, NEW s \in Seq(S), NEW t \in Seq(S)
    PROVE  /\ s \o t \in Seq(S) /\ Len(s \o t) = Len(s) + Len(t)
           /\ DOMAIN (s \o t) = 1..(Len(s) + Len(t))
           /\ \A i \in 1..Len(s) : (s \o t)[i] = s[i]
           /\ \A i \in 1..Len(t) : (s \o t)[Len(s) + i] = t[i]
OBVIOUS

LEMMA SeqFacts ==
    ASSUME NEW S, NEW s \in Seq(S)
    PROVE  /\ Len(s) \in Nat /\ DOMAIN s = 1..Len(s)
           /\ s = <<>> <=> Len(s) = 0
           /\ \A i \in 1..Len(s) : s[i] \in S
OBVIOUS

-----------------------------------------------------------------------------
(* Types.  The sizes of the weights never change, so the sets they bound    *)
(* stay the same.                                                           *)
LEMMA TypesFixed ==
    ASSUME size' = size
    PROVE  Entries' = Entries /\ BucketMetas' = BucketMetas
      /\ Buckets' = Buckets /\ Copies' = Copies
BY DEF Entries, BucketMetas, Buckets, Copies, Fits

LEMMA TypePack == TypeOK /\ Pack => TypeOK'
<1> SUFFICES ASSUME TypeOK, Pack PROVE TypeOK'
    OBVIOUS
<1> USE ConstantsAssumption
<1>1. size' = size /\ Entries' = Entries /\ BucketMetas' = BucketMetas
      /\ Buckets' = Buckets /\ Copies' = Copies
    BY TypesFixed DEF Pack
<1>2. next \in 1..NumWeights /\ size[next] \in 1..BucketSize /\ offset \in 0..BucketSize
      /\ meta \in Seq(Entries) /\ sbuf \in [{0, 1} -> Buffers] /\ fill \in {0, 1}
    BY DEF Pack, TypeOK, Weights
<1>3. next' = next + 1 /\ offset' = offset + size[next] /\ offset + size[next] <= BucketSize
    BY DEF Pack, Fits
<1>4. next' \in 1..(NumWeights + 1) /\ offset' \in 0..BucketSize
    BY <1>2, <1>3
<1>5. [weight |-> next, offset |-> offset] \in Entries
    BY <1>2, <1>3 DEF Entries, Weights, Cells, Fits
<1>6. meta' \in Seq(Entries)
    BY <1>2, <1>5, AppendFacts DEF Pack
<1>7. sbuf' \in [{0, 1} -> Buffers]
  <2>1. Written(sbuf[fill], next, offset) \in Buffers
      BY <1>2 DEF Written, Buffers
  <2> QED
      BY <1>2, <2>1 DEF Pack
<1> QED
    BY <1>1, <1>4, <1>6, <1>7 DEF Pack, TypeOK, engineVars, bucketVars, workerVars

LEMMA TypeBroadcast == TypeOK /\ Broadcast => TypeOK'
<1> SUFFICES ASSUME TypeOK, Broadcast PROVE TypeOK'
    OBVIOUS
<1>1. size' = size /\ Entries' = Entries /\ BucketMetas' = BucketMetas
      /\ Buckets' = Buckets /\ Copies' = Copies
    BY TypesFixed DEF Broadcast
<1>2. meta \in Seq(Entries) /\ fill \in {0, 1}
    BY DEF TypeOK
<1>3. op' \in [buf : {0, 1}, meta : BucketMetas, todo : SUBSET Receivers]
    BY <1>2 DEF Broadcast, BucketMetas
<1>4. fill' \in {0, 1} /\ meta' = <<>> /\ offset' = 0
    BY <1>2 DEF Broadcast
<1>5. <<>> \in Seq(Entries) /\ 0 \in 0..BucketSize
    BY ConstantsAssumption
<1> QED
    BY <1>1, <1>3, <1>4, <1>5 DEF Broadcast, TypeOK, engineVars, bucketVars, workerVars

LEMMA TypeTransmit == \A r \in Receivers : TypeOK /\ Transmit(r) => TypeOK'
<1> SUFFICES ASSUME NEW r \in Receivers, TypeOK, Transmit(r) PROVE TypeOK'
    OBVIOUS
<1>1. size' = size /\ Entries' = Entries /\ BucketMetas' = BucketMetas
      /\ Buckets' = Buckets /\ Copies' = Copies
    BY TypesFixed DEF Transmit
<1>2. wire \in [Receivers -> Seq(Buckets)] /\ [meta |-> op.meta, data |-> sbuf[op.buf]] \in Buckets
    BY DEF TypeOK, Buckets
<1>3. wire' = [wire EXCEPT ![r] = Append(@, [meta |-> op.meta, data |-> sbuf[op.buf]])]
    BY DEF Transmit
<1>4. wire' \in [Receivers -> Seq(Buckets)]
    BY <1>2, <1>3, AppendFacts
<1>5. op' \in [buf : {0, 1}, meta : BucketMetas, todo : SUBSET Receivers]
    BY DEF Transmit, TypeOK
<1> QED
    BY <1>1, <1>4, <1>5 DEF Transmit, TypeOK, engineVars, bucketVars, workerVars

LEMMA TypeArrive == \A r \in Receivers : TypeOK /\ Arrive(r) => TypeOK'
<1> SUFFICES ASSUME NEW r \in Receivers, TypeOK, Arrive(r) PROVE TypeOK'
    OBVIOUS
<1>1. size' = size /\ Entries' = Entries /\ BucketMetas' = BucketMetas
      /\ Buckets' = Buckets /\ Copies' = Copies
    BY TypesFixed DEF Arrive
<1>2. wire \in [Receivers -> Seq(Buckets)] /\ wire[r] # <<>> /\ wire' = [wire EXCEPT ![r] = Tail(@)]
    BY DEF Arrive, TypeOK
<1>3. Head(wire[r]) \in Buckets /\ wire' \in [Receivers -> Seq(Buckets)]
    BY <1>2, TailFacts
<1>4. rbuf' \in [Receivers -> [{0, 1} -> Buffers]]
  <2>1. [rbuf[r] EXCEPT ![recv[r]] = Head(wire[r]).data] \in [{0, 1} -> Buffers]
      BY <1>3 DEF TypeOK, Buckets
  <2> QED
      BY <2>1 DEF Arrive, TypeOK
<1>5. arrived' \in [Receivers -> BucketMetas]
      /\ posted' \in [Receivers -> {"none", "posted", "complete"}]
    BY <1>3 DEF Arrive, TypeOK, Buckets
<1> QED
    BY <1>1, <1>3, <1>4, <1>5 DEF Arrive, TypeOK, senderVars, bucketVars, workerVars

LEMMA TypeNextBucket == \A r \in Receivers : TypeOK /\ NextBucket(r) => TypeOK'
<1> SUFFICES ASSUME NEW r \in Receivers, TypeOK, NextBucket(r) PROVE TypeOK'
    OBVIOUS
<1>1. size' = size /\ Entries' = Entries /\ BucketMetas' = BucketMetas
      /\ Buckets' = Buckets /\ Copies' = Copies
    BY TypesFixed DEF NextBucket
<1>2. /\ recv' \in [Receivers -> {0, 1}]
      /\ rmeta' \in [Receivers -> BucketMetas]
      /\ posted' \in [Receivers -> {"none", "posted", "complete"}]
  <2>1. recv \in [Receivers -> {0, 1}] /\ recv' = [recv EXCEPT ![r] = 1 - @]
      BY DEF NextBucket, TypeOK
  <2>2. recv' \in [Receivers -> {0, 1}]
      BY <2>1
  <2>3. arrived[r] \in BucketMetas
      BY DEF TypeOK
  <2> QED
      BY <2>2, <2>3 DEF NextBucket, TypeOK
<1> QED
    BY <1>1, <1>2 DEF NextBucket, TypeOK, senderVars, bucketVars, workerVars

LEMMA TypeYield == \A r \in Receivers : TypeOK /\ Yield(r) => TypeOK'
<1> SUFFICES ASSUME NEW r \in Receivers, TypeOK, Yield(r) PROVE TypeOK'
    OBVIOUS
<1> DEFINE e == Head(rmeta[r].entries)
           c == [weight |-> e.weight, buf |-> 1 - recv[r], from |-> e.offset, to |-> ioffset[r]]
           i == [weight |-> e.weight, offset |-> ioffset[r]]
<1>1. size' = size /\ Entries' = Entries /\ BucketMetas' = BucketMetas
      /\ Buckets' = Buckets /\ Copies' = Copies
    BY TypesFixed DEF Yield
<1>2. rmeta[r] \in BucketMetas /\ rmeta[r].entries \in Seq(Entries) /\ rmeta[r].entries # <<>>
    BY DEF Yield, TypeOK, BucketMetas
<1>3. e \in Entries /\ Tail(rmeta[r].entries) \in Seq(Entries)
    BY <1>2, TailFacts
<1>4. ioffset[r] \in 0..BucketSize /\ recv[r] \in {0, 1} /\ size[e.weight] \in 1..BucketSize
    BY <1>3 DEF TypeOK, Entries
<1>5. ioffset[r] + size[e.weight] <= BucketSize
    BY DEF Yield, Fits
<1>6. ioffset[r] \in Cells /\ ioffset[r] + size[e.weight] \in 0..BucketSize
    BY <1>4, <1>5, ConstantsAssumption DEF Cells
<1>7. c \in Copies /\ i \in Entries
    BY <1>3, <1>4, <1>5, <1>6 DEF Copies, Entries, Fits
<1>8. rmeta' \in [Receivers -> BucketMetas]
  <2>1. [rmeta[r] EXCEPT !.entries = Tail(@)] \in BucketMetas
      BY <1>2, <1>3 DEF BucketMetas
  <2> QED
      BY <2>1 DEF Yield, TypeOK
<1>9. copies' \in [Receivers -> Seq(Copies)]
  <2>1. copies \in [Receivers -> Seq(Copies)] /\ copies' = [copies EXCEPT ![r] = Append(@, c)]
      BY DEF Yield, TypeOK
  <2> HIDE DEF c
  <2> QED
      BY <2>1, <1>7, AppendFacts
<1>10. imeta' \in [Receivers -> Seq(Entries)]
  <2>1. imeta \in [Receivers -> Seq(Entries)] /\ imeta' = [imeta EXCEPT ![r] = Append(@, i)]
      BY DEF Yield, TypeOK
  <2> HIDE DEF i
  <2> QED
      BY <2>1, <1>7, AppendFacts
<1>11. ioffset' \in [Receivers -> 0..BucketSize]
    BY <1>6 DEF Yield, TypeOK
<1> QED
    BY <1>1, <1>8, <1>9, <1>10, <1>11 DEF Yield, TypeOK, senderVars, workerVars

LEMMA TypeCopyRuns == \A r \in Receivers : TypeOK /\ CopyRuns(r) => TypeOK'
<1> SUFFICES ASSUME NEW r \in Receivers, TypeOK, CopyRuns(r) PROVE TypeOK'
    OBVIOUS
<1> DEFINE c == Head(copies[r])
<1>1. size' = size /\ Entries' = Entries /\ BucketMetas' = BucketMetas
      /\ Buckets' = Buckets /\ Copies' = Copies
    BY TypesFixed DEF CopyRuns
<1>2. copies[r] \in Seq(Copies) /\ copies[r] # <<>>
    BY DEF CopyRuns, TypeOK
<1>3. c \in Copies /\ Tail(copies[r]) \in Seq(Copies)
    BY <1>2, TailFacts
<1>4. \A x \in Extent(c.weight, c.to) : c.from + (x - c.to) \in Cells
  <2>1. /\ c.weight \in Weights /\ size[c.weight] \in 1..BucketSize
        /\ c.from \in Cells /\ c.to \in Cells
        /\ c.from + size[c.weight] <= BucketSize
      BY <1>3 DEF Copies, TypeOK, Fits
  <2> HIDE DEF c
  <2> QED
      BY <2>1, ConstantsAssumption DEF Extent, Cells
<1>5. rbuf[r][c.buf] \in Buffers /\ ibuf[r] \in Buffers
  <2>1. c.buf \in {0, 1}
      BY <1>3 DEF Copies
  <2>2. rbuf \in [Receivers -> [{0, 1} -> Buffers]] /\ ibuf \in [Receivers -> Buffers]
      BY DEF TypeOK
  <2> HIDE DEF c
  <2> QED
      BY <2>1, <2>2
<1>6. ibuf' \in [Receivers -> Buffers]
  <2>1. [x \in Cells |-> IF x \in Extent(c.weight, c.to)
                         THEN rbuf[r][c.buf][c.from + (x - c.to)] ELSE ibuf[r][x]] \in Buffers
      BY <1>4, <1>5 DEF Buffers
  <2> QED
      BY <2>1 DEF CopyRuns, TypeOK
<1>7. copies' \in [Receivers -> Seq(Copies)]
    BY <1>3 DEF CopyRuns, TypeOK
<1> QED
    BY <1>1, <1>6, <1>7 DEF CopyRuns, TypeOK, senderVars, engineVars, workerVars

LEMMA TypeCloneBucket == \A r \in Receivers : TypeOK /\ CloneBucket(r) => TypeOK'
<1> SUFFICES ASSUME NEW r \in Receivers, TypeOK, CloneBucket(r) PROVE TypeOK'
    OBVIOUS
<1>1. size' = size /\ Entries' = Entries /\ BucketMetas' = BucketMetas
      /\ Buckets' = Buckets /\ Copies' = Copies
    BY TypesFixed DEF CloneBucket
<1>2. \A j \in DOMAIN imeta[r] : BytesOf(r, imeta[r][j]) \in Clones
  <2> SUFFICES ASSUME NEW j \in DOMAIN imeta[r] PROVE BytesOf(r, imeta[r][j]) \in Clones
      OBVIOUS
  <2>1. imeta[r] \in Seq(Entries) /\ ibuf[r] \in Buffers
      BY DEF TypeOK
  <2>2. imeta[r][j] \in Entries
      BY <2>1, SeqFacts
  <2>3. Extent(imeta[r][j].weight, imeta[r][j].offset) \subseteq Cells
    <3> DEFINE e == imeta[r][j]
    <3>1. /\ e.weight \in Weights /\ size[e.weight] \in 1..BucketSize /\ e.offset \in Cells
          /\ e.offset + size[e.weight] <= BucketSize
        BY <2>2 DEF Entries, Fits, TypeOK
    <3> HIDE DEF e
    <3>2. Extent(e.weight, e.offset) \subseteq Cells
        BY <3>1, ConstantsAssumption DEF Extent, Cells
    <3> QED
        BY <3>2 DEF e
  <2> QED
      BY <2>1, <2>2, <2>3 DEF BytesOf, Clones, Buffers, Entries, Weights
<1>3. [j \in DOMAIN imeta[r] |-> BytesOf(r, imeta[r][j])] \in Seq(Clones)
  <2>1. DOMAIN imeta[r] = 1..Len(imeta[r]) /\ Len(imeta[r]) \in Nat
      BY SeqFacts DEF TypeOK
  <2> QED
      BY <2>1, <1>2
<1>4. /\ clones' \in [Receivers -> Seq(Clones)]
      /\ work' \in [Receivers -> {"receiving", "loading", "loading last", "done"}]
      /\ chan' \in [Receivers -> {"connecting", "idle", "request", "reply", "closed"}]
    BY <1>3 DEF CloneBucket, TypeOK
<1> QED
    BY <1>1, <1>4, ZenonT(40) DEF CloneBucket, TypeOK, senderVars, engineVars, bucketVars

LEMMA TypeLoad == \A r \in Receivers : TypeOK /\ Load(r) => TypeOK'
<1> SUFFICES ASSUME NEW r \in Receivers, TypeOK, Load(r) PROVE TypeOK'
    OBVIOUS
<1>1. size' = size /\ Entries' = Entries /\ BucketMetas' = BucketMetas
      /\ Buckets' = Buckets /\ Copies' = Copies
    BY TypesFixed DEF Load
<1>2. loaded[r] \o clones[r] \in Seq(Clones)
  <2>1. loaded[r] \in Seq(Clones) /\ clones[r] \in Seq(Clones)
      BY DEF TypeOK
  <2> QED
      BY <2>1, ConcatFacts
<1>3. /\ loaded' \in [Receivers -> Seq(Clones)]
      /\ clones' \in [Receivers -> Seq(Clones)]
      /\ work' \in [Receivers -> {"receiving", "loading", "loading last", "done"}]
  <2>1. <<>> \in Seq(Clones)
      OBVIOUS
  <2> QED
      BY <1>2, <2>1 DEF Load, TypeOK
<1> QED
    BY <1>1, <1>3 DEF Load, TypeOK, senderVars, engineVars, bucketVars

(* The steps that only move the socket, or tell the server.                 *)
LEMMA TypeOthers ==
    /\ \A r \in Receivers : TypeOK /\ (Connect(r) \/ SendBucket(r) \/ Answered(r)) => TypeOK'
    /\ TypeOK /\ (Announce \/ UNCHANGED vars) => TypeOK'
<1>1. ASSUME NEW r \in Receivers, TypeOK, Connect(r) PROVE TypeOK'
  <2>1. size' = size /\ Entries' = Entries /\ BucketMetas' = BucketMetas
      /\ Buckets' = Buckets /\ Copies' = Copies
      BY <1>1, TypesFixed DEF Connect
  <2> QED
      BY <1>1, <2>1 DEF Connect, TypeOK, senderVars, bucketVars, workerVars
<1>2. ASSUME NEW r \in Receivers, TypeOK, SendBucket(r) PROVE TypeOK'
  <2>1. size' = size /\ Entries' = Entries /\ BucketMetas' = BucketMetas
      /\ Buckets' = Buckets /\ Copies' = Copies
      BY <1>2, TypesFixed DEF SendBucket
  <2> QED
      BY <1>2, <2>1 DEF SendBucket, TypeOK, senderVars, engineVars, bucketVars, workerVars
<1>3. ASSUME NEW r \in Receivers, TypeOK, Answered(r) PROVE TypeOK'
  <2>1. size' = size /\ Entries' = Entries /\ BucketMetas' = BucketMetas
      /\ Buckets' = Buckets /\ Copies' = Copies
      BY <1>3, TypesFixed DEF Answered
  <2>2. <<>> \in Seq(Entries) /\ 0 \in 0..BucketSize
      BY ConstantsAssumption
  <2>3. /\ imeta' \in [Receivers -> Seq(Entries)] /\ ioffset' \in [Receivers -> 0..BucketSize]
        /\ chan' \in [Receivers -> {"connecting", "idle", "request", "reply", "closed"}]
      BY <1>3, <2>2 DEF Answered, TypeOK
  <2> QED
      BY <1>3, <2>1, <2>3 DEF Answered, TypeOK, senderVars, engineVars, workerVars
<1>4. ASSUME TypeOK, Announce PROVE TypeOK'
  <2>1. size' = size /\ Entries' = Entries /\ BucketMetas' = BucketMetas
      /\ Buckets' = Buckets /\ Copies' = Copies
      BY <1>4, TypesFixed DEF Announce
  <2> QED
      BY <1>4, <2>1 DEF Announce, TypeOK, senderVars, engineVars, bucketVars, workerVars
<1>5. ASSUME TypeOK, UNCHANGED vars PROVE TypeOK'
  <2>1. size' = size /\ Entries' = Entries /\ BucketMetas' = BucketMetas
      /\ Buckets' = Buckets /\ Copies' = Copies
      BY <1>5, TypesFixed DEF vars
  <2> QED
      BY <1>5, <2>1 DEF vars, TypeOK, senderVars, engineVars, bucketVars, workerVars
<1> QED
    BY <1>1, <1>2, <1>3, <1>4, <1>5

-----------------------------------------------------------------------------
(* What the types say of one receiver, and of rank 0.                       *)
LEMMA ReceiverTypes ==
    ASSUME TypeOK, NEW r \in Receivers
    PROVE  /\ loaded[r] \in Seq(Clones) /\ clones[r] \in Seq(Clones)
           /\ imeta[r] \in Seq(Entries) /\ copies[r] \in Seq(Copies)
           /\ rmeta[r].entries \in Seq(Entries) /\ arrived[r].entries \in Seq(Entries)
           /\ wire[r] \in Seq(Buckets)
           /\ recv[r] \in {0, 1}
           /\ AfterLoaded(r) \in Nat /\ AfterClones(r) \in Nat /\ AfterShared(r) \in Nat
           /\ AfterEngine(r) \in Nat /\ AfterArrived(r) \in Nat
<1>1. /\ loaded[r] \in Seq(Clones) /\ clones[r] \in Seq(Clones)
      /\ imeta[r] \in Seq(Entries) /\ copies[r] \in Seq(Copies)
      /\ rmeta[r].entries \in Seq(Entries) /\ arrived[r].entries \in Seq(Entries)
      /\ wire[r] \in Seq(Buckets)
      /\ recv[r] \in {0, 1}
  <2>1. rmeta[r] \in BucketMetas /\ arrived[r] \in BucketMetas
      BY DEF TypeOK
  <2>2. rmeta[r].entries \in Seq(Entries) /\ arrived[r].entries \in Seq(Entries)
      BY <2>1 DEF BucketMetas
  <2>3. loaded[r] \in Seq(Clones) /\ clones[r] \in Seq(Clones)
      BY DEF TypeOK
  <2>4. imeta[r] \in Seq(Entries) /\ copies[r] \in Seq(Copies)
      BY DEF TypeOK
  <2>5. wire[r] \in Seq(Buckets)
      BY DEF TypeOK
  <2>6. recv[r] \in {0, 1}
      BY DEF TypeOK
  <2> QED
      BY <2>2, <2>3, <2>4, <2>5, <2>6
<1>2. /\ Len(loaded[r]) \in Nat /\ Len(clones[r]) \in Nat /\ Len(imeta[r]) \in Nat
      /\ Len(rmeta[r].entries) \in Nat /\ Len(arrived[r].entries) \in Nat
    BY <1>1, SeqFacts
<1>3. AfterLoaded(r) \in Nat
    BY <1>2 DEF AfterLoaded
<1>4. AfterClones(r) \in Nat
    BY <1>2, <1>3 DEF AfterClones
<1>5. AfterShared(r) \in Nat
  <2>1. CASE chan[r] = "reply"
      BY <1>4, <2>1 DEF AfterShared
  <2>2. CASE chan[r] # "reply"
    <3>1. AfterShared(r) = AfterClones(r) + Len(imeta[r])
        BY <2>2 DEF AfterShared
    <3> QED
        BY <1>2, <1>4, <3>1
  <2> QED
      BY <2>1, <2>2
<1>6. AfterEngine(r) \in Nat
    BY <1>2, <1>5, SMTT(20) DEF AfterEngine
<1>7. AfterArrived(r) \in Nat
  <2>1. CASE posted[r] = "complete"
    <3>1. AfterArrived(r) = AfterEngine(r) + Len(arrived[r].entries)
        BY <2>1 DEF AfterArrived
    <3> QED
        BY <1>2, <1>6, <3>1, SMTT(20)
  <2>2. CASE posted[r] # "complete"
      BY <1>6, <2>2 DEF AfterArrived
  <2> QED
      BY <2>1, <2>2
<1> QED
    BY <1>1, <1>3, <1>4, <1>5, <1>6, <1>7

LEMMA SenderTypes ==
    ASSUME TypeOK
    PROVE  /\ meta \in Seq(Entries) /\ op.meta.entries \in Seq(Entries)
           /\ next \in 1..(NumWeights + 1) /\ NumWeights \in Nat \ {0} /\ BucketSize \in Nat
           /\ offset \in 0..BucketSize /\ fill \in {0, 1} /\ op.buf \in {0, 1}
           /\ sbuf \in [{0, 1} -> Buffers] /\ op.todo \subseteq Receivers
           /\ op.meta.last \in BOOLEAN
           /\ MetaStart \in Int /\ OpStart \in Int
           /\ \A r \in Receivers : Sent(r) \in Int
<1>1. /\ meta \in Seq(Entries) /\ op.meta \in BucketMetas /\ op.meta.entries \in Seq(Entries)
      /\ next \in 1..(NumWeights + 1) /\ NumWeights \in Nat \ {0} /\ BucketSize \in Nat
      /\ offset \in 0..BucketSize /\ fill \in {0, 1} /\ op.buf \in {0, 1}
      /\ sbuf \in [{0, 1} -> Buffers] /\ op.todo \subseteq Receivers
      /\ op.meta.last \in BOOLEAN
    BY ConstantsAssumption DEF TypeOK, BucketMetas
<1>2. Len(meta) \in Nat /\ Len(op.meta.entries) \in Nat
    BY <1>1, SeqFacts
<1> QED
    BY <1>1, <1>2 DEF MetaStart, OpStart, Sent

(* An entry lies within its buffer, and has at least one byte.              *)
LEMMA EntryTypes ==
    ASSUME TypeOK, NEW e \in Entries
    PROVE  /\ e.weight \in Weights /\ size[e.weight] \in 1..BucketSize
           /\ e.offset \in Cells /\ e.offset + size[e.weight] <= BucketSize
           /\ e.offset \in Nat /\ e.weight \in 1..NumWeights
           /\ Extent(e.weight, e.offset) \subseteq Cells
           /\ e.offset \in Extent(e.weight, e.offset)
<1>1. /\ e.weight \in Weights /\ size[e.weight] \in 1..BucketSize /\ e.offset \in Cells
      /\ e.offset + size[e.weight] <= BucketSize
    BY DEF Entries, Fits, TypeOK
<1> QED
    BY <1>1, ConstantsAssumption DEF Cells, Weights, Extent

-----------------------------------------------------------------------------
(* Rank 0.                                                                  *)
LEMMA SenderPack == IInv /\ Pack => SenderInv'
<1> SUFFICES ASSUME IInv, Pack PROVE SenderInv'
    OBVIOUS
<1> DEFINE e == [weight |-> next, offset |-> offset]
<1>1. TypeOK /\ TypeOK' /\ PackInv /\ OpInv
    BY TypePack DEF IInv, SenderInv
<1>2. /\ next \in Weights /\ ~op.meta.last /\ Fits(next, offset)
      /\ meta' = Append(meta, e) /\ offset' = offset + size[next] /\ next' = next + 1
      /\ sbuf' = [sbuf EXCEPT ![fill] = Written(@, next, offset)]
      /\ size' = size /\ fill' = fill /\ op' = op
    BY DEF Pack
<1>3. /\ meta \in Seq(Entries) /\ op.meta.entries \in Seq(Entries)
      /\ next \in Nat /\ offset \in Nat /\ fill \in {0, 1} /\ op.buf \in {0, 1}
      /\ sbuf \in [{0, 1} -> Buffers] /\ size[next] \in Nat \ {0}
  <2>1. size[next] \in 1..BucketSize
      BY <1>1, <1>2 DEF TypeOK
  <2>2. next \in 1..(NumWeights + 1) /\ offset \in 0..BucketSize
      BY <1>1, SenderTypes
  <2> QED
      BY <1>1, <2>1, <2>2, SenderTypes, ConstantsAssumption
<1>4. e \in Entries
    BY <1>2, <1>3, ConstantsAssumption DEF Entries, Fits, Cells
<1>5. /\ Len(meta) \in Nat /\ DOMAIN meta = 1..Len(meta)
      /\ Len(meta') = Len(meta) + 1 /\ DOMAIN meta' = 1..(Len(meta) + 1)
      /\ meta'[Len(meta) + 1] = e /\ \A i \in 1..Len(meta) : meta'[i] = meta[i]
      /\ meta' # <<>> /\ Len(op.meta.entries) \in Nat
  <2> HIDE DEF e
  <2> QED
      BY <1>2, <1>3, <1>4, AppendFacts, SeqFacts, SMTT(20)
<1>6. MetaStart' = MetaStart /\ OpStart' = OpStart
    BY <1>2, <1>3, <1>5 DEF MetaStart, OpStart
<1>7. \A i \in 1..Len(meta) : meta[i].offset + size[meta[i].weight] <= offset /\ meta[i] \in Entries
    BY <1>1, <1>3, <1>5, SeqFacts DEF PackInv
<1>8. sbuf'[fill] = Written(sbuf[fill], next, offset) /\ sbuf'[1 - fill] = sbuf[1 - fill]
    BY <1>2, <1>3
<1>9. PackInv'
  <2>1. Run(meta, MetaStart)'
      BY <1>1, <1>2, <1>3, <1>5, <1>6 DEF PackInv, Run, MetaStart
  <2>2. Holds(meta, sbuf[fill])'
    <3> SUFFICES ASSUME NEW i \in 1..(Len(meta) + 1), NEW x \in Extent(meta'[i].weight, meta'[i].offset)
                 PROVE  sbuf'[fill][x] = meta'[i].weight
        BY <1>2, <1>5 DEF Holds, Extent
    <3>1. CASE i = Len(meta) + 1
      <4>1. x \in Extent(next, offset) /\ x \in Cells
          BY <3>1, <1>4, <1>5, <1>1, EntryTypes
      <4> QED
          BY <4>1, <3>1, <1>5, <1>8 DEF Written
    <3>2. CASE i \in 1..Len(meta)
      <4>1. meta'[i] = meta[i] /\ x \in Extent(meta[i].weight, meta[i].offset) /\ meta[i] \in Entries
          BY <3>2, <1>5, <1>7
      <4>2. x \in Cells /\ x < offset
        <5>1. meta[i].offset + size[meta[i].weight] <= offset /\ meta[i].offset \in Nat
              /\ size[meta[i].weight] \in Nat /\ Extent(meta[i].weight, meta[i].offset) \subseteq Cells
            BY <4>1, <3>2, <1>1, <1>7, EntryTypes, ConstantsAssumption
        <5> QED
            BY <4>1, <5>1, <1>3, SMTT(20) DEF Extent
      <4>3. x \notin Extent(next, offset)
          BY <4>2, <1>3, ConstantsAssumption DEF Extent, Cells
      <4>4. sbuf[fill][x] = meta[i].weight
          BY <4>1, <3>2, <1>1, <1>5 DEF PackInv, Holds
      <4> QED
          BY <4>1, <4>2, <4>3, <4>4, <1>8 DEF Written
    <3> QED
        BY <3>1, <3>2, <1>5
  <2>3. \A i \in DOMAIN meta' : meta'[i].offset + size'[meta'[i].weight] <= offset'
    <3> SUFFICES ASSUME NEW i \in 1..(Len(meta) + 1)
                 PROVE  meta'[i].offset + size[meta'[i].weight] <= offset + size[next]
        BY <1>2, <1>5
    <3>1. CASE i = Len(meta) + 1
        BY <3>1, <1>3, <1>5
    <3>2. CASE i \in 1..Len(meta)
      <4>1. meta[i].offset \in Nat /\ size[meta[i].weight] \in Nat
          BY <3>2, <1>1, <1>7, EntryTypes, ConstantsAssumption
      <4> QED
          BY <4>1, <3>2, <1>3, <1>5, <1>7, SMTT(20)
    <3> QED
        BY <3>1, <3>2, <1>5
  <2> QED
      BY <2>1, <2>2, <2>3, <1>5 DEF PackInv
<1>10. OpInv'
  <2>1. op.todo # {} => Holds(op.meta.entries, sbuf[op.buf])'
      BY <1>1, <1>2, <1>3, <1>8 DEF OpInv, Holds, Extent
  <2>2. Run(op.meta.entries, OpStart)'
      BY <1>1, <1>2, <1>6 DEF OpInv, Run
  <2> QED
      BY <2>1, <2>2, <1>1, <1>2 DEF OpInv
<1> QED
    BY <1>9, <1>10 DEF SenderInv

LEMMA SenderBroadcast == IInv /\ Broadcast => SenderInv' /\ meta # <<>>
<1> SUFFICES ASSUME IInv, Broadcast PROVE SenderInv' /\ meta # <<>>
    OBVIOUS
<1>1. TypeOK /\ PackInv /\ OpInv
    BY DEF IInv, SenderInv
<1>2. /\ ~op.meta.last /\ (next \in Weights => ~Fits(next, offset))
      /\ op' = [buf |-> fill, meta |-> [entries |-> meta, last |-> next \notin Weights], todo |-> Receivers]
      /\ fill' = 1 - fill /\ meta' = <<>> /\ offset' = 0
      /\ size' = size /\ next' = next /\ sbuf' = sbuf
    BY DEF Broadcast
<1>3. meta # <<>>
  <2>1. CASE next \in Weights
    <3>1. size[next] \in 1..BucketSize /\ offset \in 0..BucketSize
        BY <2>1, <1>1 DEF TypeOK
    <3>2. offset > 0
        BY <2>1, <3>1, <1>2, ConstantsAssumption DEF Fits
    <3> QED
        BY <3>2, <1>1 DEF PackInv
  <2>2. CASE next \notin Weights
      BY <2>2, <1>1, <1>2 DEF PackInv
  <2> QED
      BY <2>1, <2>2
<1>4. fill \in {0, 1} /\ next \in 1..(NumWeights + 1) /\ meta \in Seq(Entries) /\ Len(meta) \in Nat
      /\ NumWeights \in Nat
    BY <1>1, SenderTypes, SeqFacts
<1>5. OpStart' = MetaStart /\ MetaStart' = next
    BY <1>2, <1>4 DEF OpStart, MetaStart
<1>6. op'.meta.entries = meta /\ op'.buf = fill /\ (op'.meta.last <=> next \notin Weights)
    BY <1>2
<1>7. OpInv'
  <2>1. Holds(op.meta.entries, sbuf[op.buf])'
      BY <1>1, <1>2, <1>6 DEF PackInv, Holds, Extent
  <2>2. Run(op.meta.entries, OpStart)'
      BY <1>1, <1>5, <1>6 DEF PackInv, Run
  <2>3. op'.buf # fill'
      BY <1>2, <1>4, <1>6
  <2>4. op'.meta.last => next = NumWeights + 1
      BY <1>4, <1>6 DEF Weights
  <2> QED
      BY <2>1, <2>2, <2>3, <2>4, <1>2, <1>3, <1>6 DEF OpInv
<1>8. PackInv'
    BY <1>2, <1>6 DEF PackInv, Run, Holds, Weights
<1> QED
    BY <1>3, <1>7, <1>8 DEF SenderInv

LEMMA SenderTransmit == \A r \in Receivers : IInv /\ Transmit(r) => SenderInv'
<1> SUFFICES ASSUME NEW r \in Receivers, IInv, Transmit(r) PROVE SenderInv'
    OBVIOUS
<1>1. PackInv /\ OpInv /\ TypeOK
    BY DEF IInv, SenderInv
<1>2. /\ op'.buf = op.buf /\ op'.meta = op.meta /\ op'.todo = op.todo \ {r}
      /\ size' = size /\ next' = next /\ sbuf' = sbuf /\ fill' = fill /\ offset' = offset /\ meta' = meta
    BY <1>1 DEF Transmit, TypeOK
<1> QED
    BY <1>1, <1>2 DEF SenderInv, PackInv, OpInv, Run, Holds, Extent, MetaStart, OpStart, Weights

LEMMA SenderSame == SenderInv /\ UNCHANGED <<size, senderVars>> => SenderInv'
BY DEF SenderInv, PackInv, OpInv, Run, Holds, Extent, MetaStart, OpStart, Weights, senderVars

-----------------------------------------------------------------------------
(* A part of a receiver's invariant holds on when its variables stay.       *)
LEMMA PositionsStay ==
    ASSUME NEW r \in Receivers, loaded'[r] = loaded[r], clones'[r] = clones[r]
    PROVE  /\ AfterLoaded(r)' = AfterLoaded(r) /\ AfterClones(r)' = AfterClones(r)
           /\ chan'[r] = chan[r] /\ imeta'[r] = imeta[r] => AfterShared(r)' = AfterShared(r)
<1>1. AfterLoaded(r)' = AfterLoaded(r)
    BY DEF AfterLoaded
<1>2. AfterClones(r)' = AfterClones(r)
    BY <1>1 DEF AfterClones
<1>3. chan'[r] = chan[r] /\ imeta'[r] = imeta[r] => AfterShared(r)' = AfterShared(r)
    BY <1>2 DEF AfterShared
<1> QED
    BY <1>1, <1>2, <1>3

LEMMA EngineStays ==
    ASSUME NEW r \in Receivers, AfterShared(r)' = AfterShared(r), rmeta'[r] = rmeta[r]
    PROVE  /\ AfterEngine(r)' = AfterEngine(r)
           /\ posted'[r] = posted[r] /\ arrived'[r] = arrived[r] => AfterArrived(r)' = AfterArrived(r)
<1>1. AfterEngine(r)' = AfterEngine(r)
    BY DEF AfterEngine
<1>2. posted'[r] = posted[r] /\ arrived'[r] = arrived[r] => AfterArrived(r)' = AfterArrived(r)
    BY <1>1 DEF AfterArrived
<1> QED
    BY <1>1, <1>2

LEMMA WireFrame ==
    ASSUME NEW r \in Receivers, WireInv(r), size' = size, wire'[r] = wire[r],
           Sent(r)' = Sent(r), AfterArrived(r)' = AfterArrived(r)
    PROVE  WireInv(r)'
<1>1. \A k \in DOMAIN wire[r] : InPlace(wire[r], k, Sent(r))
    BY DEF WireInv
<1>2. ASSUME NEW k \in DOMAIN wire[r] PROVE InPlace(wire[r], k, Sent(r))'
  <2>1. Holds(wire[r][k].meta.entries, wire[r][k].data)
      BY <1>1 DEF InPlace
  <2>2. \A i \in DOMAIN wire[r][k].meta.entries :
           Extent(wire[r][k].meta.entries[i].weight, wire[r][k].meta.entries[i].offset)' =
           Extent(wire[r][k].meta.entries[i].weight, wire[r][k].meta.entries[i].offset)
      BY DEF Extent
  <2>3. Holds(wire[r][k].meta.entries, wire[r][k].data)'
      BY <2>1, <2>2 DEF Holds
  <2>4. First(wire[r][k])' = First(wire[r][k]) /\ First(wire[r][k + 1])' = First(wire[r][k + 1])
      BY DEF First
  <2> QED
      BY <1>1, <2>3, <2>4 DEF InPlace, Run
<1> QED
    BY <1>2 DEF WireInv, First

LEMMA EngineFrame ==
    ASSUME NEW r \in Receivers, EngineInv(r), size' = size,
           rmeta'[r] = rmeta[r], rbuf'[r] = rbuf[r], recv'[r] = recv[r],
           posted'[r] = posted[r], arrived'[r] = arrived[r],
           chan'[r] = "connecting" => chan[r] = "connecting",
           AfterShared(r)' = AfterShared(r)
    PROVE  EngineInv(r)'
BY EngineStays DEF EngineInv, Run, Holds, Extent

LEMMA SharedFrame ==
    ASSUME NEW r \in Receivers, SharedInv(r), size' = size, chan'[r] = chan[r],
           imeta'[r] = imeta[r], ioffset'[r] = ioffset[r], ibuf'[r] = ibuf[r],
           copies'[r] = copies[r], recv'[r] = recv[r],
           rbuf'[r][1 - recv[r]] = rbuf[r][1 - recv[r]],
           AfterClones(r)' = AfterClones(r)
    PROVE  SharedInv(r)'
BY DEF SharedInv, Run, Brings, Extent

LEMMA WorkerFrame ==
    ASSUME NEW r \in Receivers, WorkerInv(r),
           loaded'[r] = loaded[r], clones'[r] = clones[r], work'[r] = work[r]
    PROVE  WorkerInv(r)'
BY PositionsStay DEF WorkerInv, Own

(* Nothing of receiver r changes.                                           *)
Still(r) ==
    /\ size' = size
    /\ wire'[r] = wire[r] /\ rbuf'[r] = rbuf[r] /\ recv'[r] = recv[r] /\ posted'[r] = posted[r]
    /\ arrived'[r] = arrived[r] /\ rmeta'[r] = rmeta[r]
    /\ copies'[r] = copies[r] /\ ibuf'[r] = ibuf[r] /\ imeta'[r] = imeta[r] /\ ioffset'[r] = ioffset[r]
    /\ chan'[r] = chan[r]
    /\ clones'[r] = clones[r] /\ work'[r] = work[r] /\ loaded'[r] = loaded[r]

LEMMA StillHolds ==
    ASSUME NEW r \in Receivers, ReceiverInv(r), Still(r), Sent(r)' = Sent(r)
    PROVE  ReceiverInv(r)'
<1>1. /\ AfterLoaded(r)' = AfterLoaded(r) /\ AfterClones(r)' = AfterClones(r)
      /\ AfterShared(r)' = AfterShared(r)
    BY PositionsStay DEF Still
<1>2. AfterArrived(r)' = AfterArrived(r)
    BY <1>1, EngineStays DEF Still
<1>3. WireInv(r)'
    BY <1>2, WireFrame DEF Still, ReceiverInv
<1>4. EngineInv(r)'
    BY <1>1, EngineFrame DEF Still, ReceiverInv
<1>5. SharedInv(r)'
    BY <1>1, SharedFrame DEF Still, ReceiverInv
<1>6. WorkerInv(r)'
    BY WorkerFrame DEF Still, ReceiverInv
<1> QED
    BY <1>3, <1>4, <1>5, <1>6 DEF ReceiverInv

LEMMA SentStays == UNCHANGED senderVars => \A r \in Receivers : Sent(r)' = Sent(r)
BY DEF senderVars, Sent, OpStart, MetaStart

-----------------------------------------------------------------------------
(* The receivers, under the steps of rank 0 and of the network.             *)
LEMMA ReceiversPack == IInv /\ Pack => \A q \in Receivers : ReceiverInv(q)'
<1> SUFFICES ASSUME IInv, Pack, NEW q \in Receivers PROVE ReceiverInv(q)'
    OBVIOUS
<1>1. Still(q)
    BY DEF Pack, Still, engineVars, bucketVars, workerVars
<1>2. MetaStart' = MetaStart
  <2>1. meta \in Seq(Entries) /\ next \in Int /\ Len(meta) \in Nat
      BY SenderTypes, SeqFacts DEF IInv
  <2>2. Len(meta') = Len(meta) + 1 /\ next' = next + 1
      BY <2>1 DEF Pack
  <2> QED
      BY <2>1, <2>2 DEF MetaStart
<1>3. Sent(q)' = Sent(q)
    BY <1>2 DEF Pack, Sent, OpStart
<1> QED
    BY <1>1, <1>3, StillHolds DEF IInv

LEMMA ReceiversBroadcast == IInv /\ Broadcast => \A q \in Receivers : ReceiverInv(q)'
<1> SUFFICES ASSUME IInv, Broadcast, NEW q \in Receivers PROVE ReceiverInv(q)'
    OBVIOUS
<1>1. Still(q)
    BY DEF Broadcast, Still, engineVars, bucketVars, workerVars
<1>2. Sent(q)' = Sent(q)
  <2>1. next \in Int /\ Len(meta) \in Nat
      BY SenderTypes, SeqFacts DEF IInv
  <2>2. /\ op.todo = {} /\ op'.todo = Receivers /\ op'.meta.entries = meta
        /\ meta' = <<>> /\ next' = next
      BY DEF Broadcast, PreviousComplete
  <2>3. Sent(q) = MetaStart /\ Sent(q)' = OpStart'
      BY <2>2 DEF Sent
  <2>4. OpStart' = next - Len(meta)
      BY <2>1, <2>2 DEF OpStart, MetaStart
  <2> QED
      BY <2>3, <2>4 DEF MetaStart
<1> QED
    BY <1>1, <1>2, StillHolds DEF IInv

LEMMA ReceiversTransmit ==
    \A r \in Receivers : IInv /\ Transmit(r) => \A q \in Receivers : ReceiverInv(q)'
<1> SUFFICES ASSUME NEW r \in Receivers, IInv, Transmit(r), NEW q \in Receivers
             PROVE  ReceiverInv(q)'
    OBVIOUS
<1> DEFINE b == [meta |-> op.meta, data |-> sbuf[op.buf]]
           s == op.meta.entries
           n == Len(wire[r])
<1>1. TypeOK /\ OpInv /\ ReceiverInv(r)
    BY DEF IInv, SenderInv
<1>2. /\ r \in op.todo /\ wire' = [wire EXCEPT ![r] = Append(@, b)]
      /\ op'.meta = op.meta /\ op'.todo = op.todo \ {r}
      /\ size' = size /\ next' = next /\ meta' = meta
    BY <1>1 DEF Transmit, TypeOK
<1>3. CASE q # r
  <2>1. Still(q)
      BY <1>2, <1>3 DEF Transmit, Still, TypeOK, IInv, engineVars, bucketVars, workerVars
  <2>2. Sent(q)' = Sent(q)
      BY <1>2, <1>3 DEF Sent, OpStart, MetaStart
  <2> QED
      BY <2>1, <2>2, StillHolds DEF IInv
<1>4. CASE q = r
  <2>1. Sent(r) = OpStart /\ Sent(r)' = MetaStart
      BY <1>2 DEF Sent, MetaStart
  <2>2. s \in Seq(Entries) /\ OpStart \in Int /\ MetaStart \in Int /\ Len(s) \in Nat /\ s # <<>>
      /\ DOMAIN s = 1..Len(s) /\ 1 \in DOMAIN s /\ s[1] \in Entries
      BY <1>1, <1>2, SenderTypes, SeqFacts DEF OpInv
  <2>3. s[1].weight = OpStart /\ OpStart + Len(s) = MetaStart
    <3>1. s[1].weight = OpStart + 1 - 1
        BY <1>1, <2>2 DEF OpInv, Run
    <3>2. OpStart = MetaStart - Len(s)
        BY DEF OpStart
    <3> QED
        BY <2>2, <3>1, <3>2
  <2>4. OpStart # NumWeights + 1
      BY <1>1, <2>2, <2>3, EntryTypes, ConstantsAssumption
  <2>5. /\ n \in Nat /\ DOMAIN wire[r] = 1..n /\ (wire[r] = <<>> <=> n = 0)
        /\ Len(wire'[r]) = n + 1 /\ DOMAIN wire'[r] = 1..(n + 1)
        /\ wire'[r][n + 1] = b /\ \A k \in 1..n : wire'[r][k] = wire[r][k]
    <3>1. wire[r] \in Seq(Buckets) /\ b \in Buckets /\ wire'[r] = Append(wire[r], b)
        BY <1>1, <1>2 DEF TypeOK, Buckets
    <3> HIDE DEF b
    <3> QED
        BY <3>1, AppendFacts, SeqFacts
  <2>6. AfterArrived(r)' = AfterArrived(r)
    <3>1. /\ loaded' = loaded /\ clones' = clones /\ chan' = chan /\ imeta' = imeta
          /\ rmeta' = rmeta /\ posted' = posted /\ arrived' = arrived
        BY DEF Transmit, engineVars, bucketVars, workerVars
    <3> QED
        BY <3>1, PositionsStay, EngineStays
  <2>7. b.meta.entries = s /\ b.data = sbuf[op.buf] /\ b.meta.last = op.meta.last
      OBVIOUS
  <2>8. wire'[r] # <<>> /\ First(wire'[r][1]) = AfterArrived(r)
    <3>1. CASE n = 0
        BY <3>1, <1>1, <2>1, <2>3, <2>5, <2>7 DEF ReceiverInv, WireInv, First
    <3>2. CASE n # 0
        BY <3>2, <1>1, <2>5 DEF ReceiverInv, WireInv
    <3>3. wire'[r] # <<>>
      <4>1. Len(<<>>) = 0
          OBVIOUS
      <4> QED
          BY <4>1, <2>5
    <3> QED
        BY <3>1, <3>2, <3>3
  <2>9. ASSUME NEW k \in 1..(n + 1)
        PROVE  InPlace(wire'[r], k, MetaStart)
    <3>1. CASE k = n + 1
      <4>1. Run(s, s[1].weight) /\ Holds(s, sbuf[op.buf])
          BY <1>1, <1>2, <2>3 DEF OpInv
      <4>2. op.meta.last => MetaStart = NumWeights + 1
        <5>1. op.meta.last => Len(meta) = 0 /\ next = NumWeights + 1
            BY <1>1 DEF OpInv
        <5> QED
            BY <5>1, ConstantsAssumption DEF MetaStart
      <4> QED
          BY <3>1, <4>1, <4>2, <2>2, <2>3, <2>5, <2>7 DEF InPlace, First
    <3>2. CASE k \in 1..n
      <4> DEFINE t == wire[r][k].meta.entries
      <4>1. /\ t # <<>> /\ Run(t, First(wire[r][k])) /\ Holds(t, wire[r][k].data)
            /\ First(wire[r][k]) + Len(t) = IF k = n THEN OpStart ELSE First(wire[r][k + 1])
            /\ ~wire[r][k].meta.last
          BY <3>2, <1>1, <2>1, <2>4, <2>5 DEF ReceiverInv, WireInv, InPlace
      <4>2. wire'[r][k] = wire[r][k]
          BY <3>2, <2>5
      <4>3. k # n + 1
          BY <3>2, <2>5
      <4>4. First(wire[r][k]) + Len(t) = First(wire'[r][k + 1])
        <5>1. CASE k = n
            BY <5>1, <4>1, <2>3, <2>5, <2>7 DEF First
        <5>2. CASE k # n
          <6>1. k + 1 \in 1..n
              BY <3>2, <5>2, <2>5
          <6> QED
              BY <5>2, <6>1, <4>1, <2>5
        <5> QED
            BY <5>1, <5>2
      <4> QED
          BY <4>1, <4>2, <4>3, <4>4, <2>5 DEF InPlace
    <3> QED
        BY <3>1, <3>2, <2>5
  <2>10. WireInv(r)'
    <3>1. ASSUME NEW k \in 1..(n + 1) PROVE InPlace(wire[r], k, Sent(r))'
      <4>1. InPlace(wire'[r], k, MetaStart)
          BY <2>9
      <4>2. Holds(wire[r][k].meta.entries, wire[r][k].data)'
          BY <4>1, <1>2 DEF InPlace, Holds, Extent
      <4>3. Run(wire[r][k].meta.entries, First(wire[r][k]))'
          BY <4>1 DEF InPlace, Run, First
      <4> QED
          BY <4>1, <4>2, <4>3, <2>1 DEF InPlace, First
    <3> QED
        BY <3>1, <2>5, <2>6, <2>8 DEF WireInv, First
  <2>11. EngineInv(r)' /\ SharedInv(r)' /\ WorkerInv(r)'
    <3>1. /\ rbuf' = rbuf /\ recv' = recv /\ posted' = posted /\ arrived' = arrived /\ rmeta' = rmeta
          /\ copies' = copies /\ ibuf' = ibuf /\ imeta' = imeta /\ ioffset' = ioffset /\ chan' = chan
          /\ clones' = clones /\ work' = work /\ loaded' = loaded
        BY DEF Transmit, engineVars, bucketVars, workerVars
    <3>2. AfterClones(r)' = AfterClones(r) /\ AfterShared(r)' = AfterShared(r)
        BY <3>1, PositionsStay
    <3> QED
        BY <3>1, <3>2, <1>1, <1>2, EngineFrame, SharedFrame, WorkerFrame DEF ReceiverInv
  <2> QED
      BY <1>4, <2>10, <2>11 DEF ReceiverInv
<1> QED
    BY <1>3, <1>4

LEMMA ReceiversArrive ==
    \A r \in Receivers : IInv /\ Arrive(r) => \A q \in Receivers : ReceiverInv(q)'
<1> SUFFICES ASSUME NEW r \in Receivers, IInv, Arrive(r), NEW q \in Receivers
             PROVE  ReceiverInv(q)'
    OBVIOUS
<1> DEFINE b == wire[r][1]
           n == Len(wire[r])
<1>1. TypeOK /\ ReceiverInv(r)
    BY DEF IInv
<1>2. /\ posted[r] = "posted" /\ wire[r] # <<>>
      /\ UNCHANGED <<size, senderVars, recv, rmeta, bucketVars, chan, workerVars, announced>>
    BY DEF Arrive
<1>3. Sent(q)' = Sent(q)
    BY <1>2, SentStays
<1>4. CASE q # r
  <2>1. Still(q)
      BY <1>1, <1>2, <1>4 DEF Arrive, Still, TypeOK, bucketVars, workerVars
  <2> QED
      BY <2>1, <1>3, StillHolds DEF IInv
<1>5. CASE q = r
  <2>1. /\ b \in Buckets /\ Head(wire[r]) = b /\ 1 \in DOMAIN wire[r]
        /\ n \in Nat \ {0} /\ DOMAIN wire[r] = 1..n
        /\ Len(wire'[r]) = n - 1 /\ DOMAIN wire'[r] = 1..(n - 1)
        /\ \A k \in 1..(n - 1) : wire'[r][k] = wire[r][k + 1]
        /\ (wire'[r] = <<>> => n = 1) /\ wire'[r] \in Seq(Buckets)
    <3>1. wire[r] \in Seq(Buckets) /\ wire'[r] = Tail(wire[r])
        BY <1>1 DEF Arrive, TypeOK
    <3>2. wire'[r] = <<>> => Len(wire'[r]) = 0
        OBVIOUS
    <3>3. Head(wire[r]) \in Buckets /\ Head(wire[r]) = b
        BY <3>1, <1>2, TailFacts
    <3> QED
        BY <3>1, <3>2, <3>3, <1>2, TailFacts, SeqFacts
  <2>2. /\ rbuf'[r] = [rbuf[r] EXCEPT ![recv[r]] = b.data]
        /\ arrived'[r] = b.meta /\ posted'[r] = "complete"
      BY <1>1, <2>1 DEF Arrive, TypeOK
  <2>3. recv[r] \in {0, 1} /\ rbuf[r] \in [{0, 1} -> Buffers]
      BY <1>1 DEF TypeOK
  <2>4. rbuf'[r][recv[r]] = b.data /\ rbuf'[r][1 - recv[r]] = rbuf[r][1 - recv[r]]
      BY <2>2, <2>3
  <2>5. /\ AfterClones(r)' = AfterClones(r) /\ AfterShared(r)' = AfterShared(r)
        /\ AfterEngine(r)' = AfterEngine(r)
      BY <1>2, PositionsStay, EngineStays DEF bucketVars, workerVars
  <2>6. AfterArrived(r) = AfterEngine(r) /\ AfterEngine(r) \in Nat
    <3>1. AfterEngine(r) \in Nat
        BY <1>1, ReceiverTypes
    <3> QED
        BY <3>1, <1>2 DEF AfterArrived
  <2>7. AfterArrived(r)' = AfterEngine(r) + Len(b.meta.entries)
      BY <2>2, <2>5 DEF AfterArrived
  <2>8. InPlace(wire[r], 1, Sent(r)) /\ First(b) = AfterEngine(r)
      BY <1>1, <1>2, <2>1, <2>6 DEF ReceiverInv, WireInv
  <2>9. AfterArrived(r)' = IF n = 1 THEN Sent(r) ELSE First(wire[r][2])
    <3>1. First(b) + Len(b.meta.entries) = IF 1 = n THEN Sent(r) ELSE First(wire[r][2])
        BY <2>8 DEF InPlace
    <3> QED
        BY <3>1, <2>7, <2>8
  <2>10. WireInv(r)'
    <3>1. (wire[r] = <<>> => AfterArrived(r) = Sent(r))'
        BY <2>1, <2>9, <1>3, <1>5
    <3>2. (wire[r] # <<>> => First(wire[r][1]) = AfterArrived(r))'
      <4>1. wire'[r] # <<>> => n # 1
        <5>1. ASSUME n = 1 PROVE wire'[r] = <<>>
          <6>1. wire'[r] \in Seq(Buckets) /\ Len(wire'[r]) = 0
              BY <5>1, <2>1
          <6> QED
              BY <6>1, SeqFacts
        <5> QED
            BY <5>1
      <4>2. n # 1 => wire'[r][1] = wire[r][2]
          BY <2>1
      <4> QED
          BY <4>1, <4>2, <2>9 DEF First
    <3>3. ASSUME NEW k \in 1..(n - 1) PROVE InPlace(wire[r], k, Sent(r))'
      <4>1. k + 1 \in 1..n /\ InPlace(wire[r], k + 1, Sent(r)) /\ wire'[r][k] = wire[r][k + 1]
          BY <1>1, <2>1 DEF ReceiverInv, WireInv
      <4>2. Holds(wire[r][k].meta.entries, wire[r][k].data)'
          BY <4>1, <1>2 DEF InPlace, Holds, Extent
      <4>3. Run(wire[r][k].meta.entries, First(wire[r][k]))'
          BY <4>1 DEF InPlace, Run, First
      <4>4. First(wire[r][k + 1]) + Len(wire[r][k + 1].meta.entries) =
                IF k = n - 1 THEN Sent(r) ELSE First(wire'[r][k + 1])
        <5>1. CASE k = n - 1
            BY <5>1, <4>1, <2>1 DEF InPlace
        <5>2. CASE k # n - 1
          <6>1. k + 1 \in 1..(n - 1) /\ k + 1 # n
              BY <5>2, <4>1
          <6>2. wire'[r][k + 1] = wire[r][(k + 1) + 1]
              BY <6>1, <2>1
          <6> QED
              BY <5>2, <6>1, <6>2, <4>1 DEF InPlace
        <5> QED
            BY <5>1, <5>2
      <4>5. wire[r][k + 1].meta.last => k = n - 1 /\ Sent(r) = NumWeights + 1
          BY <4>1, <2>1 DEF InPlace
      <4> QED
          BY <4>1, <4>2, <4>3, <4>4, <4>5, <2>1, <1>3, <1>5 DEF InPlace, First
    <3> QED
        BY <3>1, <3>2, <3>3, <2>1 DEF WireInv
  <2>11. EngineInv(r)'
    <3>1. ~rmeta[r].last /\ chan[r] # "connecting"
        BY <1>1, <1>2 DEF ReceiverInv, EngineInv
    <3>2. Run(rmeta[r].entries, AfterShared(r))'
        BY <1>1, <1>2, <2>5 DEF ReceiverInv, EngineInv, Run
    <3>3. Holds(rmeta[r].entries, rbuf[r][1 - recv[r]])'
        BY <1>1, <1>2, <2>4 DEF ReceiverInv, EngineInv, Holds, Extent
    <3>4. Run(arrived[r].entries, AfterEngine(r))'
        BY <2>2, <2>5, <2>8 DEF InPlace, Run, First
    <3>5. Holds(arrived[r].entries, rbuf[r][recv[r]])'
      <4>1. arrived'[r].entries = b.meta.entries /\ rbuf'[r][recv'[r]] = b.data
          BY <1>2, <2>2, <2>4
      <4>2. Holds(b.meta.entries, b.data)
          BY <2>8 DEF InPlace
      <4> HIDE DEF b
      <4> QED
          BY <1>2, <4>1, <4>2 DEF Holds, Extent
    <3>6. arrived'[r].last => AfterArrived(r)' = NumWeights + 1
        BY <2>2, <2>8, <2>9 DEF InPlace
    <3> QED
        BY <3>1, <3>2, <3>3, <3>4, <3>5, <3>6, <1>2 DEF EngineInv
  <2>12. SharedInv(r)' /\ WorkerInv(r)'
      BY <1>1, <1>2, <2>4, <2>5, SharedFrame, WorkerFrame DEF ReceiverInv, bucketVars, workerVars
  <2> QED
      BY <1>5, <2>10, <2>11, <2>12 DEF ReceiverInv
<1> QED
    BY <1>4, <1>5

-----------------------------------------------------------------------------
(* The receivers, under their own steps.                                    *)
LEMMA OthersStill ==
    \A r \in Receivers :
        IInv /\ (Rollout(r) \/ Worker(r)) =>
            /\ SenderInv'
            /\ \A q \in Receivers : Sent(q)' = Sent(q)
            /\ \A q \in Receivers \ {r} : ReceiverInv(q)'
<1> SUFFICES ASSUME NEW r \in Receivers, IInv, Rollout(r) \/ Worker(r)
             PROVE  /\ SenderInv'
                    /\ \A q \in Receivers : Sent(q)' = Sent(q)
                    /\ \A q \in Receivers \ {r} : ReceiverInv(q)'
    OBVIOUS
<1>1. UNCHANGED <<size, senderVars>>
    BY DEF Rollout, Worker, Connect, NextBucket, Yield, CopyRuns, SendBucket, Answered, CloneBucket, Load
<1>2. SenderInv' /\ \A q \in Receivers : Sent(q)' = Sent(q)
    BY <1>1, SenderSame, SentStays DEF IInv
<1>3. ASSUME NEW q \in Receivers \ {r} PROVE Still(q)
  <2>1. TypeOK
      BY DEF IInv
  <2>2. CASE Rollout(r)
    <3>1. CASE Connect(r)
        BY <2>1, <3>1, <1>3 DEF Connect, Still, TypeOK, bucketVars, workerVars
    <3>2. CASE NextBucket(r)
        BY <2>1, <3>2, <1>3 DEF NextBucket, Still, TypeOK, bucketVars, workerVars
    <3>3. CASE Yield(r)
        BY <2>1, <3>3, <1>3 DEF Yield, Still, TypeOK, workerVars
    <3>4. CASE CopyRuns(r)
        BY <2>1, <3>4, <1>3 DEF CopyRuns, Still, TypeOK, engineVars, workerVars
    <3>5. CASE SendBucket(r)
        BY <2>1, <3>5, <1>3 DEF SendBucket, Still, TypeOK, engineVars, bucketVars, workerVars
    <3>6. CASE Answered(r)
        BY <2>1, <3>6, <1>3 DEF Answered, Still, TypeOK, engineVars, workerVars
    <3> QED
        BY <2>2, <3>1, <3>2, <3>3, <3>4, <3>5, <3>6 DEF Rollout
  <2>3. CASE Worker(r)
    <3>1. CASE CloneBucket(r)
        BY <2>1, <3>1, <1>3 DEF CloneBucket, Still, TypeOK, engineVars, bucketVars
    <3>2. CASE Load(r)
        BY <2>1, <3>2, <1>3 DEF Load, Still, TypeOK, engineVars, bucketVars
    <3> QED
        BY <2>3, <3>1, <3>2 DEF Worker
  <2> QED
      BY <2>2, <2>3
<1> QED
    BY <1>2, <1>3, StillHolds DEF IInv

LEMMA OwnConnect == \A r \in Receivers : IInv /\ Connect(r) => ReceiverInv(r)'
<1> SUFFICES ASSUME NEW r \in Receivers, IInv, Connect(r) PROVE ReceiverInv(r)'
    OBVIOUS
<1>1. TypeOK /\ ReceiverInv(r)
    BY DEF IInv
<1>2. /\ chan[r] = "connecting" /\ chan'[r] = "idle" /\ posted'[r] = "posted"
      /\ UNCHANGED <<size, wire, rbuf, recv, arrived, rmeta, bucketVars, workerVars>>
    BY <1>1 DEF Connect, TypeOK
<1>3. posted[r] = "none" /\ ~rmeta[r].last /\ Sent(r)' = Sent(r)
    BY <1>1, <1>2, OthersStill DEF ReceiverInv, EngineInv, Rollout
<1>4. AfterClones(r)' = AfterClones(r)
    BY <1>2, PositionsStay DEF workerVars
<1>5. AfterShared(r)' = AfterShared(r)
    BY <1>2, <1>4 DEF AfterShared, bucketVars
<1>6. AfterEngine(r)' = AfterEngine(r)
    BY <1>2, <1>5, EngineStays
<1>7. AfterArrived(r)' = AfterArrived(r)
    BY <1>2, <1>3, <1>6 DEF AfterArrived
<1>8. WireInv(r)'
    BY <1>1, <1>2, <1>3, <1>7, WireFrame DEF ReceiverInv
<1>9. EngineInv(r)'
    BY <1>1, <1>2, <1>3, <1>5 DEF ReceiverInv, EngineInv, Run, Holds, Extent
<1>10. SharedInv(r)'
    BY <1>1, <1>2, <1>4 DEF ReceiverInv, SharedInv, Run, Brings, Extent, bucketVars
<1>11. WorkerInv(r)'
    BY <1>1, <1>2, WorkerFrame DEF ReceiverInv, workerVars
<1> QED
    BY <1>8, <1>9, <1>10, <1>11 DEF ReceiverInv

LEMMA OwnNextBucket == \A r \in Receivers : IInv /\ NextBucket(r) => ReceiverInv(r)'
<1> SUFFICES ASSUME NEW r \in Receivers, IInv, NextBucket(r) PROVE ReceiverInv(r)'
    OBVIOUS
<1>1. TypeOK /\ ReceiverInv(r)
    BY DEF IInv
<1>2. /\ chan[r] = "idle" /\ rmeta[r].entries = <<>> /\ posted[r] = "complete" /\ copies[r] = <<>>
      /\ recv'[r] = 1 - recv[r] /\ rmeta'[r] = arrived[r]
      /\ posted'[r] = IF arrived[r].last THEN "none" ELSE "posted"
      /\ UNCHANGED <<size, wire, rbuf, arrived, bucketVars, chan, workerVars>>
    BY <1>1 DEF NextBucket, Synchronized, TypeOK
<1>3. Sent(r)' = Sent(r)
    BY OthersStill DEF Rollout
<1>4. AfterClones(r)' = AfterClones(r) /\ AfterShared(r)' = AfterShared(r)
    BY <1>2, PositionsStay DEF bucketVars, workerVars
<1>5. /\ AfterShared(r) \in Nat /\ AfterEngine(r) \in Nat /\ recv[r] \in {0, 1}
      /\ Len(arrived[r].entries) \in Nat
    BY <1>1, ReceiverTypes, SeqFacts
<1>6. AfterEngine(r) = AfterShared(r)
    BY <1>2, <1>5 DEF AfterEngine
<1>7. AfterArrived(r) = AfterEngine(r) + Len(arrived[r].entries)
    BY <1>2 DEF AfterArrived
<1>8. AfterEngine(r)' = AfterArrived(r)
    BY <1>2, <1>4, <1>6, <1>7 DEF AfterEngine
<1>9. AfterArrived(r)' = AfterArrived(r)
  <2>1. posted'[r] # "complete"
      BY <1>2
  <2>2. AfterArrived(r) \in Nat
      BY <1>1, ReceiverTypes
  <2> QED
      BY <1>8, <2>1, <2>2 DEF AfterArrived
<1>10. WireInv(r)'
    BY <1>1, <1>2, <1>3, <1>9, WireFrame DEF ReceiverInv
<1>11. EngineInv(r)'
  <2>1. Run(arrived[r].entries, AfterEngine(r)) /\ Holds(arrived[r].entries, rbuf[r][recv[r]])
        /\ (arrived[r].last => AfterArrived(r) = NumWeights + 1)
      BY <1>1, <1>2 DEF ReceiverInv, EngineInv
  <2>2. Run(rmeta[r].entries, AfterShared(r))'
      BY <2>1, <1>2, <1>4, <1>6 DEF Run
  <2>3. Holds(rmeta[r].entries, rbuf[r][1 - recv[r]])'
    <3>1. 1 - recv'[r] = recv[r] /\ rbuf' = rbuf
        BY <1>2, <1>5
    <3> QED
        BY <2>1, <3>1, <1>2 DEF Holds, Extent
  <2> QED
      BY <2>1, <2>2, <2>3, <1>2, <1>8 DEF EngineInv
<1>12. SharedInv(r)'
  <2>1. copies'[r] = <<>> /\ imeta' = imeta /\ ioffset' = ioffset /\ ibuf' = ibuf
      BY <1>2 DEF bucketVars
  <2> QED
      BY <1>1, <1>2, <1>4, <2>1 DEF ReceiverInv, SharedInv, Run, Brings, Extent
<1>13. WorkerInv(r)'
    BY <1>1, <1>2, WorkerFrame DEF ReceiverInv, workerVars
<1> QED
    BY <1>10, <1>11, <1>12, <1>13 DEF ReceiverInv

LEMMA OwnYield == \A r \in Receivers : IInv /\ Yield(r) => ReceiverInv(r)'
<1> SUFFICES ASSUME NEW r \in Receivers, IInv, Yield(r) PROVE ReceiverInv(r)'
    OBVIOUS
<1> DEFINE s == rmeta[r].entries
           e == s[1]
           c == [weight |-> e.weight, buf |-> 1 - recv[r], from |-> e.offset, to |-> ioffset[r]]
           i == [weight |-> e.weight, offset |-> ioffset[r]]
           m == Len(imeta[r])
           n == Len(copies[r])
<1>1. TypeOK /\ ReceiverInv(r)
    BY DEF IInv
<1>2. /\ s \in Seq(Entries) /\ s # <<>> /\ Head(s) = e /\ e \in Entries /\ Len(s) \in Nat \ {0}
      /\ DOMAIN s = 1..Len(s) /\ Len(Tail(s)) = Len(s) - 1 /\ DOMAIN Tail(s) = 1..(Len(s) - 1)
      /\ \A k \in 1..(Len(s) - 1) : Tail(s)[k] = s[k + 1]
  <2>1. s \in Seq(Entries) /\ s # <<>>
      BY <1>1, ReceiverTypes DEF Yield
  <2> HIDE DEF s
  <2> QED
      BY <2>1, TailFacts, SeqFacts
<1>3. /\ chan[r] = "idle" /\ Fits(e.weight, ioffset[r])
      /\ rmeta'[r].entries = Tail(s) /\ rmeta'[r].last = rmeta[r].last
      /\ copies'[r] = Append(copies[r], c) /\ imeta'[r] = Append(imeta[r], i)
      /\ ioffset'[r] = ioffset[r] + size[e.weight]
      /\ UNCHANGED <<size, wire, rbuf, recv, posted, arrived, ibuf, chan, workerVars>>
  <2>1. rmeta[r] \in BucketMetas
      BY <1>1 DEF TypeOK
  <2>2. Head(s) = e
      BY <1>2
  <2>3. rmeta'[r] = [rmeta[r] EXCEPT !.entries = Tail(@)]
      BY <1>1 DEF Yield, TypeOK
  <2>4. rmeta'[r].entries = Tail(s) /\ rmeta'[r].last = rmeta[r].last
      BY <2>1, <2>3 DEF BucketMetas
  <2>5. /\ copies'[r] = Append(copies[r], c) /\ imeta'[r] = Append(imeta[r], i)
        /\ ioffset'[r] = ioffset[r] + size[e.weight] /\ Fits(e.weight, ioffset[r])
      BY <1>1, <2>2 DEF Yield, TypeOK
  <2> QED
      BY <2>4, <2>5 DEF Yield
<1>4. /\ m \in Nat /\ DOMAIN imeta[r] = 1..m /\ Len(imeta'[r]) = m + 1 /\ DOMAIN imeta'[r] = 1..(m + 1)
      /\ imeta'[r][m + 1] = i /\ \A k \in 1..m : imeta'[r][k] = imeta[r][k] /\ imeta[r][k] \in Entries
  <2>1. imeta[r] \in Seq(Entries) /\ i \in Entries
    <3>1. /\ ioffset[r] \in Nat /\ size[e.weight] \in 1..BucketSize /\ ioffset[r] + size[e.weight] <= BucketSize
          /\ e.weight \in Weights
      <4>1. ioffset[r] \in 0..BucketSize
          BY <1>1 DEF TypeOK
      <4>2. size[e.weight] \in 1..BucketSize /\ e.weight \in Weights
          BY <1>1, <1>2, EntryTypes
      <4> QED
          BY <4>1, <4>2, <1>3, ConstantsAssumption DEF Fits
    <3>2. ioffset[r] \in Cells
        BY <3>1, ConstantsAssumption DEF Cells
    <3> QED
        BY <3>1, <3>2, <1>1, <1>3, ReceiverTypes DEF Entries
  <2> HIDE DEF i
  <2> QED
      BY <2>1, <1>3, AppendFacts, SeqFacts
<1>5. /\ n \in Nat /\ DOMAIN copies[r] = 1..n /\ DOMAIN copies'[r] = 1..(n + 1)
      /\ copies'[r][n + 1] = c /\ \A k \in 1..n : copies'[r][k] = copies[r][k]
  <2>1. copies[r] \in Seq(Copies) /\ copies'[r] \in Seq(Copies)
      BY <1>1, TypeYield, TypesFixed, <1>3, ReceiverTypes DEF TypeOK
  <2> HIDE DEF c
  <2>2. n \in Nat /\ DOMAIN copies[r] = 1..n
      BY <2>1, SeqFacts
  <2> QED
      BY <2>1, <2>2, <1>3
<1>6. Sent(r)' = Sent(r) /\ AfterClones(r)' = AfterClones(r)
    BY <1>3, OthersStill, PositionsStay DEF Rollout, workerVars
<1>7. AfterClones(r) \in Nat /\ AfterShared(r) = AfterClones(r) + m /\ AfterEngine(r) = AfterShared(r) + Len(s)
      /\ AfterEngine(r) \in Nat /\ AfterShared(r) \in Nat
    BY <1>1, <1>3, ReceiverTypes DEF AfterShared, AfterEngine
<1>8. AfterShared(r)' = AfterShared(r) + 1
  <2>1. AfterShared(r)' = AfterClones(r)' + Len(imeta'[r])
      BY <1>3 DEF AfterShared
  <2> QED
      BY <2>1, <1>4, <1>6, <1>7
<1>9. AfterEngine(r)' = AfterEngine(r)
  <2>1. AfterEngine(r)' = AfterShared(r)' + Len(Tail(s))
      BY <1>3 DEF AfterEngine
  <2>2. Len(Tail(s)) = Len(s) - 1 /\ Len(s) \in Nat
      BY <1>2
  <2>3. AfterEngine(r)' = (AfterShared(r) + 1) + (Len(s) - 1)
      BY <2>1, <2>2, <1>8
  <2>4. (AfterShared(r) + 1) + (Len(s) - 1) = AfterShared(r) + Len(s)
    <3>1. \A a, l \in Nat : (a + 1) + (l - 1) = a + l
        OBVIOUS
    <3> QED
        BY <3>1, <2>2, <1>7
  <2> QED
      BY <2>3, <2>4, <1>7
<1>10. AfterArrived(r)' = AfterArrived(r)
    BY <1>3, <1>9 DEF AfterArrived
<1>11. WireInv(r)'
    BY <1>1, <1>3, <1>6, <1>10, WireFrame DEF ReceiverInv
<1>12. EngineInv(r)'
  <2>1. Run(s, AfterShared(r)) /\ Holds(s, rbuf[r][1 - recv[r]])
      BY <1>1 DEF ReceiverInv, EngineInv
  <2>2. Run(rmeta[r].entries, AfterShared(r))'
    <3>1. \A k \in 1..(Len(s) - 1) : s[k + 1].weight = AfterShared(r) + (k + 1) - 1
        BY <2>1, <1>2 DEF Run
    <3>2. Run(Tail(s), AfterShared(r) + 1)
      <4> SUFFICES ASSUME NEW k \in 1..(Len(s) - 1)
                   PROVE  Tail(s)[k].weight = (AfterShared(r) + 1) + k - 1
          BY <1>2 DEF Run
      <4>1. Tail(s)[k] = s[k + 1] /\ s[k + 1].weight = AfterShared(r) + (k + 1) - 1
          BY <3>1, <1>2
      <4> QED
          BY <4>1, <1>2, <1>7
    <3> QED
        BY <3>2, <1>3, <1>8 DEF Run
  <2>3. Holds(rmeta[r].entries, rbuf[r][1 - recv[r]])'
    <3>1. Holds(Tail(s), rbuf[r][1 - recv[r]])
      <4> SUFFICES ASSUME NEW k \in 1..(Len(s) - 1), NEW x \in Extent(Tail(s)[k].weight, Tail(s)[k].offset)
                   PROVE  rbuf[r][1 - recv[r]][x] = Tail(s)[k].weight
          BY <1>2 DEF Holds
      <4>1. Tail(s)[k] = s[k + 1] /\ k + 1 \in DOMAIN s
          BY <1>2
      <4> QED
          BY <4>1, <2>1 DEF Holds
    <3> QED
        BY <3>1, <1>3 DEF Holds, Extent
  <2>4. /\ rmeta[r].last => AfterEngine(r) = NumWeights + 1 /\ posted[r] = "none"
        /\ posted[r] = "complete" =>
               /\ Run(arrived[r].entries, AfterEngine(r))
               /\ Holds(arrived[r].entries, rbuf[r][recv[r]])
               /\ arrived[r].last => AfterArrived(r) = NumWeights + 1
      BY <1>1 DEF ReceiverInv, EngineInv
  <2>5. posted'[r] = "complete" =>
            /\ Run(arrived[r].entries, AfterEngine(r))'
            /\ Holds(arrived[r].entries, rbuf[r][recv[r]])'
            /\ arrived'[r].last => AfterArrived(r)' = NumWeights + 1
      BY <2>4, <1>3, <1>9, <1>10 DEF Run, Holds, Extent
  <2> QED
      BY <2>2, <2>3, <2>4, <2>5, <1>3, <1>9 DEF EngineInv
<1>13. SharedInv(r)'
  <2>0. SharedInv(r)
      BY <1>1 DEF ReceiverInv
  <2>1. chan'[r] = "idle"
      BY <1>3
  <2>2. Run(imeta[r], AfterClones(r))'
    <3>1. Run(imeta[r], AfterClones(r)) /\ Run(s, AfterShared(r))
        BY <1>1, <1>3 DEF ReceiverInv, SharedInv, EngineInv
    <3>2. i.weight = AfterClones(r) + (m + 1) - 1
      <4>1. e.weight = AfterShared(r) + 1 - 1
          BY <3>1, <1>2 DEF Run
      <4> QED
          BY <4>1, <1>4, <1>7
    <3>3. Run(imeta'[r], AfterClones(r))
      <4> SUFFICES ASSUME NEW k \in 1..(m + 1) PROVE imeta'[r][k].weight = AfterClones(r) + k - 1
          BY <1>4 DEF Run
      <4>1. CASE k = m + 1
          BY <4>1, <3>2, <1>4
      <4>2. CASE k \in 1..m
          BY <4>2, <3>1, <1>4 DEF Run
      <4> QED
          BY <4>1, <4>2, <1>4
    <3> QED
        BY <3>3, <1>6 DEF Run
  <2>3. \A k \in 1..m : /\ imeta[r][k].offset + size[imeta[r][k].weight] <= ioffset[r]
                        /\ imeta[r][k].offset + size[imeta[r][k].weight] \in Nat
    <3>1. \A k \in 1..m : imeta[r][k].offset \in Nat /\ size[imeta[r][k].weight] \in Nat
        BY <1>1, <1>4, EntryTypes, ConstantsAssumption
    <3> QED
        BY <3>1, <2>0, <1>4 DEF SharedInv
  <2>4. /\ i.offset = ioffset[r] /\ i.weight = e.weight /\ ioffset[r] \in Nat /\ size[e.weight] \in Nat
        /\ ioffset'[r] \in Nat
    <3>1. ioffset[r] \in 0..BucketSize /\ size[e.weight] \in 1..BucketSize
        BY <1>1, <1>2, EntryTypes DEF TypeOK
    <3> QED
        BY <3>1, <1>3, ConstantsAssumption
  <2>5. \A k \in 1..(m + 1) : imeta'[r][k].offset + size[imeta'[r][k].weight] <= ioffset'[r]
    <3>1. ioffset'[r] = ioffset[r] + size[e.weight]
        BY <1>3
    <3>2. imeta'[r][m + 1].offset + size[imeta'[r][m + 1].weight] <= ioffset'[r]
        BY <3>1, <2>4, <1>4
    <3>3. ASSUME NEW k \in 1..m
          PROVE  imeta'[r][k].offset + size[imeta'[r][k].weight] <= ioffset'[r]
      <4>1. imeta'[r][k] = imeta[r][k]
          BY <1>4
      <4> QED
          BY <4>1, <3>1, <2>3, <2>4
    <3>4. m \in Nat
        BY <1>4
    <3> QED
        BY <3>2, <3>3, <3>4
  <2>6. \A k, l \in 1..(m + 1) :
            k < l => imeta'[r][k].offset + size[imeta'[r][k].weight] <= imeta'[r][l].offset
    <3> SUFFICES ASSUME NEW k \in 1..(m + 1), NEW l \in 1..(m + 1), k < l
                 PROVE  imeta'[r][k].offset + size[imeta'[r][k].weight] <= imeta'[r][l].offset
        OBVIOUS
    <3>1. k \in 1..m
        BY <1>4
    <3>2. CASE l = m + 1
        BY <3>1, <3>2, <2>3, <2>4, <1>4
    <3>3. CASE l # m + 1
      <4>1. l \in 1..m
          BY <3>3, <1>4
      <4> QED
          BY <4>1, <3>1, <2>0, <1>4 DEF SharedInv
    <3> QED
        BY <3>2, <3>3
  <2>7. ASSUME NEW j \in 1..(n + 1)
        PROVE  /\ copies'[r][j].buf = 1 - recv[r]
               /\ \A x \in Extent(copies'[r][j].weight, copies'[r][j].from) :
                      rbuf[r][1 - recv[r]][x] = copies'[r][j].weight
               /\ \E k \in 1..(m + 1) : Brings(copies'[r][j], imeta'[r][k])
    <3>1. CASE j = n + 1
      <4>1. \A x \in Extent(e.weight, e.offset) : rbuf[r][1 - recv[r]][x] = e.weight
        <5>1. 1 \in DOMAIN s /\ Holds(s, rbuf[r][1 - recv[r]])
            BY <1>1, <1>2 DEF ReceiverInv, EngineInv
        <5> QED
            BY <5>1 DEF Holds
      <4>2. Brings(c, imeta'[r][m + 1]) /\ m + 1 \in 1..(m + 1)
          BY <1>4 DEF Brings
      <4> QED
          BY <4>1, <4>2, <3>1, <1>5
    <3>2. CASE j \in 1..n
      <4>1. copies'[r][j] = copies[r][j]
          BY <3>2, <1>5
      <4>2. PICK k \in 1..m : Brings(copies[r][j], imeta[r][k])
          BY <3>2, <2>0, <1>4, <1>5 DEF SharedInv
      <4>3. Brings(copies'[r][j], imeta'[r][k]) /\ k \in 1..(m + 1)
          BY <4>1, <4>2, <1>4
      <4> QED
          BY <4>1, <4>3, <3>2, <2>0, <1>5, ZenonT(40) DEF SharedInv
    <3> QED
        BY <3>1, <3>2, <1>5
  <2>8. ASSUME NEW k \in 1..(m + 1)
        PROVE  \/ \E j \in 1..(n + 1) : Brings(copies'[r][j], imeta'[r][k])
               \/ \A x \in Extent(imeta'[r][k].weight, imeta'[r][k].offset) : ibuf[r][x] = imeta'[r][k].weight
    <3>1. CASE k = m + 1
      <4>1. Brings(copies'[r][n + 1], imeta'[r][k]) /\ n + 1 \in 1..(n + 1)
          BY <3>1, <1>4, <1>5 DEF Brings
      <4> QED
          BY <4>1
    <3>2. CASE k \in 1..m
      <4>1. \/ \E j \in 1..n : Brings(copies[r][j], imeta[r][k])
            \/ \A x \in Extent(imeta[r][k].weight, imeta[r][k].offset) : ibuf[r][x] = imeta[r][k].weight
          BY <3>2, <2>0, <1>4, <1>5 DEF SharedInv
      <4>2. imeta'[r][k] = imeta[r][k]
          BY <3>2, <1>4
      <4>3. ASSUME NEW j \in 1..n, Brings(copies[r][j], imeta[r][k])
            PROVE  j \in 1..(n + 1) /\ Brings(copies'[r][j], imeta'[r][k])
          BY <4>2, <4>3, <1>5
      <4> QED
          BY <4>1, <4>2, <4>3
    <3> QED
        BY <3>1, <3>2, <1>4
  <2>9. \A j \in DOMAIN copies'[r] :
            /\ copies'[r][j].buf = 1 - recv'[r]
            /\ \A x \in Extent(copies[r][j].weight, copies[r][j].from)' :
                   rbuf'[r][1 - recv'[r]][x] = copies'[r][j].weight
            /\ \E k \in DOMAIN imeta'[r] : Brings(copies[r][j], imeta[r][k])'
      BY <2>7, <1>3, <1>4, <1>5, ZenonT(40) DEF Extent, Brings
  <2>10. \A k \in DOMAIN imeta'[r] :
            \/ \E j \in DOMAIN copies'[r] : Brings(copies[r][j], imeta[r][k])'
            \/ \A x \in Extent(imeta[r][k].weight, imeta[r][k].offset)' : ibuf'[r][x] = imeta'[r][k].weight
      BY <2>8, <1>3, <1>4, <1>5 DEF Extent, Brings
  <2> QED
      BY <2>1, <2>2, <2>5, <2>6, <2>9, <2>10, <1>3, <1>4 DEF SharedInv
<1>14. WorkerInv(r)'
    BY <1>1, <1>3, WorkerFrame DEF ReceiverInv, workerVars
<1> QED
    BY <1>11, <1>12, <1>13, <1>14 DEF ReceiverInv

LEMMA OwnCopyRuns == \A r \in Receivers : IInv /\ CopyRuns(r) => ReceiverInv(r)'
<1> SUFFICES ASSUME NEW r \in Receivers, IInv, CopyRuns(r) PROVE ReceiverInv(r)'
    OBVIOUS
<1> DEFINE c == copies[r][1]
           n == Len(copies[r])
           Ends(e) == e.offset + size[e.weight]
<1>1. TypeOK /\ ReceiverInv(r) /\ SharedInv(r)
    BY DEF IInv, ReceiverInv
<1>2. /\ c \in Copies /\ Head(copies[r]) = c /\ n \in Nat \ {0}
      /\ DOMAIN copies[r] = 1..n /\ 1 \in DOMAIN copies[r] /\ copies'[r] = Tail(copies[r])
      /\ DOMAIN copies'[r] = 1..(n - 1) /\ \A j \in 1..(n - 1) : copies'[r][j] = copies[r][j + 1]
  <2>1. copies[r] \in Seq(Copies) /\ copies[r] # <<>> /\ copies'[r] = Tail(copies[r])
      BY <1>1 DEF CopyRuns, TypeOK
  <2>2. Head(copies[r]) \in Copies /\ Head(copies[r]) = c
      BY <2>1, TailFacts
  <2> QED
      BY <2>1, <2>2, TailFacts, SeqFacts
<1>3. UNCHANGED <<size, senderVars, wire, engineVars, imeta, ioffset, chan, workerVars>>
    BY DEF CopyRuns
<1>4. \A x \in Cells : ibuf'[r][x] = IF x \in Extent(c.weight, c.to)
                                     THEN rbuf[r][c.buf][c.from + (x - c.to)] ELSE ibuf[r][x]
    BY <1>1, <1>2 DEF CopyRuns, TypeOK
<1>5. /\ c.weight \in Weights /\ c.to \in Nat /\ c.from \in Nat /\ size[c.weight] \in Nat \ {0}
      /\ c.to + size[c.weight] <= BucketSize /\ BucketSize \in Nat
  <2>1. /\ c.weight \in Weights /\ c.to \in Cells /\ c.from \in Cells /\ c.to + size[c.weight] <= BucketSize
      BY <1>2 DEF Copies, Fits
  <2>2. size[c.weight] \in 1..BucketSize
      BY <1>1, <2>1 DEF TypeOK
  <2> QED
      BY <2>1, <2>2, ConstantsAssumption DEF Cells
<1>6. \A x \in Extent(c.weight, c.to) : x \in Cells /\ ibuf'[r][x] = c.weight
  <2> SUFFICES ASSUME NEW x \in Extent(c.weight, c.to) PROVE x \in Cells /\ ibuf'[r][x] = c.weight
      OBVIOUS
  <2>1. x \in Cells
      BY <1>5 DEF Extent, Cells
  <2>2. c.from + (x - c.to) \in Extent(c.weight, c.from)
      BY <1>5 DEF Extent
  <2>3. c.buf = 1 - recv[r] /\ \A y \in Extent(c.weight, c.from) : rbuf[r][1 - recv[r]][y] = c.weight
      BY <1>1, <1>2 DEF SharedInv
  <2> QED
      BY <2>1, <2>2, <2>3, <1>4
<1>7. PICK h \in DOMAIN imeta[r] : Brings(c, imeta[r][h])
    BY <1>1, <1>2 DEF SharedInv
<1>8. DOMAIN imeta[r] \subseteq Nat /\ \A k \in DOMAIN imeta[r] : imeta[r][k] \in Entries
    BY <1>1, ReceiverTypes, SeqFacts
<1>9. ASSUME NEW k \in DOMAIN imeta[r], k # h, NEW x \in Extent(imeta[r][k].weight, imeta[r][k].offset)
      PROVE  x \in Cells /\ x \notin Extent(c.weight, c.to)
  <2> DEFINE e == imeta[r][k]
  <2>1. /\ e.offset \in Nat /\ size[e.weight] \in Nat /\ x \in Cells
        /\ imeta[r][h].weight = c.weight /\ imeta[r][h].offset = c.to
      BY <1>1, <1>7, <1>8, EntryTypes, ConstantsAssumption DEF Brings
  <2>2. k < h \/ h < k
      BY <1>8, <1>9
  <2>3. k < h => e.offset + size[e.weight] <= c.to
      BY <1>1, <1>7, <2>1 DEF SharedInv
  <2>4. h < k => c.to + size[c.weight] <= e.offset
      BY <1>1, <1>7, <2>1 DEF SharedInv
  <2>5. x \in e.offset..(e.offset + size[e.weight] - 1)
      BY DEF Extent
  <2> HIDE DEF e
  <2>6. x \notin c.to..(c.to + size[c.weight] - 1)
      BY <2>1, <2>2, <2>3, <2>4, <2>5, <1>5
  <2> QED
      BY <2>1, <2>6 DEF Extent
<1>10. \A k \in DOMAIN imeta[r] :
           \/ \E j \in 1..(n - 1) : Brings(copies'[r][j], imeta[r][k])
           \/ \A x \in Extent(imeta[r][k].weight, imeta[r][k].offset) : ibuf'[r][x] = imeta[r][k].weight
  <2> SUFFICES ASSUME NEW k \in DOMAIN imeta[r]
               PROVE  \/ \E j \in 1..(n - 1) : Brings(copies'[r][j], imeta[r][k])
                      \/ \A x \in Extent(imeta[r][k].weight, imeta[r][k].offset) : ibuf'[r][x] = imeta[r][k].weight
      OBVIOUS
  <2>1. CASE Brings(c, imeta[r][k])
      BY <2>1, <1>6 DEF Brings
  <2>2. CASE ~Brings(c, imeta[r][k])
    <3>1. k # h
        BY <2>2, <1>7
    <3>2. CASE \E j \in DOMAIN copies[r] : Brings(copies[r][j], imeta[r][k])
      <4>1. PICK j \in 1..n : Brings(copies[r][j], imeta[r][k])
          BY <3>2, <1>2
      <4>2. j # 1
          BY <4>1, <2>2
      <4>3. j - 1 \in 1..(n - 1) /\ copies'[r][j - 1] = copies[r][j]
        <5>1. j - 1 \in 1..(n - 1) /\ (j - 1) + 1 = j
            BY <4>2, <1>2
        <5> QED
            BY <5>1, <1>2
      <4> QED
          BY <4>1, <4>3
    <3>3. CASE \A x \in Extent(imeta[r][k].weight, imeta[r][k].offset) : ibuf[r][x] = imeta[r][k].weight
        BY <3>1, <3>3, <1>4, <1>9
    <3> QED
        BY <3>2, <3>3, <1>1 DEF SharedInv
  <2> QED
      BY <2>1, <2>2
<1>11. /\ AfterClones(r)' = AfterClones(r) /\ AfterShared(r)' = AfterShared(r)
       /\ AfterArrived(r)' = AfterArrived(r) /\ Sent(r)' = Sent(r)
    BY <1>3, PositionsStay, EngineStays, SentStays DEF engineVars, workerVars
<1>12. SharedInv(r)'
  <2>1. chan[r] = "idle"
      BY <1>1, <1>2 DEF SharedInv
  <2>2. \A j \in 1..(n - 1) :
            /\ copies'[r][j].buf = 1 - recv[r]
            /\ \A x \in Extent(copies'[r][j].weight, copies'[r][j].from) :
                   rbuf[r][1 - recv[r]][x] = copies'[r][j].weight
            /\ \E i \in DOMAIN imeta[r] : Brings(copies'[r][j], imeta[r][i])
    <3> SUFFICES ASSUME NEW j \in 1..(n - 1)
                 PROVE  /\ copies[r][j + 1].buf = 1 - recv[r]
                        /\ \A x \in Extent(copies[r][j + 1].weight, copies[r][j + 1].from) :
                               rbuf[r][1 - recv[r]][x] = copies[r][j + 1].weight
                        /\ \E i \in DOMAIN imeta[r] : Brings(copies[r][j + 1], imeta[r][i])
        BY <1>2
    <3>1. j + 1 \in DOMAIN copies[r]
        BY <1>2
    <3> QED
        BY <3>1, <1>1 DEF SharedInv
  <2>3. \A j \in DOMAIN copies'[r] :
            /\ copies'[r][j].buf = 1 - recv'[r]
            /\ \A x \in Extent(copies[r][j].weight, copies[r][j].from)' :
                   rbuf'[r][1 - recv'[r]][x] = copies'[r][j].weight
            /\ \E i \in DOMAIN imeta'[r] : Brings(copies[r][j], imeta[r][i])'
      BY <2>2, <1>2, <1>3 DEF Extent, Brings, engineVars
  <2>4. \A k \in DOMAIN imeta'[r] :
            \/ \E j \in DOMAIN copies'[r] : Brings(copies[r][j], imeta[r][k])'
            \/ \A x \in Extent(imeta[r][k].weight, imeta[r][k].offset)' : ibuf'[r][x] = imeta'[r][k].weight
      BY <1>10, <1>2, <1>3 DEF Extent, Brings
  <2>5. /\ chan'[r] # "reply" => Run(imeta[r], AfterClones(r))'
        /\ chan'[r] # "idle" => copies'[r] = <<>>
        /\ \A i \in DOMAIN imeta'[r] : imeta'[r][i].offset + size'[imeta'[r][i].weight] <= ioffset'[r]
        /\ \A i, j \in DOMAIN imeta'[r] :
               i < j => imeta'[r][i].offset + size'[imeta'[r][i].weight] <= imeta'[r][j].offset
      BY <2>1, <1>1, <1>3, <1>11 DEF SharedInv, Run
  <2> QED
      BY <2>3, <2>4, <2>5 DEF SharedInv
<1>13. WireInv(r)'
    BY <1>1, <1>3, <1>11, WireFrame DEF ReceiverInv
<1>14. EngineInv(r)'
    BY <1>1, <1>3, <1>11, EngineFrame DEF ReceiverInv, engineVars
<1>15. WorkerInv(r)'
    BY <1>1, <1>3, WorkerFrame DEF ReceiverInv, workerVars
<1> QED
    BY <1>12, <1>13, <1>14, <1>15 DEF ReceiverInv

LEMMA OwnSendBucket == \A r \in Receivers : IInv /\ SendBucket(r) => ReceiverInv(r)'
<1> SUFFICES ASSUME NEW r \in Receivers, IInv, SendBucket(r) PROVE ReceiverInv(r)'
    OBVIOUS
<1>1. TypeOK /\ ReceiverInv(r)
    BY DEF IInv
<1>2. /\ chan[r] = "idle" /\ chan'[r] = "request" /\ copies[r] = <<>>
      /\ UNCHANGED <<size, senderVars, wire, engineVars, bucketVars, workerVars>>
    BY <1>1 DEF SendBucket, TypeOK
<1>3. AfterClones(r)' = AfterClones(r) /\ Sent(r)' = Sent(r)
    BY <1>2, PositionsStay, SentStays DEF workerVars
<1>4. AfterShared(r)' = AfterShared(r)
    BY <1>2, <1>3 DEF AfterShared, bucketVars
<1>5. AfterArrived(r)' = AfterArrived(r)
    BY <1>2, <1>4, EngineStays DEF engineVars
<1>6. SharedInv(r)'
    BY <1>1, <1>2, <1>3 DEF ReceiverInv, SharedInv, Run, Brings, Extent, bucketVars, engineVars
<1>7. WireInv(r)' /\ EngineInv(r)' /\ WorkerInv(r)'
    BY <1>1, <1>2, <1>3, <1>4, <1>5, WireFrame, EngineFrame, WorkerFrame DEF ReceiverInv, engineVars, workerVars
<1> QED
    BY <1>6, <1>7 DEF ReceiverInv

LEMMA OwnAnswered == \A r \in Receivers : IInv /\ Answered(r) => ReceiverInv(r)'
<1> SUFFICES ASSUME NEW r \in Receivers, IInv, Answered(r) PROVE ReceiverInv(r)'
    OBVIOUS
<1>1. TypeOK /\ ReceiverInv(r)
    BY DEF IInv
<1>2. /\ chan[r] = "reply" /\ chan'[r] \in {"idle", "closed"} /\ imeta'[r] = <<>>
      /\ UNCHANGED <<size, senderVars, wire, engineVars, copies, ibuf, workerVars>>
    BY <1>1 DEF Answered, TypeOK
<1>3. AfterClones(r)' = AfterClones(r) /\ Sent(r)' = Sent(r)
    BY <1>2, PositionsStay, SentStays DEF workerVars
<1>4. AfterShared(r)' = AfterShared(r)
  <2>1. AfterClones(r) \in Nat /\ AfterShared(r) = AfterClones(r) + 0
      BY <1>1, <1>2, ReceiverTypes DEF AfterShared
  <2>2. AfterShared(r)' = AfterClones(r)' + 0
      BY <1>2 DEF AfterShared
  <2> QED
      BY <2>1, <2>2, <1>3
<1>5. AfterArrived(r)' = AfterArrived(r)
    BY <1>2, <1>4, EngineStays DEF engineVars
<1>6. SharedInv(r)'
  <2>1. copies'[r] = <<>>
      BY <1>1, <1>2 DEF ReceiverInv, SharedInv
  <2> QED
      BY <2>1, <1>2 DEF SharedInv, Run
<1>7. WireInv(r)' /\ EngineInv(r)' /\ WorkerInv(r)'
    BY <1>1, <1>2, <1>3, <1>4, <1>5, WireFrame, EngineFrame, WorkerFrame DEF ReceiverInv, engineVars, workerVars
<1> QED
    BY <1>6, <1>7 DEF ReceiverInv

LEMMA OwnCloneBucket == \A r \in Receivers : IInv /\ CloneBucket(r) => ReceiverInv(r)'
<1> SUFFICES ASSUME NEW r \in Receivers, IInv, CloneBucket(r) PROVE ReceiverInv(r)'
    OBVIOUS
<1> DEFINE m == Len(imeta[r])
<1>1. TypeOK /\ ReceiverInv(r) /\ SharedInv(r) /\ WorkerInv(r) /\ EngineInv(r)
    BY DEF IInv, ReceiverInv
<1>2. /\ chan[r] = "request" /\ chan'[r] = "reply" /\ work[r] = "receiving"
      /\ work'[r] = IF Exhausted(r) THEN "loading last" ELSE "loading"
      /\ clones'[r] = [j \in DOMAIN imeta[r] |-> BytesOf(r, imeta[r][j])]
      /\ UNCHANGED <<size, senderVars, wire, engineVars, bucketVars, loaded>>
    BY <1>1 DEF CloneBucket, TypeOK
<1>3. /\ m \in Nat /\ DOMAIN imeta[r] = 1..m /\ \A j \in 1..m : imeta[r][j] \in Entries
      /\ Len(loaded[r]) \in Nat /\ AfterEngine(r) \in Nat
      /\ Len(clones'[r]) = m /\ DOMAIN clones'[r] = 1..m /\ Len(<<>>) = 0
  <2>1. m \in Nat /\ DOMAIN imeta[r] = 1..m /\ \A j \in 1..m : imeta[r][j] \in Entries
      BY <1>1, ReceiverTypes, SeqFacts
  <2>2. Len(loaded[r]) \in Nat /\ AfterEngine(r) \in Nat
      BY <1>1, ReceiverTypes, SeqFacts
  <2>3. clones'[r] \in Seq(Clones)
    <3>1. TypeOK'
        BY <1>1, TypeCloneBucket
    <3> QED
        BY <3>1 DEF TypeOK
  <2>4. Len(clones'[r]) \in Nat /\ DOMAIN clones'[r] = 1..Len(clones'[r])
      BY <2>3, SeqFacts
  <2>5. DOMAIN clones'[r] = 1..m
      BY <2>1, <1>2
  <2>6. \A a, b \in Nat : 1..a = 1..b => a = b
      OBVIOUS
  <2>7. Len(clones'[r]) = m
      BY <2>1, <2>4, <2>5, <2>6
  <2> QED
      BY <2>1, <2>2, <2>5, <2>7
<1>4. AfterClones(r) = Len(loaded[r]) + 1
  <2>1. clones[r] = <<>>
      BY <1>1, <1>2 DEF WorkerInv
  <2> QED
      BY <2>1, <1>3 DEF AfterClones, AfterLoaded
<1>5. AfterShared(r) = Len(loaded[r]) + 1 + m
    BY <1>2, <1>3, <1>4 DEF AfterShared
<1>6. AfterClones(r)' = Len(loaded[r]) + 1 + m
    BY <1>2, <1>3 DEF AfterClones, AfterLoaded
<1>7. AfterShared(r)' = AfterShared(r)
  <2>1. AfterShared(r)' = AfterClones(r)' + 0
      BY <1>2 DEF AfterShared
  <2>2. \A a, b \in Nat : a + 1 + b + 0 = a + 1 + b
      OBVIOUS
  <2> QED
      BY <2>1, <2>2, <1>3, <1>5, <1>6
<1>8. AfterArrived(r)' = AfterArrived(r) /\ Sent(r)' = Sent(r)
    BY <1>2, <1>7, EngineStays, SentStays DEF engineVars
<1>9. \A j \in 1..m : clones'[r][j] = Own(Len(loaded[r]) + j)
  <2> SUFFICES ASSUME NEW j \in 1..m PROVE clones'[r][j] = Own(Len(loaded[r]) + j)
      OBVIOUS
  <2> DEFINE e == imeta[r][j]
  <2>1. e.weight = Len(loaded[r]) + j
    <3>1. e.weight = AfterClones(r) + j - 1
        BY <1>1, <1>2, <1>3 DEF SharedInv, Run
    <3> QED
        BY <3>1, <1>3, <1>4
  <2>2. copies[r] = <<>>
      BY <1>1, <1>2 DEF SharedInv
  <2>3. \A x \in Extent(e.weight, e.offset) : ibuf[r][x] = e.weight
      BY <2>2, <1>1, <1>3 DEF SharedInv
  <2>4. e.offset \in Extent(e.weight, e.offset)
      BY <1>1, <1>3, EntryTypes
  <2>5. {ibuf[r][x] : x \in Extent(e.weight, e.offset)} = {e.weight}
      BY <2>3, <2>4
  <2>6. clones'[r][j] = BytesOf(r, e)
      BY <1>2, <1>3
  <2> QED
      BY <2>1, <2>5, <2>6 DEF BytesOf, Own
<1>10. WorkerInv(r)'
  <2>1. work'[r] = "loading last" => AfterClones(r)' = NumWeights + 1
    <3>1. SUFFICES ASSUME work'[r] = "loading last" PROVE AfterClones(r)' = NumWeights + 1
        OBVIOUS
    <3>2. rmeta[r].last /\ rmeta[r].entries = <<>>
        BY <3>1, <1>2 DEF Exhausted
    <3>3. AfterEngine(r) = NumWeights + 1 /\ AfterEngine(r) = AfterShared(r) + 0
        BY <3>2, <1>1, <1>3 DEF EngineInv, AfterEngine
    <3>4. \A a, b \in Nat : a + 1 + b + 0 = a + 1 + b
        OBVIOUS
    <3> QED
        BY <3>3, <3>4, <1>3, <1>5, <1>6
  <2>2. work'[r] \notin {"receiving", "done"}
      BY <1>2
  <2> QED
      BY <2>1, <2>2, <1>1, <1>2, <1>3, <1>9 DEF WorkerInv, Own
<1>11. SharedInv(r)'
    BY <1>1, <1>2 DEF SharedInv, Brings, Extent, bucketVars, engineVars
<1>12. WireInv(r)' /\ EngineInv(r)'
    BY <1>1, <1>2, <1>7, <1>8, WireFrame, EngineFrame DEF ReceiverInv, engineVars
<1> QED
    BY <1>10, <1>11, <1>12 DEF ReceiverInv

LEMMA OwnLoad == \A r \in Receivers : IInv /\ Load(r) => ReceiverInv(r)'
<1> SUFFICES ASSUME NEW r \in Receivers, IInv, Load(r) PROVE ReceiverInv(r)'
    OBVIOUS
<1> DEFINE l == Len(loaded[r])
           k == Len(clones[r])
<1>1. TypeOK /\ ReceiverInv(r) /\ SharedInv(r) /\ WorkerInv(r)
    BY DEF IInv, ReceiverInv
<1>2. /\ work[r] \in {"loading", "loading last"}
      /\ work'[r] = IF work[r] = "loading" THEN "receiving" ELSE "done"
      /\ loaded'[r] = loaded[r] \o clones[r] /\ clones'[r] = <<>>
      /\ UNCHANGED <<size, senderVars, wire, engineVars, bucketVars, chan>>
    BY <1>1 DEF Load, TypeOK
<1>3. /\ l \in Nat /\ k \in Nat /\ DOMAIN loaded[r] = 1..l /\ DOMAIN clones[r] = 1..k
      /\ Len(loaded'[r]) = l + k /\ DOMAIN loaded'[r] = 1..(l + k) /\ Len(<<>>) = 0
      /\ \A i \in 1..l : loaded'[r][i] = loaded[r][i]
      /\ \A i \in 1..k : loaded'[r][l + i] = clones[r][i]
  <2>1. loaded[r] \in Seq(Clones) /\ clones[r] \in Seq(Clones)
      BY <1>1, ReceiverTypes
  <2>2. l \in Nat /\ k \in Nat /\ DOMAIN loaded[r] = 1..l /\ DOMAIN clones[r] = 1..k
      BY <2>1, SeqFacts
  <2>3. /\ Len(loaded'[r]) = l + k /\ DOMAIN loaded'[r] = 1..(l + k)
        /\ \A i \in 1..l : loaded'[r][i] = loaded[r][i]
        /\ \A i \in 1..k : loaded'[r][l + i] = clones[r][i]
    <3> DEFINE s == loaded[r]
               c == clones[r]
    <3>1. loaded'[r] = s \o c /\ s \in Seq(Clones) /\ c \in Seq(Clones) /\ l = Len(s) /\ k = Len(c)
        BY <1>2, <2>1
    <3> HIDE DEF s, c, l, k
    <3>2. /\ Len(s \o c) = Len(s) + Len(c) /\ DOMAIN (s \o c) = 1..(Len(s) + Len(c))
          /\ \A i \in 1..Len(s) : (s \o c)[i] = s[i]
          /\ \A i \in 1..Len(c) : (s \o c)[Len(s) + i] = c[i]
        BY <3>1, ConcatFacts
    <3> QED
        BY <3>1, <3>2 DEF s, c
  <2>4. Len(<<>>) = 0
      OBVIOUS
  <2> QED
      BY <2>2, <2>3, <2>4
<1>4. AfterClones(r) = l + 1 + k
    BY DEF AfterClones, AfterLoaded
<1>5. AfterLoaded(r)' = AfterClones(r) /\ AfterClones(r)' = AfterClones(r)
  <2>1. AfterLoaded(r)' = (l + k) + 1
      BY <1>3 DEF AfterLoaded
  <2>2. AfterClones(r)' = AfterLoaded(r)' + 0
      BY <1>2, <1>3 DEF AfterClones
  <2>3. \A a, b \in Nat : (a + b) + 1 = a + 1 + b /\ (a + b) + 1 + 0 = (a + b) + 1
      OBVIOUS
  <2> QED
      BY <2>1, <2>2, <2>3, <1>3, <1>4
<1>6. AfterShared(r)' = AfterShared(r)
    BY <1>2, <1>5 DEF AfterShared, bucketVars
<1>7. AfterArrived(r)' = AfterArrived(r) /\ Sent(r)' = Sent(r)
    BY <1>2, <1>6, EngineStays, SentStays DEF engineVars
<1>8. WorkerInv(r)'
  <2>1. ASSUME NEW i \in 1..(l + k) PROVE loaded'[r][i] = Own(i)
    <3>1. CASE i \in 1..l
        BY <3>1, <1>1, <1>3 DEF WorkerInv
    <3>2. CASE i \notin 1..l
      <4>1. i - l \in 1..k /\ l + (i - l) = i
        <5>1. \A a, b \in Nat : \A c \in 1..(a + b) :
                  c \notin 1..a => c - a \in 1..b /\ a + (c - a) = c
            OBVIOUS
        <5> HIDE DEF l, k
        <5> QED
            BY <5>1, <3>2, <2>1, <1>3
      <4>2. clones[r][i - l] = Own(l + (i - l))
          BY <4>1, <1>1, <1>3 DEF WorkerInv
      <4> QED
          BY <4>1, <4>2, <1>3
    <3> QED
        BY <3>1, <3>2
  <2>2. work'[r] = "done" => AfterLoaded(r)' = NumWeights + 1
      BY <1>1, <1>2, <1>5 DEF WorkerInv
  <2>3. work'[r] # "loading last"
      BY <1>2
  <2>4. DOMAIN <<>> = {}
      OBVIOUS
  <2>5. DOMAIN clones'[r] = {}
      BY <2>4, <1>2
  <2> QED
      BY <2>1, <2>2, <2>3, <2>5, <1>2, <1>3 DEF WorkerInv, Own
<1>9. SharedInv(r)'
    BY <1>1, <1>2, <1>5, SharedFrame DEF bucketVars, engineVars
<1>10. WireInv(r)' /\ EngineInv(r)'
    BY <1>1, <1>2, <1>6, <1>7, WireFrame, EngineFrame DEF ReceiverInv, engineVars
<1> QED
    BY <1>8, <1>9, <1>10 DEF ReceiverInv

-----------------------------------------------------------------------------
(* The invariant is inductive.                                              *)
LEMMA Initially == Init => IInv
<1> SUFFICES ASSUME Init PROVE IInv
    OBVIOUS
<1> USE ConstantsAssumption
<1>1. <<>> \in Seq(Entries) /\ <<>> \in Seq(Buckets) /\ <<>> \in Seq(Copies) /\ <<>> \in Seq(Clones)
    OBVIOUS
<1>2. Blank \in Buffers /\ NoMeta \in BucketMetas
    BY <1>1 DEF Blank, Buffers, NoMeta, BucketMetas
<1>3. TypeOK
  <2>1. next \in 1..(NumWeights + 1) /\ offset \in 0..BucketSize
      BY DEF Init
  <2>2. /\ sbuf \in [{0, 1} -> Buffers] /\ rbuf \in [Receivers -> [{0, 1} -> Buffers]]
        /\ ibuf \in [Receivers -> Buffers]
      BY <1>2 DEF Init
  <2>3. /\ meta \in Seq(Entries) /\ wire \in [Receivers -> Seq(Buckets)]
        /\ copies \in [Receivers -> Seq(Copies)] /\ imeta \in [Receivers -> Seq(Entries)]
        /\ clones \in [Receivers -> Seq(Clones)] /\ loaded \in [Receivers -> Seq(Clones)]
      BY <1>1 DEF Init
  <2>4. /\ op \in [buf : {0, 1}, meta : BucketMetas, todo : SUBSET Receivers]
        /\ arrived \in [Receivers -> BucketMetas] /\ rmeta \in [Receivers -> BucketMetas]
      BY <1>2 DEF Init
  <2>5. recv \in [Receivers -> {0, 1}] /\ fill \in {0, 1} /\ announced \in BOOLEAN
      BY DEF Init
  <2>7. ioffset \in [Receivers -> 0..BucketSize]
      BY DEF Init
  <2>8. posted \in [Receivers -> {"none", "posted", "complete"}]
      BY DEF Init
  <2>9. chan \in [Receivers -> {"connecting", "idle", "request", "reply", "closed"}]
      BY DEF Init
  <2>10. work \in [Receivers -> {"receiving", "loading", "loading last", "done"}]
      BY DEF Init
  <2>6. size \in [Weights -> 1..BucketSize]
      BY DEF Init
  <2> QED
      BY <2>1, <2>2, <2>3, <2>4, <2>5, <2>6, <2>7, <2>8, <2>9, <2>10 DEF TypeOK
<1>4. SenderInv
    BY DEF Init, SenderInv, PackInv, OpInv, Run, Holds, NoMeta, Weights
<1>5. ASSUME NEW r \in Receivers PROVE ReceiverInv(r)
  <2>1. /\ loaded[r] = <<>> /\ clones[r] = <<>> /\ imeta[r] = <<>> /\ copies[r] = <<>> /\ wire[r] = <<>>
        /\ rmeta[r] = NoMeta /\ posted[r] = "none" /\ chan[r] = "connecting" /\ work[r] = "receiving"
        /\ next = 1 /\ meta = <<>> /\ op.todo = {}
      BY DEF Init
  <2>2. Len(<<>>) = 0 /\ NoMeta.entries = <<>> /\ ~NoMeta.last
      BY DEF NoMeta
  <2>3. AfterLoaded(r) = 1
      BY <2>1, <2>2 DEF AfterLoaded
  <2>4. AfterClones(r) = 1
      BY <2>1, <2>2, <2>3 DEF AfterClones
  <2>5. AfterShared(r) = 1
      BY <2>1, <2>2, <2>4 DEF AfterShared
  <2>6. AfterEngine(r) = 1
      BY <2>1, <2>2, <2>5 DEF AfterEngine
  <2>7. AfterArrived(r) = 1
      BY <2>1, <2>6 DEF AfterArrived
  <2>8. Sent(r) = 1
      BY <2>1, <2>2 DEF Sent, MetaStart
  <2>9. WireInv(r)
      BY <2>1, <2>7, <2>8 DEF WireInv
  <2>10. EngineInv(r)
      BY <2>1, <2>2 DEF EngineInv, Run, Holds
  <2>11. SharedInv(r)
      BY <2>1 DEF SharedInv, Run
  <2>12. WorkerInv(r)
      BY <2>1 DEF WorkerInv
  <2> QED
      BY <2>9, <2>10, <2>11, <2>12 DEF ReceiverInv
<1> QED
    BY <1>3, <1>4, <1>5 DEF IInv

LEMMA Inductive == IInv /\ [Next]_vars => IInv'
<1> SUFFICES ASSUME IInv, [Next]_vars PROVE IInv'
    OBVIOUS
<1>1. CASE Pack
    BY <1>1, TypePack, SenderPack, ReceiversPack DEF IInv
<1>2. CASE Broadcast
    BY <1>2, TypeBroadcast, SenderBroadcast, ReceiversBroadcast DEF IInv
<1>3. ASSUME NEW r \in Receivers, Network(r) PROVE IInv'
  <2>1. CASE Transmit(r)
      BY <2>1, TypeTransmit, SenderTransmit, ReceiversTransmit DEF IInv
  <2>2. CASE Arrive(r)
    <3>1. UNCHANGED <<size, senderVars>>
        BY <2>2 DEF Arrive
    <3> QED
        BY <2>2, <3>1, TypeArrive, SenderSame, ReceiversArrive DEF IInv
  <2> QED
      BY <1>3, <2>1, <2>2 DEF Network
<1>4. ASSUME NEW r \in Receivers, Rollout(r) \/ Worker(r) PROVE IInv'
  <2>1. TypeOK' /\ ReceiverInv(r)'
    <3>1. CASE Connect(r)
        BY <3>1, TypeOthers, OwnConnect DEF IInv
    <3>2. CASE NextBucket(r)
        BY <3>2, TypeNextBucket, OwnNextBucket DEF IInv
    <3>3. CASE Yield(r)
        BY <3>3, TypeYield, OwnYield DEF IInv
    <3>4. CASE CopyRuns(r)
        BY <3>4, TypeCopyRuns, OwnCopyRuns DEF IInv
    <3>5. CASE SendBucket(r)
        BY <3>5, TypeOthers, OwnSendBucket DEF IInv
    <3>6. CASE Answered(r)
        BY <3>6, TypeOthers, OwnAnswered DEF IInv
    <3>7. CASE CloneBucket(r)
        BY <3>7, TypeCloneBucket, OwnCloneBucket DEF IInv
    <3>8. CASE Load(r)
        BY <3>8, TypeLoad, OwnLoad DEF IInv
    <3> QED
        BY <1>4, <3>1, <3>2, <3>3, <3>4, <3>5, <3>6, <3>7, <3>8 DEF Rollout, Worker
  <2> QED
      BY <1>4, <2>1, OthersStill DEF IInv
<1>5. CASE Announce \/ UNCHANGED vars
  <2>1. UNCHANGED <<size, senderVars, wire, engineVars, bucketVars, chan, workerVars>>
      BY <1>5 DEF Announce, vars
  <2>2. TypeOK' /\ SenderInv'
      BY <1>5, <2>1, TypeOthers, SenderSame DEF IInv
  <2>3. ASSUME NEW q \in Receivers PROVE ReceiverInv(q)'
    <3>1. Still(q) /\ Sent(q)' = Sent(q)
        BY <2>1, SentStays DEF Still, engineVars, bucketVars, workerVars
    <3> QED
        BY <3>1, StillHolds DEF IInv
  <2> QED
      BY <2>2, <2>3 DEF IInv
<1> QED
    BY <1>1, <1>2, <1>3, <1>4, <1>5 DEF Next, Trainer, Finished

(* Every variable keeps its type: in particular no entry or copy reaches    *)
(* beyond its buffer.                                                       *)
THEOREM TypeCorrect == Spec => []TypeOK
<1>1. IInv => TypeOK
    BY DEF IInv
<1> QED
    BY <1>1, Initially, Inductive, PTL DEF Spec

(* No buffer has two users: send_weights waits for the broadcast before it  *)
(* packs into its buffer again, receive_weights synchronizes before it      *)
(* posts the buffer its tensors were views of, async_send_weights before    *)
(* it lets the inference worker read.                                       *)
THEOREM BuffersAlwaysApart == Spec => []BuffersApart
<1>1. ASSUME IInv PROVE BuffersApart
  <2>1. op.todo # {} => op.buf # fill
      BY <1>1 DEF IInv, SenderInv, OpInv
  <2>2. ASSUME NEW r \in Receivers
        PROVE  /\ \A i \in DOMAIN copies[r] : copies[r][i].buf # recv[r]
               /\ chan[r] = "request" => copies[r] = <<>>
    <3>1. SharedInv(r) /\ recv[r] \in {0, 1}
        BY <1>1 DEF IInv, ReceiverInv, TypeOK
    <3>2. 1 - recv[r] # recv[r]
        BY <3>1
    <3> QED
        BY <3>1, <3>2 DEF SharedInv
  <2> QED
      BY <2>1, <2>2 DEF BuffersApart
<1> QED
    BY <1>1, Initially, Inductive, PTL DEF Spec

-----------------------------------------------------------------------------
(* The transfer implements WeightStream: only Load and Announce change what *)
(* the stream shows.                                                        *)
LEMMA PrefixFacts ==
    ASSUME NEW n \in Nat, NEW k \in 0..n, NEW S, NEW f \in [1..n -> S],
           NEW s \in Seq(S), Len(s) = k, \A i \in 1..k : s[i] = f[i]
    PROVE  s = SubSeq(f, 1, k)
OBVIOUS

(* What a worker has loaded is the beginning of the stream.                 *)
LEMMA OwnIsPrefix ==
    ASSUME NEW s \in Seq(Clones), \A i \in DOMAIN s : s[i] = Own(i)
    PROVE  /\ Len(s) \in 0..NumWeights
           /\ s = SubSeq(Stream!Whole, 1, Len(s))
           /\ Len(s) = NumWeights => s = Stream!Whole
<1>1. Len(s) \in Nat /\ DOMAIN s = 1..Len(s) /\ \A i \in 1..Len(s) : s[i] \in Clones
    BY SeqFacts
<1>2. Len(s) \in 0..NumWeights
  <2>1. CASE Len(s) = 0
      BY <2>1, ConstantsAssumption
  <2>2. CASE Len(s) # 0
    <3>1. Len(s) \in 1..Len(s)
        BY <1>1, <2>2
    <3>2. Own(Len(s)) \in Clones
        BY <1>1, <3>1
    <3>3. Len(s) \in 1..NumWeights
        BY <3>2 DEF Own, Clones, Weights
    <3> QED
        BY <3>3
  <2> QED
      BY <2>1, <2>2
<1> DEFINE k == Len(s)
           S == [name : 1..NumWeights, bytes : SUBSET (0..NumWeights)]
<1>3. Stream!Whole \in [1..NumWeights -> S]
    BY DEF Stream!Whole
<1>4. s \in Seq(S)
    BY DEF Clones, Weights
<1>5. \A i \in 1..k : s[i] = Stream!Whole[i]
  <2>1. ASSUME NEW i \in 1..k PROVE s[i] = Stream!Whole[i]
    <3>1. i \in 1..NumWeights
        BY <1>1, <1>2, ConstantsAssumption
    <3>2. s[i] = Own(i)
        BY <1>1
    <3> QED
        BY <3>1, <3>2 DEF Stream!Whole, Own
  <2> QED
      BY <2>1
<1>6. s = SubSeq(Stream!Whole, 1, k)
  <2> DEFINE f == Stream!Whole
  <2> HIDE DEF S, f
  <2> QED
      BY <1>2, <1>3, <1>4, <1>5, PrefixFacts, ConstantsAssumption DEF f
<1>7. ASSUME k = NumWeights PROVE s = Stream!Whole
    BY <1>1, <1>3, <1>5, <1>7
<1> QED
    BY <1>2, <1>6, <1>7

LEMMA LoadRefines == \A r \in Receivers : IInv /\ Load(r) => Stream!Load(r)
<1> SUFFICES ASSUME NEW r \in Receivers, IInv, Load(r) PROVE Stream!Load(r)
    OBVIOUS
<1> DEFINE k == Len(loaded'[r])
<1>1. loaded \in [Receivers -> Seq(Clones)] /\ loaded' \in [Receivers -> Seq(Clones)]
    BY TypeLoad DEF IInv, TypeOK
<1>2. WorkerInv(r)'
    BY OwnLoad DEF ReceiverInv
<1>3. k \in 0..NumWeights /\ loaded'[r] = SubSeq(Stream!Whole, 1, k)
    BY <1>1, <1>2, OwnIsPrefix DEF WorkerInv, Own
<1>4. loaded' = [loaded EXCEPT ![r] = SubSeq(Stream!Whole, 1, k)]
    BY <1>1, <1>3 DEF Load
<1>5. Len(loaded[r]) \in Nat /\ Len(loaded[r]) <= k
  <2>1. loaded[r] \in Seq(Clones) /\ clones[r] \in Seq(Clones)
      BY ReceiverTypes DEF IInv
  <2>2. loaded'[r] = loaded[r] \o clones[r]
      BY <1>1 DEF Load
  <2>3. k = Len(loaded[r]) + Len(clones[r]) /\ Len(clones[r]) \in Nat /\ Len(loaded[r]) \in Nat
      BY <2>1, <2>2, ConcatFacts, SeqFacts
  <2>4. \A a, b \in Nat : a <= a + b
      OBVIOUS
  <2> QED
      BY <2>3, <2>4
<1>6. k \in Len(loaded[r]) .. NumWeights
    BY <1>3, <1>5
<1> QED
    BY <1>4, <1>6 DEF Load, Stream!Load

LEMMA AnnounceRefines == IInv /\ Announce => Stream!Announce
<1> SUFFICES ASSUME IInv, Announce PROVE Stream!Announce
    OBVIOUS
<1>1. ASSUME NEW r \in Receivers PROVE loaded[r] = Stream!Whole
  <2>1. loaded[r] \in Seq(Clones) /\ WorkerInv(r) /\ work[r] = "done"
      BY ReceiverTypes DEF IInv, ReceiverInv, Announce
  <2>2. Len(loaded[r]) + 1 = NumWeights + 1 /\ Len(loaded[r]) \in Nat
      BY <2>1, SeqFacts DEF WorkerInv, AfterLoaded
  <2>3. Len(loaded[r]) = NumWeights
      BY <2>2, ConstantsAssumption
  <2> QED
      BY <2>1, <2>3, OwnIsPrefix DEF WorkerInv
<1> QED
    BY <1>1 DEF Announce, workerVars, Stream!Announce

LEMMA StepRefines == IInv /\ [Next]_vars => [Stream!Next]_(Stream!wsVars)
<1> SUFFICES ASSUME IInv, [Next]_vars PROVE [Stream!Next]_(Stream!wsVars)
    OBVIOUS
<1>1. ASSUME NEW r \in Receivers, Load(r) PROVE Stream!Next
    BY <1>1, LoadRefines DEF Stream!Next
<1>2. CASE Announce
    BY <1>2, AnnounceRefines DEF Stream!Next
<1>3. CASE UNCHANGED <<loaded, announced>>
    BY <1>3 DEF Stream!wsVars
<1>4. (\E r \in Receivers : Load(r)) \/ Announce \/ UNCHANGED <<loaded, announced>>
  <2>1. CASE Trainer
      BY <2>1 DEF Trainer, Pack, Broadcast, workerVars
  <2>2. ASSUME NEW r \in Receivers, Network(r) \/ Rollout(r)
        PROVE  UNCHANGED <<loaded, announced>>
      BY <2>2 DEF Network, Rollout, Transmit, Arrive, Connect, NextBucket, Yield, CopyRuns,
                  SendBucket, Answered, workerVars
  <2>3. ASSUME NEW r \in Receivers, CloneBucket(r) PROVE UNCHANGED <<loaded, announced>>
      BY <2>3 DEF CloneBucket
  <2> QED
      BY <2>1, <2>2, <2>3 DEF Next, Worker, Finished, vars, workerVars
<1> QED
    BY <1>1, <1>2, <1>3, <1>4

(* A transfer is a weight stream, whatever the sizes of the weights and the *)
(* pace of trainer, network, devices and workers: each worker loads every   *)
(* weight once, in order and with its own bytes, and the server is told     *)
(* after the last of them.  (That it is told is checked by TLC.)            *)
THEOREM TransferImplementsStream == Spec => Stream!Init /\ [][Stream!Next]_(Stream!wsVars)
<1>1. Init => Stream!Init
    BY DEF Init, Stream!Init
<1> QED
    BY <1>1, Initially, Inductive, StepRefines, PTL DEF Spec
===============================================================================
