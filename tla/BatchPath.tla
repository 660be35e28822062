------------------------------ MODULE BatchPath ------------------------------
(***************************************************************************)
(* The way of a batch through the job and back.  The agent loop manager    *)
(* pads the prompts, deals them to its workers and puts the answers        *)
(* together again; the trainer reorders the rollouts so that every rank    *)
(* gets about the same work; every rank cuts its share into micro-batches, *)
(* whose forward passes all ranks make together, and puts its results back *)
(* into the order of its share; the trainer collects the shares.  Both     *)
(* partitions are calls of SeqlenBalancing.                                *)
(*                                                                         *)
(* A row is the number of its prompt, a result the number of the row it    *)
(* was computed from.                                                      *)
(***************************************************************************)
EXTENDS SeqlenBalancing, SequencesExt

CONSTANTS
    Batches,     \* bound: batches, as the tokens of each prompt's rollout
    Workers,     \* number of agent loop workers
    Ranks,       \* dp_size
    MaxTokenLen  \* max_token_len of a micro-batch

ASSUME BatchAssumption ==
    /\ {Workers, Ranks, MaxTokenLen} \subseteq Nat \ {0}
    /\ \A b \in Batches : b \in Seq(1..MaxTokenLen) /\ b # <<>> /\ Len(b) % Ranks = 0

VARIABLES
    lens,      \* tokens of each prompt's rollout
    stage,     \* "rollout", "balance", "count", "split", "forward" or "done"
    answered,  \* agent loop workers whose chunk is generated
    batch,     \* rows of the trainer's batch
    counts,    \* num_micro_batches of each rank
    micros,    \* micro-batches of each rank, as lists of positions in its share
    passes,    \* forward passes made by all ranks
    outputs,   \* what each rank has computed, in the order of its passes
    results    \* the collected results, one for each row of the batch

rows == <<lens, batch>>
shares == <<counts, micros, passes, outputs>>
batchVars == <<vars, rows, shares, stage, answered, results>>

Size == Len(lens)
Calculate(len) == 24576 * len + len * len  \* calculate_workload
Chunk(s, n, c) == SubSeq(s, (c - 1) * (Len(s) \div n) + 1, c * (Len(s) \div n))

BatchInit ==
    /\ lens \in Batches
    /\ stage = "rollout"
    /\ answered = {}
    /\ batch = [n \in 1..Size |-> n]
    /\ counts = <<>> /\ micros = <<>> /\ passes = 0
    /\ outputs = [r \in 1..Ranks |-> <<>>]
    /\ results = <<>>
    /\ call = [work |-> <<>>, k |-> 1, equal |-> FALSE] /\ states = {}

-----------------------------------------------------------------------------
(* AgentLoopManager.generate_sequences: the padding repeats the first rows. *)
Padded == batch \o [n \in 1..((-Size) % Workers) |-> batch[((n - 1) % Size) + 1]]

WorkerAnswers(w) ==
    /\ stage = "rollout"
    /\ w \notin answered
    /\ answered' = answered \cup {w}
    /\ UNCHANGED <<vars, rows, shares, stage, results>>

(* The chunks are put together in the order of the workers, and the last    *)
(* pad_size rows are dropped.                                               *)
Gather ==
    /\ stage = "rollout"
    /\ answered = 1..Workers
    /\ LET chunks == [w \in 1..Workers |-> Chunk(Padded, Workers, w)]
       IN  batch' = SubSeq(FlattenSeq(chunks), 1, Size)
    /\ stage' = "balance"
    /\ call' = [work |-> [n \in 1..Size |-> Calculate(lens[batch'[n]])], k |-> Ranks, equal |-> TRUE]
    /\ states' = InitialStates(call')
    /\ UNCHANGED <<lens, shares, answered, results>>

-----------------------------------------------------------------------------
EveryOther(s) == [n \in 1..((Len(s) + 1) \div 2) |-> s[2 * n - 1]]  \* s[::2]
Others(s) == [n \in 1..(Len(s) \div 2) |-> s[2 * n]]                \* s[1::2]

(* sorted(): the n-th element has n - 1 others ahead of it.                 *)
Sorted(ahead) ==
    LET S == DOMAIN ahead
    IN  [n \in 1..Cardinality(S) |-> CHOOSE x \in S : Cardinality(ahead[x]) = n - 1]

(* _balance_batch: small rows at both ends of a partition.                  *)
ByWork(p) == Sorted([n \in p |-> {m \in p : Before(call, m, n)}])
SmallOutside(p) == EveryOther(ByWork(p)) \o Reverse(Others(ByWork(p)))

Balanced ==
    /\ stage = "balance"
    /\ Partitioned
    /\ LET order == FlattenSeq([r \in 1..Ranks |-> SmallOutside(Partition[r])])
       IN  batch' = [n \in 1..Size |-> batch[order[n]]]
    /\ stage' = "count"
    /\ states' = {}
    /\ UNCHANGED <<call, lens, shares, answered, results>>

(* rearrange_micro_batches, up to the all_reduce that makes all ranks take  *)
(* the largest number.                                                      *)
Share(r) == Chunk(batch, Ranks, r)
ShareLens(r) == [n \in 1..Len(Share(r)) |-> lens[Share(r)[n]]]
Needed(r) ==
    Min({Len(Share(r)), (MapThenSumSet(LAMBDA n : ShareLens(r)[n], DOMAIN ShareLens(r)) + MaxTokenLen - 1) \div MaxTokenLen})

Mut_NoAllReduce == [r \in 1..Ranks |-> Needed(r)]
Agreed == [r \in 1..Ranks |-> Max({Needed(q) : q \in 1..Ranks})]

LocalCall(r, num) ==
    [work |-> [n \in 1..Len(Share(r)) |-> Calculate(ShareLens(r)[n])], k |-> num, equal |-> FALSE]

Count ==
    /\ stage = "count"
    /\ counts' = Agreed
    /\ stage' = "split"
    /\ call' = LocalCall(1, counts'[1])
    /\ states' = InitialStates(call')
    /\ UNCHANGED <<rows, micros, passes, outputs, answered, results>>

(* Small micro-batches at both ends.  The ranks do this at the same time,   *)
(* here one after the other: each looks at nothing but its share.           *)
Work(p) == MapThenSumSet(LAMBDA n : call.work[n], p)
Larger(p, q) == Work(p) > Work(q) \/ (Work(p) = Work(q) /\ Min(p) > Min(q))
LargestFirst(S) == Sorted([p \in S |-> {q \in S : Larger(q, p)}])
Ascending(p) == Sorted([n \in p |-> {m \in p : m < n}])
SmallOutermost(s) == Reverse(EveryOther(s)) \o Others(s)
MicroBatches ==
    LET order == SmallOutermost(LargestFirst(Range(Partition)))
    IN  [n \in 1..Len(order) |-> Ascending(order[n])]

Split ==
    /\ stage = "split"
    /\ Partitioned
    /\ micros' = Append(micros, MicroBatches)
    /\ IF Len(micros') < Ranks
       THEN /\ call' = LocalCall(Len(micros') + 1, counts[Len(micros') + 1])
            /\ states' = InitialStates(call')
            /\ UNCHANGED stage
       ELSE /\ states' = {}
            /\ stage' = "forward"
            /\ UNCHANGED call
    /\ UNCHANGED <<rows, counts, passes, outputs, answered, results>>

-----------------------------------------------------------------------------
(* One forward pass: a collective of all ranks, each with its next          *)
(* micro-batch.                                                             *)
Forward ==
    /\ stage = "forward"
    /\ \A r \in 1..Ranks : passes < Len(micros[r])
    /\ passes' = passes + 1
    /\ outputs' = [r \in 1..Ranks |->
           outputs[r] \o [n \in DOMAIN micros[r][passes + 1] |-> Share(r)[micros[r][passes + 1][n]]]]
    /\ UNCHANGED <<vars, rows, counts, micros, stage, answered, results>>

(* restore_dynamic_batch: get_reverse_idx of the concatenated index lists.  *)
Mut_NotReversed(r) == [n \in 1..Len(outputs[r]) |-> outputs[r][FlattenSeq(micros[r])[n]]]
Restored(r) ==
    LET indices == FlattenSeq(micros[r])
    IN  [n \in 1..Len(outputs[r]) |-> outputs[r][CHOOSE m \in DOMAIN indices : indices[m] = n]]

Collect ==
    /\ stage = "forward"
    /\ \A r \in 1..Ranks : passes = Len(micros[r])
    /\ results' = FlattenSeq([r \in 1..Ranks |-> Restored(r)])
    /\ stage' = "done"
    /\ UNCHANGED <<vars, rows, shares, answered>>

(* A rank that has entered a collective waits for the others, with no       *)
(* timeout; and nothing is left to do with the results.                     *)
RanksWait == stage \in {"forward", "done"} /\ UNCHANGED batchVars

BatchNext ==
    \/ \E w \in 1..Workers : WorkerAnswers(w)
    \/ Gather
    \/ Merge /\ UNCHANGED <<rows, shares, stage, answered, results>>
    \/ Balanced \/ Count \/ Split
    \/ Forward \/ Collect
    \/ RanksWait

(* Every worker answers, and a collective ends when all ranks take part.    *)
BatchSpec == BatchInit /\ [][BatchNext]_batchVars /\ WF_batchVars(BatchNext)

-----------------------------------------------------------------------------
(* Every prompt is in the batch once, whatever the padding, and the result  *)
(* of a row was computed from that row, through two reorderings and two     *)
(* distributions.                                                           *)
ResultsAreOwn ==
    /\ stage # "rollout" =>
           Len(batch) = Size /\ Range(batch) = 1..Size
    /\ stage = "done" => results = batch

(* No rank waits for ever in a forward pass the others do not make.         *)
AllRanksFinish == <>(stage = "done")
==============================================================================
