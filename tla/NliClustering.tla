---------------------------- MODULE NliClustering ----------------------------
(***************************************************************************)
(* cluster_answers: the answers of one query are grouped into outcome      *)
(* modes.  The first answer without a mode leads a new one, and every      *)
(* later answer without a mode that the NLI model finds equivalent to the  *)
(* leader joins it, chunk by chunk.  The NLI model is external: each       *)
(* question gets an arbitrary answer, in particular equivalence need be    *)
(* neither transitive nor true of two equal texts.                         *)
(*                                                                         *)
(* get_cluster_info and _pick_refs turn the modes into frequencies and     *)
(* reference answers.                                                      *)
(***************************************************************************)
EXTENDS Integers, FiniteSets, Sequences

CONSTANTS
    N,             \* number of answers
    NliChunkSize,  \* chunk_size of an NLI call
    Strict         \* bidirectional entailment, or the loose test

ASSUME ClusteringAssumption ==
    N \in Nat /\ NliChunkSize \in Nat \ {0} /\ Strict \in BOOLEAN

Answers == 1..N
Unassigned == -1

VARIABLES
    ids,      \* semantic_ids
    i,        \* the outer loop's index
    nextId,   \* next_id
    pending,  \* remaining_indices not yet sent to the model
    loop,     \* "scan" (outer loop), "check" (inner loop) or "done"
    asked,    \* history: pairs <<leader, answer>> the model has judged
    equiv,    \* history: those it judged equivalent
    leader    \* history: the leader of each mode

clusteringVars == <<ids, i, nextId, pending, loop, asked, equiv, leader>>

ClusteringInit ==
    /\ ids = [j \in Answers |-> Unassigned]
    /\ i = 1
    /\ nextId = 0
    /\ pending = {}
    /\ loop = "scan"
    /\ asked = {} /\ equiv = {}
    /\ leader = [c \in 0..(N - 1) |-> 0]

-----------------------------------------------------------------------------
(* The NLI labels, and check_entail_batch on the labels of one pair in both *)
(* directions.                                                              *)
Contradiction == 0
Neutral == 1
Entailment == 2
Labels == {Contradiction, Neutral, Entailment}

Equivalent(p, q) ==
    IF Strict
    THEN p = Entailment /\ q = Entailment
    ELSE p # Contradiction /\ q # Contradiction /\ ~(p = Neutral /\ q = Neutral)

(* An answer that already has a mode leads none.                            *)
SkipAssigned ==
    /\ loop = "scan"
    /\ i <= N
    /\ ids[i] # Unassigned
    /\ i' = i + 1
    /\ UNCHANGED <<ids, nextId, pending, loop, asked, equiv, leader>>

(* The answers the new leader is compared with.                             *)
Mut_AllLater == {j \in Answers : j > i}
Remaining == {j \in Answers : j > i /\ ids[j] = Unassigned}

(* Answer i leads the next mode.                                            *)
Lead ==
    /\ loop = "scan"
    /\ i <= N
    /\ ids[i] = Unassigned
    /\ ids' = [ids EXCEPT ![i] = nextId]
    /\ leader' = [leader EXCEPT ![nextId] = i]
    /\ pending' = Remaining
    /\ loop' = "check"
    /\ UNCHANGED <<i, nextId, asked, equiv>>

(* C is the next chunk: the ChunkSize first of the remaining indices, or    *)
(* all of them.                                                             *)
IsChunk(C) ==
    /\ \A j \in C, k \in pending \ C : j < k
    /\ Cardinality(C) <= NliChunkSize
    /\ C = pending \/ Cardinality(C) = NliChunkSize

(* One NLI call; p and q are the labels of (leader, j) and (j, leader).     *)
CheckChunk ==
    /\ loop = "check"
    /\ pending # {}
    /\ \E C \in SUBSET pending :
           /\ IsChunk(C)
           /\ \E p, q \in [C -> Labels] :
                  LET joins == {j \in C : Equivalent(p[j], q[j])}
                  IN  /\ ids' = [j \in Answers |-> IF j \in joins THEN nextId ELSE ids[j]]
                      /\ equiv' = equiv \cup {<<i, j>> : j \in joins}
           /\ asked' = asked \cup {<<i, j>> : j \in C}
           /\ pending' = pending \ C
    /\ UNCHANGED <<i, nextId, loop, leader>>

(* The leader has been compared with every answer: its mode is closed.      *)
CloseMode ==
    /\ loop = "check"
    /\ pending = {}
    /\ nextId' = nextId + 1
    /\ i' = i + 1
    /\ loop' = "scan"
    /\ UNCHANGED <<ids, pending, asked, equiv, leader>>

Return ==
    /\ loop = "scan"
    /\ i = N + 1
    /\ loop' = "done"
    /\ UNCHANGED <<ids, i, nextId, pending, asked, equiv, leader>>

ClusteringIdle == loop = "done" /\ UNCHANGED clusteringVars

ClusteringNext == SkipAssigned \/ Lead \/ CheckChunk \/ CloseMode \/ Return \/ ClusteringIdle

ClusteringSpec == ClusteringInit /\ [][ClusteringNext]_clusteringVars

-----------------------------------------------------------------------------
(* get_cluster_info: the members of a mode, in order; their number is its   *)
(* count, out of N its frequency, and the first one's answer its reference. *)
Members(c) == {j \in Answers : ids[j] = c}
Mut_LastMember(c, j) == j \in Members(c) /\ \A k \in Members(c) : j >= k
IsReference(c, j) == j \in Members(c) /\ \A k \in Members(c) : j <= k

-----------------------------------------------------------------------------
ClusteringTypes ==
    /\ ids \in [Answers -> {Unassigned} \cup 0..(N - 1)]
    /\ i \in 1..(N + 1)
    /\ nextId \in 0..N
    /\ pending \subseteq Answers
    /\ loop \in {"scan", "check", "done"}
    /\ asked \subseteq Answers \X Answers
    /\ equiv \subseteq asked
    /\ leader \in [0..(N - 1) -> 0..N]

(* An answer is in the first mode whose leader it was judged equivalent to: *)
(* it was judged equivalent to its own leader and compared in vain with     *)
(* every earlier one, whatever the model's answers and the chunk size.  So  *)
(* the leaders are pairwise not equivalent and no answer is left out.       *)
ModesAreGreedy ==
    loop = "done" =>
        \A j \in Answers :
            /\ ids[j] \in 0..(nextId - 1)
            /\ j # leader[ids[j]] => <<leader[ids[j]], j>> \in equiv
            /\ \A c \in 0..(ids[j] - 1) : <<leader[c], j>> \in asked \ equiv

(* The reference that get_cluster_info selects for a mode is the answer its *)
(* members were compared with: every mode is represented by its leader.     *)
ReferenceIsLeader ==
    loop = "done" =>
        \A c \in 0..(nextId - 1), j \in Answers : IsReference(c, j) => j = leader[c]
==============================================================================
