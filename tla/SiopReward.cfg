\* Two rollouts scored turn by turn, four clustered only; chunks of two items.
\* Every outcome of the NLI model on five answers, in chunks of two.
SPECIFICATION MCSpec
CONSTANTS
    Calls <- SmallCalls
    Weights <- EvidenceWeights
    ChunkSize = 2
    N = 5
    NliChunkSize = 2
    Strict = TRUE
INVARIANTS DifferencesAreOwn DegradesToTerminal QIsDistribution MajorityIsDominant
INVARIANTS ModesAreGreedy ReferenceIsLeader
