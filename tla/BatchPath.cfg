\* Two ranks; four agent loop workers; up to four micro-batches a rank.
SPECIFICATION BatchSpec
CONSTANTS
    Calls <- PathCalls
    Batches <- SomeBatches
    Workers = 4
    Ranks = 2
    MaxTokenLen = 3
INVARIANTS PartitionIsExact ResultsAreOwn
PROPERTIES MergingBalances AllRanksFinish
