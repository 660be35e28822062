SPECIFICATION Spec
CONSTANTS
    MaxItems = 5
    ChunkSize = 2
    NumWorkers = 3
INVARIANTS
    DealtEvenly
PROPERTY
    ImplementsScoreBatch
