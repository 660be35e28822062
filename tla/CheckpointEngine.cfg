\* Four weights of every size in buckets of two cells, to two receivers.
SPECIFICATION EngineSpec
CONSTANTS
    Receivers = {1, 2}
    Leader = 1
    Rollouts = 2
    Trainers = 2
    NumWeights = 4
    BucketSize = 2
INVARIANTS BuffersApart
PROPERTIES EnginesImplementStream
