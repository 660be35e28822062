\* Two replicas, three steps, two starts, every placement of the reward model.
SPECIFICATION CycleSpec
CONSTANTS
    Replicas = {r1, r2}
    TotalSteps = 3
    MaxStarts = 2
    Configs <- Cycles
INVARIANTS GeneratesReady OnPolicy OneUserOfTheGpus
