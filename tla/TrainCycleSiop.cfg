\* The configuration of train_siop.sh.
SPECIFICATION CycleSpec
CONSTANTS
    Replicas = {r1, r2}
    TotalSteps = 2
    MaxStarts = 1
    Configs <- Siop
INVARIANTS ProcessRewardsReachAdvantage
