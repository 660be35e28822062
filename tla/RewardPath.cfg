\* Every two rollouts of up to five tokens, six together.
SPECIFICATION PathSpec
CONSTANTS
    MaxLength = 5
    MaxTokens = 6
    RewardValues <- Values
    B = 2
    Gamma = 2
    ComputeScores = {"default", "custom"}
INVARIANTS RangesAreRuns RewardsReadBack GroupsAreCentred CreditIsEarned
