\* The default score function alone.
SPECIFICATION PathSpec
CONSTANTS
    MaxLength = 5
    MaxTokens = 6
    RewardValues <- Values
    B = 2
    Gamma = 2
    ComputeScores = {"default"}
INVARIANT TurnRewardsReachTheirTurns
