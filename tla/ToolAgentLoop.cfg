\* Every setting; three calls in a turn where two run in parallel.
SPECIFICATION FairSpec
CONSTANTS
    PromptLength = 2
    ResponseLength = 10
    PadToken = 1
    MaxParallelCalls = 2
    MaxCalls = 3
    MaxObservation = 2
    Settings <- AllSettings
INVARIANTS RunsAreTurns LogprobsBelongToTokens ResponseHasNoPrompt MaskMarksGenerated EndsWithGenerated RoomToGenerate ToolsReleased
PROPERTY Terminates
