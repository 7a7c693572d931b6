SPECIFICATION Spec
CONSTANTS
    Letter = {"a", "b", "c", "s", "q", "k", "j", "r", "w", "y", "1", "2", "Space"}
    Dev <- MCDev
    Content <- MCContent
    Height = 2
    FeedLimit = 2
    Scenario <- MCScenario
    MaxPending = 2
INVARIANTS OnlyConfirmedOperates ScreenIsTrue
CHECK_DEADLOCK FALSE
