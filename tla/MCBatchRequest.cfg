CONSTANTS
    Groups = {1, 2, 3}
    Size <- ThreeGroups
    ContextWindow = 0
    MaxConcurrent = 2
    Eligible = {"p", "f"}
    CallCost <- CostOf
    InitialCaches <- SomeCaches
    MaxAttempts = 4
    MaxInputBytes = 6
    MaxOutputTokens = 9
SPECIFICATION FairBatchSpec
INVARIANTS PublishedOnce
PROPERTIES NoWorkAfterFailure EveryBatchEnds
