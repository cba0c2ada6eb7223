SPECIFICATION FairStreamSpec
CONSTANTS
    Streams = {s1, s2}
    s1 = s1
    s2 = s2
    StreamCost <- OneCall
    MaxInflight = 2
    OpenAi = {"primary"}
    HasFallback = TRUE
    MaxDeltas = 2
    MaxAttempts = 3
    MaxInputBytes = 9
    MaxOutputTokens = 9
INVARIANTS CachedIsAnswered
PROPERTIES EveryStreamEnds
