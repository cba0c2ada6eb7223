CONSTANTS
    w1 = w1
    w2 = w2
    r1 = r1
    Workers = {w1, w2}
    Requests = {r1}
    RequestOf <- OneRequest
    CostOf <- OneRequestCosts
    MaxAttempts = 4
    MaxInputBytes = 6
    MaxOutputTokens = 6
    MaxInflight = 1
    MaxRetries = 2
    FallbackKind = "cloud"
    CustomProviders = {"fallback"}
SPECIFICATION FairSpec
INVARIANTS SlotsConserved BudgetRespected RateLimitIsFinal FallbackOnlyWhenPermitted
PROPERTIES EveryCallEnds
