CONSTANTS
    c1 = c1
    c2 = c2
    c3 = c3
    k1 = k1
    k2 = k2
    Callers = {c1, c2, c3}
    Keys = {k1, k2}
    NoKey = NoKey
    MaxEntries = 1
    ResultTTL = 1
    MaxTime = 2
    MaxCalls = 3
SPECIFICATION FairSpec
INVARIANTS OneOperationPerKey WaiterAccounting SharedResultFresh
PROPERTIES FollowersReturn
