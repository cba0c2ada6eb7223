SPECIFICATION Spec
CONSTANTS
    Threads = {t1, t2}
    t1 = t1
    t2 = t2
    Keys = {k1, k2, k3}
    k1 = k1
    k2 = k2
    k3 = k3
    NoThread = NoThread
    TTL = 1
    MaxEntries = 2
    FlushThreshold = 2
    CleanupDays = {2}
    MaxTime = 2
    MaxCalls = 5
SYMMETRY Symmetry
INVARIANT HitAccounting
INVARIANT FlushBarrier
PROPERTY FreshRowsSurvive
