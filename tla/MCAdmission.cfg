SPECIFICATION Spec
CONSTANTS
    t1 = t1  t2 = t2  b1 = b1  a1 = a1  a2 = a2
    Threads <- MCThreads
    Browsers <- MCBrowsers
    Addrs <- MCAddrs
    AuthLimit = 2
    ApiLimit = 1
    Window = 2
    MaxClients = 1
    MaxInflight = 2
    TTL = 1
    MaxEntries = 1
    MaxFlights = 1
    Stall = 1
    Timeout = 1
    MaxRequests = 3
    MaxTime = 3
    None = None
INVARIANTS WindowRespected InflightExact
PROPERTIES AuthIsFresh
SYMMETRY MCSymmetry
CHECK_DEADLOCK FALSE
