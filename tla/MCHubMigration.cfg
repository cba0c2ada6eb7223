SPECIFICATION Spec
CONSTANTS
    ReaderSeq <- MCReaderSeq
    MaxRuns = 4
    MaxFaults = 2
    MaxWrites = 1
    None = None
INVARIANTS CutoverComplete ReadersStayServed HubAccountedFor
PROPERTIES OneTopology
CHECK_DEADLOCK FALSE
