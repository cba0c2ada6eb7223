SPECIFICATION FairSpec
CONSTANTS
    States = {"installed", "uninstalling", "uninstalled"}
    Final = {"uninstalled"}
    Attempts = {"prepared", "starting", "cleaned"}
    Torn = Torn
    None = None
    MaxOps = 12
    MaxFaults = 2
    ReaderSeq <- MCReaderSeq
    MaxHubFaults = 2
    Workers = {"w1", "w2"}
    MaxTokenFaults = 2
    MaxCommands = 2
    MaxHostFaults = 2
INVARIANTS RuntimeIsWitnessed OneToken
PROPERTIES Durable ServesAgain
CHECK_DEADLOCK FALSE
