CONSTANTS
    Operators = {p1, p2}
    Environments = {"a", "a2", "b"}
    Fingerprint <- CredentialRotation
    MaxRuns = 3
    MaxFaults = 2
    None = None
SPECIFICATION Spec
INVARIANTS NoJournalMeansWhole OldStateIsRestorable CommittedIsLive
CHECK_DEADLOCK FALSE
