SPECIFICATION FairSpec
CONSTANTS
    Scenarios <- AllScenarios
    Replacement = "ufffd"
    Callers = {e1}
    PendingCap = 3
    HeaderQueueCap = 3
    MaxSessionBytes = 4
    PendingInputCap = 2
    Hang = 1
    HeaderDelay = 1
INVARIANTS
    IndInv
    CastReplays
    SecretsMasked
    OutputComplete
    CountsHonest
    EndStays
    SlicesTile
PROPERTIES
    CloseReturns
    KeepsLog
CHECK_DEADLOCK FALSE
