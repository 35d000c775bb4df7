SPECIFICATION Spec
CONSTANTS
    Sessions = {1, 2}
    Users = {{1}, {2}}
    RetentionDays = 1
    MaxTotalBytes = 1
    FailClosed = FALSE
    Page = 1
    Mixes = {{"shutdown"}}
    MaxDays = 2
    MaxLines = 1
    MaxStarts = 2
INVARIANTS
    ShutdownFinishes
CHECK_DEADLOCK FALSE
