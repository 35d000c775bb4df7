SPECIFICATION Spec
CONSTANTS
    Sessions = {1, 2}
    Users = {{1}, {2}}
    RetentionDays = 1
    MaxTotalBytes = 1
    FailClosed = FALSE
    Page = 1
    Mixes = {{"cleaner", "viewer"}, {"cleaner", "crash"}, {"cleaner", "errors"}, {"event", "shutdown", "crash", "errors"}}
    MaxDays = 2
    MaxLines = 1
    MaxStarts = 2
INVARIANTS
    IndInv
    LiveRecordingKept
    UnfinishedIsLive
    ServedWhole
    MissedExplained
PROPERTIES
    EndKept
CHECK_DEADLOCK FALSE
