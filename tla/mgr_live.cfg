\* two long sessions, so that the reaper may be busy with the other one
SPECIFICATION LongSpec
CONSTANTS
    Sessions = {1, 2}
    Users = {u1}
    Conns = {1, 2}
    Absent = Absent
    None = None
    MaxLong = 2
    MaxTotal = 2
    ShortTTL = 1
    MaxHours = 1
    MaxTime = 1
    MaxDeadline = 2
PROPERTIES
    CloseCompletes
    LongSessionsEnd
    ReadersLeave
CHECK_DEADLOCK FALSE
