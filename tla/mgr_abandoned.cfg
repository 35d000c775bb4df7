SPECIFICATION PromptSpec
CONSTANTS
    Sessions = {s1}
    Users = {u1}
    Conns = {c1, c2}
    Absent = Absent
    None = None
    MaxLong = 1
    MaxTotal = 1
    ShortTTL = 1
    MaxHours = 1
    MaxTime = 3
    MaxDeadline = 4
PROPERTIES
    AbandonedShortReaped
CHECK_DEADLOCK FALSE
