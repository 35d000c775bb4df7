\* two sessions of one account, two connections
SPECIFICATION Spec
CONSTANTS
    Sessions = {s1, s2}
    Users = {u1}
    Conns = {c1, c2}
    Absent = Absent
    None = None
    MaxLong = 1
    MaxTotal = 2
    ShortTTL = 1
    MaxHours = 1
    MaxTime = 1
    MaxDeadline = 2
SYMMETRY BothSymmetry
INVARIANTS
    SlotsAreClosable
    NothingLeftRunning
    QuotaRespected
    IndInv
    NoForgottenConn
PROPERTIES
    UsesIndexAsSpecified
    LongReapedWhenDue
    ImplementsLifecycle
CHECK_DEADLOCK FALSE
