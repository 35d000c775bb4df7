SPECIFICATION Spec
CONSTANTS
    Users = {"u1"}
    Tokens = {"k1"}
    Tickets = {"t1", "t2"}
    Requests = {"r1"}
    TokenTTL = 1
    TicketTTL = 1
    MaxTime = 2
    Absent = Absent
    Flows = {"f1", "f2"}
    Vars = {"A", "B"}
    AuthTimeout = 1
    Setups = {"agent"}
INVARIANTS
    KeysKept
CHECK_DEADLOCK FALSE
