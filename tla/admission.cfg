\* two connections of one user; a login run and an agent run
SPECIFICATION FairSpec
CONSTANTS
    Users = {"u1"}
    Tokens = {"k1"}
    Tickets = {"t1", "t2"}
    Requests = {"r1"}
    TokenTTL = 1
    TicketTTL = 1
    MaxTime = 2
    Absent = Absent
    Flows = {"f1", "f2"}
    Vars = {"A", "B"}
    AuthTimeout = 1
    Setups = {"agent", "login"}
INVARIANTS
    AdmissionSound
    EnvFileRemoved
    KeysComplete
    DeadlineTakenBack
PROPERTIES
    PromptEnds
CHECK_DEADLOCK FALSE
