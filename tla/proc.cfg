SPECIFICATION OrderedSpec
CONSTANTS
    Seccomp = TRUE
    Network = "loopback"
    CleanTries = 2
    Writers = {"w1"}
    Closers = {"k1", "k2"}
    InputRoom = 1
    Free = "free"
INVARIANTS
    LaunchInOrder
    LimitsHold

    
CHECK_DEADLOCK FALSE
