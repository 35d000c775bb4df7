SPECIFICATION Spec
CONSTANTS
    Seccomp = TRUE
    Network = "loopback"
    CleanTries = 2
    Writers = {"w1"}
    Closers = {"k1"}
    InputRoom = 1
    Free = "free"
INVARIANTS
    FilterInForce
CHECK_DEADLOCK FALSE
