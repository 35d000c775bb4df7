SPECIFICATION DeafSpec
CONSTANTS
    Seccomp = FALSE
    Network = "none"
    CleanTries = 2
    Writers = {"w1"}
    Closers = {"k1", "k2"}
    InputRoom = 1
    Free = "free"
PROPERTIES
    CloseGetsLock
CHECK_DEADLOCK FALSE
