\* three chunks, a backlog of two; liveness, so no symmetry
SPECIFICATION FairSpec
CONSTANTS
    Conns = {c1, c2}
    None = None
    MaxPending = 2
    MaxChunks = 3
INVARIANTS
    IndInv
    NoDuplicates
    BacklogInOnePiece
    RecordingCoversClients
PROPERTIES
    NoSilentLoss
    
CHECK_DEADLOCK FALSE
