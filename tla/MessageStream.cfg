CONSTANTS
    Shapes <- SmallShapes
    Chunks = {1, 7, 26}
    MaxBuffer = 48
    MaxRecords = 3
    ReadsAfterAbandon = FALSE
SPECIFICATION FairSpec
INVARIANTS
    TypeOK
    Aligned
    InOrderOnce
    NegotiatedOnly
    WaitsForPeer
PROPERTIES
    CallsEnd
    RefusedForSize
    ImplementsQueue
CHECK_DEADLOCK FALSE
