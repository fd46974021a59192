CONSTANTS
    Shapes <- SmallShapes
    Chunks = {1, 7, 26}
    MaxBuffer = 48
    MaxRecords = 2
    ReadsAfterAbandon = TRUE
SPECIFICATION Spec
INVARIANTS
    AbandonedReadsRefuse
CHECK_DEADLOCK FALSE
