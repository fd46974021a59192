CONSTANTS
    HEADER_LEN = 4
    BOM_LEN = 3
    MAX_FRAME_BODY = 4
    Shapes <- SomeShapes
    Pieces = {0, 1, 2, 4}
    MaxChunks = {0, 2, 9}
    Bodies = {0, 3, 5}
    MaxFrames = 3
    Reads = {0, 1, 4, 9}
SPECIFICATION SealingSpec
INVARIANTS
    SealTypeOK
    PlainInOrder
    NothingWaits
    EndExact
    BodyCarried
CHECK_DEADLOCK FALSE
