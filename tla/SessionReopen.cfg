CONSTANTS
    Answers <- AnswersInHeadOrder
    MaxConns = 2
    MaxRequests = 3
    MaxRounds = 2
    Permitted <- Reckless
SPECIFICATION Spec
INVARIANTS
    CursorReadsItsOwnConnection
CHECK_DEADLOCK FALSE
