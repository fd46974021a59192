CONSTANTS
    Answers <- AnswersInHeadOrder
    MaxConns = 3
    MaxRequests = 3
    MaxRounds = 2
    Permitted <- Careless
SPECIFICATION FairSpec
INVARIANTS
    TypeOK
    NegoBit
    SessionIdCarried
    HandlesAgree
    HandshakeAccepted
    AnswersMatch
    RefusedNeverRows
PROPERTIES
    TornNotUsed
    CallsEnd
CHECK_DEADLOCK FALSE
