CONSTANTS
    Answers <- AnswersWithLeadingSpace
    MaxConns = 2
    MaxRequests = 3
    MaxRounds = 2
    Permitted <- AsTheExtension
SPECIFICATION Spec
INVARIANTS
    CursorAcceptsWhatExecuteAccepts
CHECK_DEADLOCK FALSE
