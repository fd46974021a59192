CONSTANTS
    Answers <- AnswersWithCutFault
    MaxConns = 2
    MaxRequests = 3
    MaxRounds = 2
    Permitted <- AsTheExtension
SPECIFICATION Spec
INVARIANTS
    PermissionIsAuthorization
CHECK_DEADLOCK FALSE
