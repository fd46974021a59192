CONSTANTS
    Words <- SomeWords
    Numbers <- SomeNumbers
    Ports <- GoodPorts
    Timeouts <- GoodTimeouts
    Truths <- Yes
    Falsehoods <- No
    Secrets <- SomeSecrets
    Limit = 2
    MaxAddresses = 3
    MaxSignals = 2
    Calls <- AllCalls
    Names <- AllNames
    Texts = {"", "x"}
    Decoded <- Identity
    Tables <- SomeTables
    ColumnOrder <- Order
    VectorSize = 2
    SelfClosing = FALSE
    MaxExecutions = 2
    Null = "null"
SPECIFICATION FairFunctions
INVARIANTS
    FunctionsTypeOK
    HoldsExactly
    ConnectBounded
    MoreSpecificWins
    GuardExact
    DeliveredWhole
PROPERTIES
    BindEnds
CHECK_DEADLOCK FALSE
