CONSTANTS
    Names <- AllNames
    Texts <- AllTexts
    Decoded <- DecodedNames
    Cuts = {0, 1, 4, 9}
    Binds <- SomeBinds
    Queries <- SomeQueries
    Tables <- SomeTables
    Qualified <- QualifiedNames
    Alias <- AliasNames
    Encoded <- EncodedNames
    Lengths <- TextLengths
    TagLength = 3
    SelfClosing = FALSE
    VectorSize = 2
    ParserLimit = 12
    Null = "null"
SPECIFICATION ScanSpec
INVARIANTS
    ScanTypeOK
    RowsAsAsked
    DeliveredAsRead
    LimitFair
PROPERTIES
    ImplementsParseRowset
CHECK_DEADLOCK FALSE
