CONSTANTS
    Names <- AllNames
    Texts <- AllTexts
    Decoded <- DecodedNames
    Cuts = {0, 1, 4, 9}
    Binds <- SomeBinds
    Queries <- SomeQueries
    Tables <- SomeTables
    Qualified <- QualifiedNames
    Alias <- AliasNames
    Encoded <- EncodedNames
    Lengths <- TextLengths
    TagLength = 3
    SelfClosing = TRUE
    VectorSize = 2
    ParserLimit = 12
    Null = "null"
SPECIFICATION ScanSpec
INVARIANTS
    RowCountSurvives
CHECK_DEADLOCK FALSE
