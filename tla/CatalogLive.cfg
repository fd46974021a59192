CONSTANTS
    Queries = {q1, q2}
    Models = {m1, m2}
    Tables = {t1}
    NoName = NoName
    NoQuery = NoQuery
SPECIFICATION FairSpec
PROPERTIES
    QueriesEnd
CHECK_DEADLOCK FALSE
