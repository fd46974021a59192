CONSTANTS
    Queries = {q1, q2, q3}
    Models = {m1, m2}
    Tables = {t1, t2}
    NoName = NoName
    NoQuery = NoQuery
SPECIFICATION Spec
SYMMETRY Symmetry
INVARIANTS
    TypeOK
    HeldAlive
    ReadsWholeLoad
    LockOnlyInLoad
PROPERTIES
    ImplementsLoadOnce
CHECK_DEADLOCK FALSE
