SPECIFICATION Spec
CONSTANTS
    q1 = q1
    q2 = q2
    s1 = s1
    s2 = s2
    s3 = s3
    r1 = r1
    r2 = r2
    r3 = r3
    NoStmt = NoStmt
    Queries <- TwoQueries
    Stmts <- ThreeStmts
    ResultSets <- ThreeResultSets
    MaxRows = 1
    MismatchOnCached = FALSE
    HoldsSkipped = FALSE
INVARIANTS
    TypeOK
    NoHandleMisuse
    NoLeakedStatement
    OwnershipConsistent
    StatementExclusive
    OpenResultSetsTracked
    NothingOutlivesConnection
    FlagTellsTheTruth
PROPERTY
    CursorsArePrivate
