SPECIFICATION Spec
CONSTANTS
    q1 = q1
    q2 = q2
    s1 = s1
    s2 = s2
    s3 = s3
    r1 = r1
    r2 = r2
    r3 = r3
    NoStmt = NoStmt
    Queries <- TwoQueries
    Stmts <- ThreeStmts
    ResultSets <- TwoResultSets
    MaxRows = 1
    MismatchOnCached = FALSE
    HoldsSkipped = TRUE
INVARIANT CloseAllClosesAll
