SPECIFICATION Spec
SYMMETRY Symmetry
CONSTANTS
    w1 = w1
    w2 = w2
    n1 = n1
    n2 = n2
    n3 = n3
    Rows <- TwoRows
    Names <- ThreeNames
    MaxCalls = 4
    FaultSets <- MildAndAll
INVARIANTS
    TypeOK
    TasksStartClean
    FlagMatches
    FlagNeverDenies
    SavepointsMatchCalls
PROPERTIES
    RollbackUndoes
    CommitKeeps
    NothingDurableBeforeTheEnd
    SavePointCallHonest
