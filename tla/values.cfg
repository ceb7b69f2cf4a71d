SPECIFICATION Spec
CONSTANTS
    CharMax = 3
    IntMax = 7
    LongMax = 15
    Affinities <- ThreeAffinities
    Arguments <- Pairs
    Alias <- AliasA
    TableNames <- TwoAndOneMore
    Garbage <- FreedMemory
    Careful = TRUE
INVARIANTS TypeOK RoundTrip ReadsAgree NamesFindColumns
PROPERTY QueryFindsItsRow
