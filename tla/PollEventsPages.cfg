SPECIFICATION Spec
CONSTANTS
    chat = chat
    mark = mark
    alpha = alpha
    beta = beta
    NoFilter = NoFilter
    Nothing = Nothing
    Categories <- TwoCategories
    Targets <- TwoTargets
    BufferSize = 2
    KeyLimit = 5
    MaxSeq = 4
    Limits = {0, 1}
    MaxStreams = 2
SYMMETRY Alike
INVARIANT TypeOK
INVARIANT TablesExact
INVARIANT AllAccountedFor
INVARIANT NothingTwice
CHECK_DEADLOCK FALSE
