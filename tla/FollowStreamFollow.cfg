SPECIFICATION FairSpec
CONSTANTS
    chat = chat
    mark = mark
    alpha = alpha
    beta = beta
    NoFilter = NoFilter
    Nothing = Nothing
    Categories <- TwoCategories
    Targets <- TwoTargets
    Filters <- OnePair
    Sent <- ThreeKinds
    Origins = {"other", "unknown"}
    Since = {0, 1}
    Limits = {1}
    BufferSize = 2
    KeyLimit = 5
    MaxSeq = 4
    OutboundSize = 2
    QueueSize = 1
INVARIANT FollowTypeOK
INVARIANT NothingSkipped
PROPERTY PrintedInOrder
PROPERTY CatchesUp
CHECK_DEADLOCK FALSE
