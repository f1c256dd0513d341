SPECIFICATION Spec
CONSTANTS
    c1 = c1
    c2 = c2
    x = x
    y = y
    None = None
    EventFrame = EventFrame
    Callers <- TwoCallers
    Ids <- TwoIds
    IdOf <- OwnIds
    EventCap = 1
    MaxFrames = 1
    MaxReplies = 2
    MaxEvents = 2
INVARIANT TypeOK
INVARIANT CallsAreFound
INVARIANT CallsDoNotDisturb
PROPERTY Implements
CHECK_DEADLOCK FALSE
