SPECIFICATION Spec
CONSTANTS
    c1 = c1
    c2 = c2
    x = x
    y = y
    None = None
    EventFrame = EventFrame
    Callers <- TwoCallers
    Ids <- TwoIds
    IdOf <- OwnIds
    EventCap = 1
    MaxFrames = 1
    MaxReplies = 0
    MaxEvents = 2
PROPERTY EndsForAll
CHECK_DEADLOCK FALSE
