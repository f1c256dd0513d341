SPECIFICATION Spec
CONSTANTS
    c1 = c1
    c2 = c2
    Calls <- MCCalls
    Operation <- MCOperation
    NoCall = NoCall
    ReplyCap = 1
    EventCap = 1
    SessionCap = 1
    LineRoom = 1
    MaxEvents = 2
PROPERTY CloseReturns
CHECK_DEADLOCK FALSE
