SPECIFICATION Spec
CONSTANTS
    c1 = c1
    c2 = c2
    x = x
    None = None
    Calls <- TwoCalls
    Ids <- OneId
    IdOf <- SameId
    Cap = 1
    MaxConn = 2
    MaxRun = 2
    MaxCred = 1
    MaxCrash = 0
    ReadmitInFlight = TRUE
INVARIANT NoForgottenWrite
CHECK_DEADLOCK FALSE
