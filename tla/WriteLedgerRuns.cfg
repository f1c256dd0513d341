SPECIFICATION Spec
CONSTANTS
    c1 = c1
    c2 = c2
    x = x
    None = None
    Calls <- TwoCalls
    Ids <- OneId
    IdOf <- SameId
    Cap = 1
    MaxConn = 2
    MaxRun = 2
    MaxCred = 2
    MaxCrash = 1
    ReadmitInFlight = FALSE
INVARIANT TypeOK
INVARIANT LedgerMatchesDisk
INVARIANT NoForgottenWrite
INVARIANT AtMostOncePerRun
PROPERTY Implements
CHECK_DEADLOCK FALSE
