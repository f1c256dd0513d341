SPECIFICATION Spec
CONSTANTS
    Names = {n1, n2}
    Configured = {n1}
    Commands = {r, c1, c2}
    Run = r
    Original = Original
    Ids = {1, 2, 3, 4, 5, 6}
    None = None
INVARIANT TypeOK
INVARIANT EveryLoopIsASession
INVARIANT SessionsFollowTheFile
INVARIANT NothingRunsAfterReturn
PROPERTY EverythingEnds
CHECK_DEADLOCK FALSE
