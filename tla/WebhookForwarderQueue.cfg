SPECIFICATION Spec
CONSTANTS
    Files <- MCFiles
    Envs <- MCEnvs
    Flags <- MCFlags
    DefaultQueue = 2
    DefaultAttempts = 2
    Backoff = 2
    MaxBackoff = 3
    Accepted <- MCAccepted
    Statuses <- MCStatuses
    MaxEvents = 4
INVARIANT TypeOK
INVARIANT OneEnd
INVARIANT CountersTrue
PROPERTY EventsAndStopEnd
CHECK_DEADLOCK FALSE
