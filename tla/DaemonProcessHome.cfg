SPECIFICATION Spec
CONSTANTS
    Daemons = {d1, d2, d3}
    Stops = {s1}
    MaxCrash = 2
    NoDaemon = NoDaemon
INVARIANT TypeOK
INVARIANT OneDaemonFound
INVARIANT StopTellsTheTruth
PROPERTY StartsAndStopsEnd
CHECK_DEADLOCK FALSE
