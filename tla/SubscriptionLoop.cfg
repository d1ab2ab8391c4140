SPECIFICATION FairSpec
CONSTANTS
    Messages = {m1, m2, m3}
    NoMessage = NoMessage
    Concurrency = 2
    Prefetch = 2
    MaxFailures = 8
INVARIANT TypeOK
INVARIANT PermitsAreBalanced
INVARIANT DrainedIsQuiet
INVARIANT AtMostOneLateStart
PROPERTY DrainEnds
PROPERTY AbortReachesWorkers
PROPERTY EverythingHandled
CHECK_DEADLOCK FALSE
