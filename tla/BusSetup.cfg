SPECIFICATION FairSpec
CONSTANTS
    p1 = p1
    p2 = p2
    hour = hour
    week = week
    Processes = {p1, p2}
    Streams <- MCStreams
    Durables <- MCDurables
    MaxAges = {hour, week}
    Deployments <- MCDeployments
    None = None
    MaxFailures = 2
    MaxLoggerFailures = 8
INVARIANT TypeOK
INVARIANT RunningIsProvisioned
PROPERTY SetupSucceeds
PROPERTY LoggerRecovers
PROPERTY LoggerStops
