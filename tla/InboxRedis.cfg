SPECIFICATION Spec
CONSTANTS
    Callers = {c1, c2, c3}
    Ids = {k1, k2}
    Backend = "redis"
    Releases = TRUE
    Timeouts = TRUE
INVARIANT TypeOK
INVARIANT OneOwner
PROPERTY DoneIsFinal
PROPERTY ImplementsContract
