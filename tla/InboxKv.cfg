SPECIFICATION GapFreeSpec
CONSTANTS
    Callers = {c1, c2, c3}
    Ids = {k1, k2}
    Backend = "kv"
    Releases = TRUE
    Timeouts = TRUE
INVARIANT OneOwner
PROPERTY ImplementsContract
