SPECIFICATION Spec
CONSTANTS
    Callers = {c1, c2, c3}
    Ids = {k1}
    Backend = "kv"
    Releases = TRUE
    Timeouts = FALSE
INVARIANT OneOwner
