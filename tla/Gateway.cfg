SPECIFICATION FairSpec
CONSTANTS
    CallIds = {r1, r2}
    Requests = {r1, r2}
    Keys = {k1}
    NoKey = NoKey
    Bodies = {b1, b2}
    BODY_HASH = TRUE
    CACHE_MAX = 1
    RETRIES = 2
INVARIANTS
    CacheWellFormed
    ReplaysAreGenuine
    FallbackIsBounded
PROPERTIES
    EveryRequestAnswered
CHECK_DEADLOCK FALSE
