CONSTANTS
    MaxFd = 3
    MaxDesc = 4
    MaxRefs = 2
    MaxTimes = 2
    IPs = {a, b, c}
    RATE_LIMIT = 2
    RATE_WINDOW = 2
    MAX_RATE_BUCKETS = 1
    MaxTime = 3
    MaxRequests = 7
SPECIFICATION TablesSpec
INVARIANTS
    NeverUndercounted
PROPERTIES
    LowestAvailable
    LimitsAreFair
CHECK_DEADLOCK FALSE
