SPECIFICATION FairSpec
CONSTANTS
    MaxId = 5
    MaxCalls = 2
    MaxCrashes = 2
    MAX_RESTARTS = 1
    BACKOFF_BASE = 1
    PING_TIMEOUT = 1
    STABLE_AFTER = 2
    CALL_TIMEOUT = 2
INVARIANTS
    NoRequestForgotten
    HandshakeIsCurrent
PROPERTIES
    OneChildAtATime
    StopIsFinal
    ImplementsPort
    CallsAndCrashesEnd
CHECK_DEADLOCK FALSE
