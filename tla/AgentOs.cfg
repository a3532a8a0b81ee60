CONSTANTS
    JobIds = {i, j}
    MaxJobs = 2
    MaxRuns = 3
    MaxAcpId = 2
    MaxLines = 2
    MaxWritten = 3
    MaxCalls = 3
    MaxSignals = 1
    MaxDepth = 2
    Procs = {p, q}
    Former = former
    Nobody = nobody
SPECIFICATION FairSpec
INVARIANTS
    JobsAreKept
    CallsGetTheirOwn
    OneHolder
    UndisturbedOutcome
PROPERTIES
    ClientIsAccounted
    AcpImplementsPort
    PartsGoOn
CHECK_DEADLOCK FALSE
