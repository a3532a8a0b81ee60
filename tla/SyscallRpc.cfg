CONSTANTS
    MaxCalls = 2
    MaxSignals = 0
    MaxDepth = 1
SPECIFICATION RpcSpec
INVARIANT BlocksUntilResponse
CHECK_DEADLOCK FALSE
