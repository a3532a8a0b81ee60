CONSTANTS
    Urls <- MCUrls
    Replies <- MCReplies
    LengthLine <- MCLengthLine
    SizeLine <- MCSizeLine
    MaxChunk = 2
    RECV = 3
    MaxHeader = 8
    CompactAfter = 2
    Programs <- MCPrograms
    Cap = 2
    ReadSize = 2
    Durations = {0, 1, 2}
    MaxTime = 3
    MaxFaults = 1
SPECIFICATION FairSpec
INVARIANTS
    ExchangeIsFaithful
    ProcessesAreKept
PROPERTIES
    TimeoutExact
    UsesEnd
