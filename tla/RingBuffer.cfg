CONSTANTS
    CAPACITY = 2
    MAX_RETRIES = 2
    MaxBytes = 6
    MaxLen = 3
    INT_LIMIT = 8
SPECIFICATION FairSpec
INVARIANTS
    BlocksWhenFull
    NoDataRace
    BytesInOrder
PROPERTIES
    BothSidesReturn
