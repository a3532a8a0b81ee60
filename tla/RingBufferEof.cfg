CONSTANTS
    CAPACITY = 2
    MAX_RETRIES = 2
    MaxBytes = 4
    MaxLen = 2
    INT_LIMIT = 8
SPECIFICATION Spec
PROPERTY EofOnlyWhenDrained
