CONSTANTS
    Bits = 3
    Names <- TreeNames
    Hidden = {".h"}
    MaxLinks = 2
    TermWidth = 12
    HeadLen = 4
    ShebangLen = 3
    MaxMillis = 3
SPECIFICATION Spec
INVARIANTS
    FilesAreExact
    CommandsAreExact
CHECK_DEADLOCK FALSE
