CONSTANTS
    Bits = 8
    MaxScale = 6
    Chunk = 2
    PhysMem = 0
    NanoDigits = 1
    BigScale = 3
    UsizeMax = 6
    MAX_FORMAT_WIDTH = 6
    DefaultPrecision = 2
    HexPrecision = 2
    UsizeLimit = 50
    SumBits = 4
    KernelLinks = 6
    SYMLINKS_TO_LOOK_FOR_LOOPS = 2
    MaxTurns = 30
    MaxOpenDirs = 4
    ByteBase = 4
    LimbBytes = 2
    Radix58 = 7
    TrimEvery = 2
    SPLICE_SIZE = 5
    PipeSize = 4
    BUF_SIZE = 2
    Poll = 3
SPECIFICATION Spec
INVARIANTS
    ConversionsAreExact
    TreesAreSafe
    ListsAndCopiesAreWhole
CHECK_DEADLOCK FALSE
