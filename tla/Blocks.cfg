\* Two hits make a header; a signal has room for four headers and their blocks.
CONSTANTS
    CacheCount = 4
    LongCount = 2
    MatchCount = 2
    ShortCount = 2
    RiseCount = 3
    EventCount = 4
    MinGap = 3
    BlockTime = 5
    LastTime = 4
    ShortValid = 3
    ShortSignal = 3
    StartSize = 5
    MaxTime = 20
SPECIFICATION SearchSpec
INVARIANTS
    SearcherAsserts
    BlocksChain
CHECK_DEADLOCK FALSE
