SPECIFICATION FairClientSpec
CONSTANTS
    HEAP_SIZE = 100
    HDR_SIZE = 12
    MIN_FragSize = 4
    ULONG_MOD = 1024
    Requests = {0, 4, 21, 30, 101}
INVARIANTS BlocksDisjoint Tiled Accounted
PROPERTIES CompactTerminates ImplementsAllocator
