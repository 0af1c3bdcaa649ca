SPECIFICATION Spec
CONSTANTS
    NDevs = 4
    NDrivers = 2
    Matches <- MCMatches
    Claims <- MCClaims
    NOthers = 2
    Seeks <- MCSeeks
    ByVendor = {6}
    ZeroDevfn = {1}
    NRegions = 2
    MAX_PCI_DEVICES = 3
    MAX_RESHANDLES = 4
    OSS32_MAX_AUDIOCARDS = 3
    AdapterNumbers <- MCAdapterNumbers
INVARIANTS ListedHeld FailedProbeReturns ExitsCover
PROPERTIES CardsKept
CHECK_DEADLOCK FALSE
