SPECIFICATION Spec
CONSTANTS
    BufferSize = 6
    PeriodSize = 2
    Boundary = 24
    PauseInfo = TRUE
    Reuse = {TRUE, FALSE}
    MaxLag = 5
    MaxPos = 8
    ReqSizes = {3}
INVARIANTS DmaFollowsState HwPtrExact QueueIntact
PROPERTIES CallsReturn
CHECK_DEADLOCK FALSE
