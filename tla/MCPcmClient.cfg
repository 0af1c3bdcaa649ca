SPECIFICATION ClientSpec
CONSTANTS
    BufferSize = 4
    PeriodSize = 2
    Boundary = 16
    PauseInfo = FALSE
    Reuse = {FALSE}
    MaxLag = 3
    MaxPos = 16
    ReqSizes = {2, 3}
    Frames = {f, g}
    Silence = silence
SYMMETRY FrameSymmetry
INVARIANTS HwPtrExact AvailExact
PROPERTIES NoReplay ImplementsPlayback
CHECK_DEADLOCK FALSE
