SPECIFICATION PageSpec
CONSTANTS
    PAGE_SIZE = 2
    Frame = 8
    Space = 12
    HeapEnd = 12
    HeapSlots = 3
    Orders = {0, 1}
    Sizes = {1, 3}
    Offsets = {1}
    MaxHeld = 2
    MaxUsed = 12
INVARIANTS ContentsKept
CHECK_DEADLOCK FALSE
