SPECIFICATION PageSpec
CONSTANTS
    PAGE_SIZE = 2
    Frame = 8
    Space = 16
    HeapEnd = 0
    HeapSlots = 2
    Orders = {1, 2}
    Sizes = {1, 3}
    Offsets = {1}
    MaxHeld = 2
    MaxUsed = 8
INVARIANTS BlocksOwned DmaInFrame RecordsTrue NoRegionLost CounterCovers
CHECK_DEADLOCK FALSE
