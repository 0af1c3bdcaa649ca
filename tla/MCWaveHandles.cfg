SPECIFICATION Spec
CONSTANTS
    None = None
    Files = {f1, f2}
    Pcms = {p1, p2}
    Handles = {h1, h2}
    Substreams = 1
    MaxHandles = 2
SYMMETRY Symmetry
INVARIANTS TableSound FreeEntryClean NoLeak Exclusive
CHECK_DEADLOCK FALSE
