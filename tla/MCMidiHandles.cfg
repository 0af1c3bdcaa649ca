SPECIFICATION Spec
CONSTANTS
    Clients = {c1, c2}
    Addrs = {a1, a2}
    Files = {f1, f2, f3}
    None = None
SYMMETRY Symmetry
INVARIANTS OwnStream DevicesReturn HandlesReturn
CHECK_DEADLOCK FALSE
