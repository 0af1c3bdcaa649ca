SPECIFICATION Spec
CONSTANTS
    d1 = d1
    d2 = d2
    d3 = d3
    i1 = i1
    i2 = i2
    None = None
    Devs = {d1, d2, d3}
    Irqs = {i1, i2}
    IrqOf <- MCIrqOf
    MAX_IRQ_SLOTS = 2
    MAX_SHAREDIRQS = 3
INVARIANTS Reachable HookedSlotInUse
PROPERTIES Serviced
CHECK_DEADLOCK FALSE
