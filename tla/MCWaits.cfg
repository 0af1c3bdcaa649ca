SPECIFICATION Spec
CONSTANTS
    Waiters = {w1, w2}
    Substreams = {s1, s2}
    Cards = {c1}
    Timeouts = {1}
    TableSize = 3
    MaxInterrupts = 2
    None = None
INVARIANTS OneWakePerInterrupt
PROPERTIES NoMissedInterrupt WaitsReturn
