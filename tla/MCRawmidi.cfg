SPECIFICATION Spec
CONSTANTS
    Size = 2
    TxFifo = 1
    RxFifo = 2
    Counts = {1, 3}
INVARIANTS OutputIntact InputIntact ClosedIsQuiet UartWhileOpen
PROPERTIES CallsReturn
