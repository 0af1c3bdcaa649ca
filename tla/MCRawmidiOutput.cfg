SPECIFICATION Spec
CONSTANTS
    Size = 2
    TxFifo = 1
    RxFifo = 1
    Counts = {2}
PROPERTIES OutputProceeds
