SPECIFICATION Spec
CONSTANTS
    IndexMod = 16
    TxSize = 3
    RxSize = 3
    FifoDepth = 2
    MaxTx = 5
    MaxRx = 5
    MaxMinor = 1
    DrainTimeouts = TRUE
INVARIANTS
    TypeOK
    DoneMeansOnWire
    RxStream
    LossLeavesTrace
PROPERTIES
    TxImplementsFifo
    TxDrains
    CallsReturn
    ReceptionContinues
CHECK_DEADLOCK FALSE
