SPECIFICATION Spec
CONSTANTS
    IndexMod = 16
    Size = 5
    MaxBytes = 14
INVARIANTS
    TypeOK
    InOrder
    Conserved
    SnapshotsConservative
PROPERTIES
    PendingNeverOverwritten
    ImplementsFifo
CHECK_DEADLOCK FALSE
