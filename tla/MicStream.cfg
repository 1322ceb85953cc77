CONSTANTS
    FullMax = 3
    JobSlots = 3
    MaxChunks = 4
    MaxInits = 2
    MaxStarts = 3
    MaxTicks = 1
SPECIFICATION Spec
INVARIANTS
    TypeOK
    DmaTargetLive
    PingPongSlack
PROPERTIES
    ImplementsLossyQueue
    Empties
CHECK_DEADLOCK FALSE
