CONSTANTS
    Sectors = 7
    SectorSize = 2
    Wide = 32
    LowSectors = 2
    ScratchSectors = 1
    MaxEntries = 5
    MaxMounts = 2
    HeadSlots = 2
    PageSlots = 2
    Labels = {"lfs0", "own"}
    Sizes = {1, 3}
    Starts = {0, 1, 11}
    MaxCalls = 2
    MaxCuts = 0
    IoErrors = FALSE
SPECIFICATION Spec
PROPERTY RefusedWhileMounted
CHECK_DEADLOCK FALSE
