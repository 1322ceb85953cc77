CONSTANTS
    Tone = {"a", "b"}
    None = None
    ClockMod = 16
    DrainWait = 5
    SilenceHalves = 2
    MaxStall = 1
    MaxFaults = 0
    Scores <- Legato
    StackMax = 2
    MaxNest = 3
    MaxStarts = 1
    Encores <- Again
SPECIFICATION Spec
INVARIANTS
    RestIsSilent
