CONSTANTS
    Tone = {"a", "b"}
    None = None
    ClockMod = 16
    DrainWait = 5
    SilenceHalves = 2
    MaxStall = 1
    MaxFaults = 1
    Scores <- AllScores
    StackMax = 2
    MaxNest = 3
    MaxStarts = 2
    Encores <- Again
SPECIFICATION Spec
INVARIANTS
    TypeOK
    DmaBuffersLive
    NoPop
    ToneSounds
    PlaysScore
PROPERTIES
    Finishes
