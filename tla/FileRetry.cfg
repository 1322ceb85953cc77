CONSTANTS
    Chunks = 2
    SeqMod = 4
    MaxRetries = 3
    MaxMishaps = 1
    Mishaps = {"lost"}
    Ops = {"PU"}
SPECIFICATION Spec
INVARIANTS
    RetransmitIsAccepted
CHECK_DEADLOCK FALSE
