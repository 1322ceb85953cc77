CONSTANTS
    Chunks = 3
    SeqMod = 3
    MaxRetries = 3
    MaxMishaps = 3
    Mishaps = {"garbled", "cut", "dropped", "header", "lost", "noise", "late", "flash"}
    Ops = {"PU", "GT"}
SPECIFICATION Spec
INVARIANTS
    TypeOK
    
    RepairsDamage
PROPERTIES
    DeliversWhole
    BothComeBack
CHECK_DEADLOCK FALSE
