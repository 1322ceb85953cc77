CONSTANTS
    Handle = {h1, h2}
    Uart = {u1, u2}
    None = None
    RegistryMax = 2
    BytesPerPixel = {2, 3}
    Count = {1, 3}
    TailBytes = 1
    FrameMax = 8
    GrowWhileSending = FALSE
SPECIFICATION Spec
INVARIANTS
    FlagCoversTransfer
CHECK_DEADLOCK FALSE
