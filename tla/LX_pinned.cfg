\* A task pinned to a slot that works
SPECIFICATION Spec
CONSTANTS
    NSlots = 2
    NBatch = 3
    NUbatch = 2
    LastTokens = 1
    MinStep = 1
    MaxCkpts = 2
    CacheTokens = 12
    Scenarios <- Pinned
PROPERTY BusySlotIsLeftAlone
CHECK_DEADLOCK FALSE
