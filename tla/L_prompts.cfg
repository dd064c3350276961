\* Two slots with the server's reuse, cache and checkpoints in four configurations
SPECIFICATION Spec
CONSTANTS
    NSlots = 2
    NBatch = 3
    NUbatch = 2
    LastTokens = 1
    MinStep = 1
    MaxCkpts = 2
    CacheTokens = 12
    Scenarios <- AllScenarios
INVARIANTS ContextIsOwn SavedIsOwn NoAbort
PROPERTY ReplyEnds
CHECK_DEADLOCK FALSE
