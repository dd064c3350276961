\* Two models, one may run: two HTTP threads with any two requests
SPECIFICATION Spec
CONSTANTS
    a = a
    b = b
    Models <- MCModels
    Handlers = {h1, h2}
    Requests <- AllRequests
    Autoload = {a}
    ModelsMax = 1
    MaxGen = 3
    MaxCrashes = 1
    MaxEdits = 1
    Editable = {a}
    NoOne = NoOne
INVARIANTS Capacity StatusTellsTruth
PROPERTIES UpdatesOwnEntry UnloadEnds WaitsEnd ShutdownEnds
CHECK_DEADLOCK FALSE
