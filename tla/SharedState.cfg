SPECIFICATION SharedSpec
CONSTANTS
    Requests = {1, 2, 3}
    EngineSlots = 2
    ProbeMayFail = FALSE
    MaxCrashes = 2
CHECK_DEADLOCK FALSE
INVARIANTS
    LinkIsSafe
    SlotsAreSafe
    SnapIsSafe
    FilesAreSafe
PROPERTIES
    StoresKeep
    ImplementsGeneration
