SPECIFICATION EndsFairSpec
CONSTANTS
    Handler = {"h1", "h2"}
    MaxRuns = 2
    MaxDeaths = 1
    MaxFails = 1
    Polls = 1
CHECK_DEADLOCK FALSE
INVARIANTS
    SupervisorIsSafe
PROPERTIES
    EveryRequestReturns
    EngineSettles
