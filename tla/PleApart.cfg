CONSTANTS
    a = a
    b = b
    Req = {a, b}
    Start <- Apart
    Prompt <- Sixes
    Rounds <- OneRow
    Batch = 2
    BatchCap = 2
    LightRows = 1
    NThread = 3
    NPump = 2
    MaxLends = 1
    Victims = {b}
SPECIFICATION FairSpec
INVARIANTS
    OwnRows
    FlightsAreSound
PROPERTIES
    JoinedBeforeSpawn
    EveryPromptEnds
