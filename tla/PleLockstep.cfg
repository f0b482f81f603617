CONSTANTS
    a = a
    b = b
    Req = {a, b}
    Start <- AtZero
    Prompt <- Fours
    Rounds <- AtZero
    Batch = 2
    BatchCap = 2
    LightRows = 1
    NThread = 1
    NPump = 1
    MaxLends = 1
    Victims = {}
SPECIFICATION Spec
INVARIANT
    OwnRows
