CONSTANTS
    a1 = a1
    a2 = a2
    b = b
    Req <- MCReq
    NSlots = 2
    NPages = 4
    Page = 2
    MaxCtx = 6
    Conv <- MCConv
    Prompt <- MCPrompt
    Budget <- MCBudget
    Snap <- NoRows
    DecodeCap = 0
    Batch = 2
    BatchCap = 2
    LightRows = 1
    MaxLends = 1
    MaxCk = 2
    Draft = 0
    Cancellable = {}
    Leavers = {}
    Refusable = {b}
    Cut <- NoRows
    Marked = {}
SPECIFICATION FairSpec
INVARIANTS
    HistIsIngested
