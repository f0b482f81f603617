CONSTANTS
    a1 = a1
    a2 = a2
    b = b
    Req <- MCReq
    NSlots = 3
    NPages = 9
    Page = 2
    MaxCtx = 6
    Conv <- Apart
    Prompt <- Twos
    Budget <- Threes
    Snap <- NoRows
    DecodeCap = 0
    Batch = 2
    BatchCap = 2
    LightRows = 1
    MaxLends = 1
    MaxCk = 2
    Draft = 1
    Cancellable = {}
    Leavers = {}
    Refusable = {}
    Cut <- NoRows
    Marked = {}
SPECIFICATION FairSpec
INVARIANTS
    RollbackIsOwn
