CONSTANTS
    a1 = a1
    a2 = a2
    b = b
    Req <- MCReq
    NSlots = 3
    NPages = 5
    Page = 2
    MaxCtx = 6
    Conv <- MCConv
    Prompt <- MCPrompt
    Budget <- MCBudget
    Snap <- NoRows
    DecodeCap = 4
    Batch = 3
    BatchCap = 3
    LightRows = 2
    MaxLends = 1
    MaxCk = 2
    Draft = 1
    Cancellable = {a1}
    Leavers = {b}
    Refusable = {}
    Cut <- CutBoth
    Marked = {}
SPECIFICATION Spec
INVARIANTS
    ReservationHolds
    CutSetReleased
    RollbackIsOwn
