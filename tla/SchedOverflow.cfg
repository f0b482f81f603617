CONSTANTS
    a1 = a1
    a2 = a2
    b = b
    Req <- MCReq
    NSlots = 2
    NPages = 4
    Page = 2
    MaxCtx = 6
    Conv <- MCConv
    Prompt <- Longer
    Budget <- BudgetB
    Snap <- SnapB
    DecodeCap = 0
    Batch = 3
    BatchCap = 3
    LightRows = 2
    MaxLends = 1
    MaxCk = 2
    Draft = 2
    Cancellable = {a1}
    Leavers = {a1}
    Refusable = {b}
    Cut <- CutBoth
    Marked = {a1}
SPECIFICATION FairSpec
INVARIANTS
    SlotExclusive
    BoundToOwner
    OneLender
    QueuesAreTrue
    VictimHoldsNothing
    StateIsBacked
    LentRoundsFit
PROPERTIES
    ImplementsService
    LenderUndisturbed
    EarliestSurvives
    EveryRequestEnds
