SPECIFICATION RepliesSpec
CONSTANTS
    Loop = "chain"
    Prompt = 2
    MaxTokens = 6
    MaxCtx = 8
    Gamma = 3
    MaxDraft = 4
    Chunk = 2
    Ring = 4
    Kinds <- AllWays
CHECK_DEADLOCK FALSE
INVARIANTS
    TextIsWhole
    CallsAreWhole
    StreamIsReply
    RequestIsOwn
    DraftsLeaveNoTrace
PROPERTIES
    FollowsProtocol
    ImplementsSerial
