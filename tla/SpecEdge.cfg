CONSTANTS
    Loop = "spec"
    Prompt = 2
    MaxTokens = 5
    MaxCtx = 7
    Gamma = 3
    MaxDraft = 4
    Chunk = 2
    Ring = 4
    Kinds <- OnePause
SPECIFICATION Spec
CHECK_DEADLOCK FALSE
INVARIANTS
    WithinContext
