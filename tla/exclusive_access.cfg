SPECIFICATION Spec

CONSTANTS
    Network = "private"
    TxModems = {"LORA"}
    Windows <- AllWindows
    Prompt = TRUE
    Torn = TRUE
    MaxCalls = 4
    MaxFrames = 2

INVARIANTS
    ExclusiveAccess

CHECK_DEADLOCK FALSE
