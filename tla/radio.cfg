SPECIFICATION FairSpec

CONSTANTS
    Network = "private"
    TxModems = {"LORA", "FSK"}
    Windows <- AllWindows
    Prompt = TRUE
    Torn = FALSE
    MaxCalls = 4
    MaxFrames = 2

INVARIANTS
    TypeOK
    FramesIntact

PROPERTIES
    Configured
    ImplementsRadioService

CHECK_DEADLOCK FALSE
