SPECIFICATION FairSpec

CONSTANTS
    lora = lora
    radio = radio
    Tasks = {lora, radio}
    Dispatcher = lora
    Priority <- Urgency
    Cancellers = {lora}
    Breakers = {lora}
    SlabSize = 1
    Requests <- Timers
    DispatchFor <- Forever
    IdLimit = 255
    GenerationLimit = 256
    Kept = {}
    MaxCalls = 1
    MaxBreaks = 0
    MaxTick = 2

PROPERTIES
    PostedCallsRun

CHECK_DEADLOCK FALSE
