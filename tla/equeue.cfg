SPECIFICATION Spec

CONSTANTS
    lora = lora
    radio = radio
    Tasks = {lora, radio}
    Dispatcher = lora
    Priority <- Urgency
    Cancellers = {lora}
    Breakers = {lora}
    SlabSize = 3
    Requests <- Posts
    DispatchFor <- Forever
    IdLimit = 255
    GenerationLimit = 256
    Kept = {1, 2, 3}
    MaxCalls = 3
    MaxBreaks = 1
    MaxTick = 1

INVARIANTS
    TypeOK
    OneOwner
    BackPointersLead
    NoCallLost
    NoLostWakeup

PROPERTIES
    ImplementsCallQueue

CHECK_DEADLOCK FALSE
