SPECIFICATION Spec

CONSTANTS
    QueueCap = 3
    MaxJoinTrials = 1
    NumRetry = 1
    MaxNbTrans = 1
    Downlinks <- AnyFrame
    Outcomes = {"OK", "RESTRICTED"}
    SendTypes = {"CONFIRMED"}
    AppCalls = {"abp", "class_c", "shutdown", "stop_sending"}
    Patient = FALSE
    RadioFaults = {"tx_timeout"}
    NetworkAcks = FALSE
    Overrun = TRUE
    MaxMessages = 1
    MaxUplinks = 2

INVARIANTS
    
    SessionConsistent

CHECK_DEADLOCK FALSE
