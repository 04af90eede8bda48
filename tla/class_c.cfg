SPECIFICATION FairSpec

CONSTANTS
    QueueCap = 10
    MaxJoinTrials = 2
    NumRetry = 2
    MaxNbTrans = 1
    Downlinks <- AcceptOnly
    Outcomes = {"OK", "RESTRICTED"}
    SendTypes = {"UNCONFIRMED", "CONFIRMED"}
    AppCalls = {"abp", "shutdown", "class_a", "class_c"}
    Patient = TRUE
    RadioFaults = {"crc_error"}
    NetworkAcks = TRUE
    Overrun = FALSE
    MaxMessages = 2
    MaxUplinks = 4

INVARIANTS
    ReportedOnce
    CountersUnique

PROPERTIES
    TransmissionEnds
    TransmissionUndisturbed

CHECK_DEADLOCK FALSE
