SPECIFICATION FairSpec

CONSTANTS
    QueueCap = 10
    MaxJoinTrials = 2
    NumRetry = 2
    MaxNbTrans = 1
    Downlinks <- Answers
    Outcomes = {"OK", "RESTRICTED"}
    SendTypes = {"UNCONFIRMED", "CONFIRMED"}
    AppCalls = {"otaa", "abp", "shutdown", "initialize", "stop_sending"}
    Patient = TRUE
    RadioFaults = {"crc_error"}
    NetworkAcks = TRUE
    Overrun = FALSE
    MaxMessages = 2
    MaxUplinks = 4

PROPERTIES
    ImplementsService
    AcknowledgementKept

CHECK_DEADLOCK FALSE
