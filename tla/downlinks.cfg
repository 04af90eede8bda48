SPECIFICATION FairSpec

CONSTANTS
    QueueCap = 10
    MaxJoinTrials = 2
    NumRetry = 2
    MaxNbTrans = 1
    Downlinks <- UplinkRequests
    Outcomes = {"OK", "RESTRICTED"}
    SendTypes = {"UNCONFIRMED", "CONFIRMED"}
    AppCalls = {"otaa"}
    Patient = TRUE
    RadioFaults = {"crc_error"}
    NetworkAcks = TRUE
    Overrun = FALSE
    MaxMessages = 2
    MaxUplinks = 4

INVARIANTS
    TransmissionUnderway
    CountersUnique

PROPERTIES
    DeliveredOnce
    AcknowledgementKept
    TransmissionEnds
    JoinEnds

CHECK_DEADLOCK FALSE
