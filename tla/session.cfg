SPECIFICATION Spec

CONSTANTS
    QueueCap = 10
    MaxJoinTrials = 2
    NumRetry = 3
    MaxNbTrans = 2
    Downlinks <- Commands
    Outcomes = {"OK", "RESTRICTED"}
    SendTypes = {"UNCONFIRMED", "CONFIRMED"}
    AppCalls = {"otaa"}
    Patient = TRUE
    RadioFaults = {"crc_error"}
    NetworkAcks = TRUE
    Overrun = FALSE
    MaxMessages = 3
    MaxUplinks = 4

INVARIANTS
    TypeOK
    SessionConsistent
    TransmissionUnderway
    JoinUnderway
    NoOrphans
    ReportedOnce
    CountersUnique
    RxBufferFreed

PROPERTIES
    TransmissionUndisturbed
    DoneMeansAcknowledged
    AcknowledgementKept

CHECK_DEADLOCK FALSE
