SPECIFICATION Spec

CONSTANTS
    MaxChannelCnt = 3
    DefaultChannelCnt = 1
    DefaultFrequency <- Region
    Frequencies = {1, 2, 3, 4}
    NbBands = 2
    BandOf <- BandTable
    DutyCycle <- DutyCycles
    JoinDutyCycle = 2
    MaxDatarate = 1
    DefaultMaxDatarate = 1
    CfListChannelCnt = 1
    AdrAckLimit = 1
    AdrAckDelay = 2
    MaxAge = 2
    BufferSize = 8
    MaxPayload <- Payloads
    Toa <- Airtimes
    Lengths = {9}
    Downlinks <- StickyCommands
    CfLists <- OneList
    Plans <- NoPlans
    LinkChecks = FALSE
    NetworkWaits = FALSE
    MaxJoinTrials = 2
    MaxConnects = 1
    MaxSends = 2

INVARIANTS
    RefusedForDatarateOnly

CHECK_DEADLOCK FALSE
