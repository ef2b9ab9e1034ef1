SPECIFICATION SystemLive
CONSTANTS
    SequenceModulus = 3
    Backends = {"mock", "unmapped", "mapped"}
    AttachDevice = TRUE
    OutcomeIds = {8}
    HidKeycodes <- MCKeycodes
    ClientFrames <- MCClientFrames
    RingSize = 3
    PopMax = 2
    ChanCap = 2
    NetCap = 1
    MaxFrames = 12
    Limits <- MCLimits
    BulkPayloads = TRUE
    UrbSizes = {2, 3}
    Systems <- MCSystems
    TxCap = 2
    VhciCap = 1
    UpCap = 1
    MaxUrbs = 4
INVARIANTS
    ClientTypeOK
    DetachAfterAnswers
    FreshIds
    InjectedInOrder
    EnumerationAgrees
    PlannedPort
PROPERTIES
    RunEnds
    LossEndsBoth
CHECK_DEADLOCK FALSE
