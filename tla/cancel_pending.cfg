SPECIFICATION Spec
CONSTANTS
    SequenceModulus = 3
    Backends = {"mock"}
    AttachDevice = FALSE
    OutcomeIds = {3}
    HidKeycodes <- MCKeycodes
    ClientFrames <- MCCancelFrames
    RingSize = 2
    PopMax = 1
    ChanCap = 1
    NetCap = 1
    MaxFrames = 3
PROPERTIES
    CancelFindsPending
CHECK_DEADLOCK FALSE
