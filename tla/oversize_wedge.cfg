SPECIFICATION LiveSpec
CONSTANTS
    SequenceModulus = 3
    Backends = {"mock"}
    AttachDevice = FALSE
    OutcomeIds = {3}
    HidKeycodes <- MCKeycodes
    ClientFrames <- MCOversizeFrames
    RingSize = 4
    PopMax = 1
    ChanCap = 3
    NetCap = 2
    MaxFrames = 3
PROPERTIES
    EveryRequestAnswered
CHECK_DEADLOCK FALSE
