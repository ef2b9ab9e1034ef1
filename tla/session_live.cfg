SPECIFICATION LiveSpec
CONSTANTS
    SequenceModulus = 3
    Backends = {"mock"}
    AttachDevice = FALSE
    OutcomeIds = {3}
    HidKeycodes <- MCKeycodes
    ClientFrames <- MCStreamFrames
    RingSize = 4
    PopMax = 1
    ChanCap = 3
    NetCap = 1
    MaxFrames = 4
PROPERTIES
    EveryRequestAnswered
    SessionCloses
CHECK_DEADLOCK FALSE
