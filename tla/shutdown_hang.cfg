SPECIFICATION LiveSpec
CONSTANTS
    SequenceModulus = 3
    Backends = {"mock"}
    AttachDevice = FALSE
    OutcomeIds = {3}
    HidKeycodes <- MCKeycodes
    ClientFrames <- MCStreamFrames
    RingSize = 2
    PopMax = 1
    ChanCap = 1
    NetCap = 1
    MaxFrames = 4
PROPERTIES
    SessionCloses
CHECK_DEADLOCK FALSE
