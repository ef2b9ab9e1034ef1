SPECIFICATION Spec
CONSTANTS
    SequenceModulus = 3
    Backends = {"mock", "mapped", "unmapped"}
    AttachDevice = TRUE
    OutcomeIds = {3}
    HidKeycodes <- MCKeycodes
    ClientFrames <- MCAllFrames
    RingSize = 2
    PopMax = 1
    ChanCap = 2
    NetCap = 1
    MaxFrames = 4
INVARIANTS
    TypeOK
    AccountedOnce
    EchoOrder
    QueuesDrained
    AttachmentReleased
CHECK_DEADLOCK FALSE
