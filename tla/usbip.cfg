SPECIFICATION LiveSpec
CONSTANTS
    Backends = {"mapped"}
    AttachDevice = TRUE
    HidKeycodes <- MCKeycodes
    Packets <- MCPackets
    NetCap = 1
    MaxPackets = 4
INVARIANTS
    TypeOK
    AttachmentReleased
    AnsweredInOrder
    ReportsInOrder
PROPERTIES
    SessionCloses
CHECK_DEADLOCK FALSE
