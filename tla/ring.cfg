SPECIFICATION LiveSpec
CONSTANTS
    N = 9
    Base = 2
    Payloads <- MCPayloads
    MaxPop = 3
    MaxPush = 4
INVARIANTS
    TypeOK
    NoOverwrite
    FifoIntegrity
PROPERTIES
    RefinesQueue
    EveryFrameConsumed
CHECK_DEADLOCK TRUE
