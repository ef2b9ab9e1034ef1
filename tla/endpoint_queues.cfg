SPECIFICATION Spec
CONSTANTS
    SequenceModulus = 3
    Keys = {1, 2, 3}
    Ids = {7, 8}
    MaxEnqueued = 5
INVARIANTS
    OrderMatchesWork
    Conservation
    FifoPerEndpoint
    BoundedBypass
CHECK_DEADLOCK TRUE
