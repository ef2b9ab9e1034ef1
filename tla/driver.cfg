SPECIFICATION Spec
CONSTANTS
    Procs = {p1, p2, p3, p4}
    Mappers = {p1, p2}
    Killable = {p1, p3}
INVARIANTS
    TypeOK
    PoolBalanced
    AllOrNothing
    MappedIsShared
    TornDown
    OrderlyNoFault
CHECK_DEADLOCK FALSE
