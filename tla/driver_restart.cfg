SPECIFICATION Spec
CONSTANTS
    Procs = {p1, p2}
    Mappers = {p1}
    Killable = {p1}
INVARIANTS
    NoFault
CHECK_DEADLOCK FALSE
