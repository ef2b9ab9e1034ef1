SPECIFICATION Spec
CONSTANTS
    Sets <- MCSets
    Foreign <- MCForeign
    Altered <- MCAltered
INVARIANTS
    TypeOK
    RoundTrip
    WholeOrNothing
    Stable
PROPERTIES
    DecodeAdvances
CHECK_DEADLOCK FALSE
