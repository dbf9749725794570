SPECIFICATION Spec
CONSTANTS
    k1 = k1  k2 = k2
    Callers = {k1, k2}
INVARIANTS
    TypeOK
    WholeOrNothing
    FlushedOnReturn
    OneConnection
PROPERTIES
    EventuallyServes
    SignalEnds
    CallersReturn
