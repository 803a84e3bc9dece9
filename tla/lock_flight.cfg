SPECIFICATION FairSpec
CONSTANTS
    a = a
    b = b
    c = c
    d = d
    Callers = {a, b, c, d}
    Flags <- DefaultFlags
    NoLock = NoLock
    NoValue = NoValue
    Initial = Initial
    FactoryThrows = FALSE
    MayCancel = TRUE
INVARIANTS
    TypeOK
    NoSemaphoreLeft
    RunsAgainOnlyAfterThrow
    SameAnswer
PROPERTIES
    FlightSpec
    EveryCallEnds
