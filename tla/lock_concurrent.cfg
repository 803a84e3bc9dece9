SPECIFICATION Spec
CONSTANTS
    a = a
    b = b
    c = c
    d = d
    Callers = {a, b, c}
    Flags <- DefaultFlags
    NoLock = NoLock
    NoValue = NoValue
    Initial = Initial
    FactoryThrows = TRUE
    MayCancel = FALSE
INVARIANTS
    NoConcurrentFactories
