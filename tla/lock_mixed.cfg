SPECIFICATION ComposedFairSpec
CONSTANTS
    a = a
    b = b
    c = c
    Callers = {a, b, c}
    Flags <- MixedFlags
    NoLock = NoLock
    NoValue = NoValue
    Initial = Initial
    FactoryThrows = TRUE
    MayCancel = TRUE
INVARIANTS
    ComposedTypeOK
    SemaphoreExcludes
    ReleaseFits
    StrandedBehindHolder
    NoDisposedIsListed
    NothingLeftListed
PROPERTIES
    EveryCallSettles
