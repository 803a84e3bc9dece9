SPECIFICATION Spec
CONSTANTS
    a = a
    b = b
    c = c
    Nodes = {n1, n2}
    Calls = {a, b, c}
    Workloads <- WriteRemoveRead
    DistributedCacheExpiration = 2
    LocalCacheExpiration = 1
    Expirations = {3}
    MaxTime = 3
    MaxRestarts = 1
    None = None
    Unknown = Unknown
SYMMETRY NodeSymmetry
CHECK_DEADLOCK FALSE
INVARIANTS TypeOK InvalidatedIsNotServed SentinelOutlives
