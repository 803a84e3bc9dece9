SPECIFICATION FairSpec
CONSTANTS
    c1 = c1
    c2 = c2
    c3 = c3
    n1 = n1
    n2 = n2
    t1 = t1
    t2 = t2
    Nodes = {n1, n2}
    Tags = {t1, t2}
    Wildcard = Wildcard
    Calls = {c1, c2}
    Requests <- BulkRequests
    MaxTime = 1
    Unsynced = TRUE
    Unknown = Unknown
    Pending = Pending
    Faulted = Faulted
    Faults = {"distributed", "publish", "expire"}
INVARIANTS
    TypeOK
PROPERTIES
    EveryCallEnds
