SPECIFICATION Spec
CONSTANTS
    c1 = c1
    c2 = c2
    c3 = c3
    n1 = n1
    n2 = n2
    t1 = t1
    t2 = t2
    Nodes = {n1, n2}
    Tags = {t1}
    Wildcard = Wildcard
    Calls = {c1, c2, c3}
    Requests <- TagRequests
    MaxTime = 2
    Unsynced = TRUE
    Unknown = Unknown
    Pending = Pending
    Faulted = Faulted
    Faults = {"publish", "distributed"}
SYMMETRY Symmetry
INVARIANTS
    InvalidationHolds
    FailureStaysHome
