SPECIFICATION WildcardSpec
CONSTANTS
    c1 = c1
    c2 = c2
    c3 = c3
    n1 = n1
    n2 = n2
    t1 = t1
    t2 = t2
    Nodes = {n1, n2}
    Tags = {t1}
    Wildcard = Wildcard
    Calls = {c1, c2, c3}
    Requests <- WildcardRequests
    MaxTime = 2
    Unsynced = FALSE
    Unknown = Unknown
    Pending = Pending
    Faulted = Faulted
    Faults = {"publish"}
SYMMETRY Symmetry
INVARIANTS
    OnlyMarkedIsInvalid
    InvalidationHolds
    WildcardHolds
