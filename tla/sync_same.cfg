SPECIFICATION ApartSpec
CONSTANTS
    c1 = c1
    c2 = c2
    c3 = c3
    n1 = n1
    n2 = n2
    n3 = n3
    k1 = k1
    k2 = k2
    Nodes = {n1, n2}
    Keys = {k1}
    Calls = {c1, c2}
    Requests <- WriteRequests
    Absent = Absent
    Initial = Initial
    Faults = {}
INVARIANTS
    AllL1SameAfterSync
