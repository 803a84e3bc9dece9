SPECIFICATION FairSpec
CONSTANTS
    Requests = {r1, r2}
    Loads <- FiveLoads
    Concurrency = 2
    MaxEntries = 2
    None = None
INVARIANTS
    TypeOK
    ListingAgrees
    CountersAddUp
    RegistrationsCounted
    NewestKept
PROPERTIES
    TrimmingEnds
CHECK_DEADLOCK FALSE
