SPECIFICATION Spec
CONSTANTS
    c1 = c1
    c2 = c2
    u1 = u1
    d1 = d1
    r1 = r1
    s1 = s1
    None = None
    Calls = {c1, c2, u1, d1, r1, s1}
    Names = {n1, n2, n3}
    InitialRows = 2
    InitialNames = {n1, n2}
    MaxId = 4
    Filters = {None, n1}
    PageSize = 3
    DefaultPageSize = 2
    MaxPageSize = 1
    MaxRequests = 2
    MaxFaults = 1
    Op <- OpOfCalls
    Via <- ViaOfCalls
INVARIANTS
    TypeOK
    NamesUniqueUnlessConcurrent
    StaleTotalAccounted
    ScanExactWhenSorted
    OffsetPagesPartition
PROPERTIES
    ImplementsAuthorApi
    TotalsConverge
    EveryCallEnds
CHECK_DEADLOCK FALSE
