SPECIFICATION Spec
CONSTANTS
    p1 = p1
    p2 = p2
    r1 = r1
    r2 = r2
    w1 = w1
    w2 = w2
    Processes = {p1, p2}
    k1 = k1
    k2 = k2
    Keys = {k1, k2}
    Calls = {r1, w1, w2}
    Readers = {r1}
    Uses <- UsesOfCalls
    Home <- HomeOfCalls
    MaxEntries = 1
    MaxFaults = 1
INVARIANTS
    TypeOK
    MemoryBounded
    MemoryStalenessAccounted
    RedisStalenessAccounted
PROPERTIES
    CacheConverges
CHECK_DEADLOCK FALSE
