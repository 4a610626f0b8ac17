SPECIFICATION Spec
CONSTANTS
    Requests = {r1, r2, r3, r4, r5}
    Limit = 3
    Burst = 2
    Window = 5
    Overlap = 2
    Latency = 1
    FailMode = "open"
    MaxTime = 11
    MaxFaults = 1
SYMMETRY RequestSymmetry
INVARIANTS
    TypeOK
    WithinLimit
    DenialJustified
    SetExpires
CHECK_DEADLOCK FALSE
