SPECIFICATION Spec
CONSTANTS
    Users = {u1}
    Conns = {c1, c2, c3}
    None = None
    MaxConnections = 2
    MaxFaults = 1
    MaxCrashes = 1
    MaxBroadcasts = 1
    MaxExpiries = 1
    Reconnects = FALSE
    SlotsMayExpire = FALSE
SYMMETRY ConnSymmetry
INVARIANTS
    TypeOK
    SlotAccounted
    SlotHeld
    RegisteredConnectionLives
    SoleConnectionReachable
    LastingSessionAccounted
    OverrunBounded
CHECK_DEADLOCK FALSE
