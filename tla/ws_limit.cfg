SPECIFICATION Spec
CONSTANTS
    Users = {u1}
    Conns = {c1, c2}
    None = None
    MaxConnections = 1
    MaxFaults = 0
    MaxCrashes = 0
    MaxBroadcasts = 0
    MaxExpiries = 0
    Reconnects = FALSE
    SlotsMayExpire = FALSE
INVARIANTS
    LimitEnforced
CHECK_DEADLOCK FALSE
