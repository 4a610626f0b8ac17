SPECIFICATION Spec
CONSTANTS
    Users = {u1}
    Conns = {c1, c2}
    None = None
    MaxConnections = 2
    MaxFaults = 0
    MaxCrashes = 0
    MaxBroadcasts = 0
    MaxExpiries = 0
    Reconnects = FALSE
    SlotsMayExpire = FALSE
INVARIANTS
    CleanupAlwaysRuns
CHECK_DEADLOCK FALSE
