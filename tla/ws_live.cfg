SPECIFICATION FairSpec
CONSTANTS
    Users = {u1}
    Conns = {c1, c2}
    None = None
    MaxConnections = 2
    MaxFaults = 0
    MaxCrashes = 0
    MaxBroadcasts = 0
    MaxExpiries = 1
    Reconnects = TRUE
    SlotsMayExpire = TRUE
PROPERTIES
    HandshakeDecided
    SlotFreed
    ExpiryClosesSoleConnection
CHECK_DEADLOCK FALSE
