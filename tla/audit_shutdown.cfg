SPECIFICATION Spec
CONSTANTS
    Calls = {e1, e2}
    QueueMax = 2
    BatchSize = 2
    Backpressure = {}
    MaxFailures = 0
INVARIANTS
    ShutdownLosesNothing
CHECK_DEADLOCK FALSE
