SPECIFICATION FairSpec
CONSTANTS
    Calls = {e1, e2, e3, e4}
    QueueMax = 2
    BatchSize = 2
    Backpressure = {e1, e2, e3}
    MaxFailures = 1
INVARIANTS
    TypeOK
    BoundsRespected
    AtMostOnce
    LossReported
PROPERTIES
    CallReturns
    EntrySettled
    ImplementsAuditLog
CHECK_DEADLOCK FALSE
