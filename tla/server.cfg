SPECIFICATION Spec
CONSTANTS
    h1 = h1
    m1 = m1
    m2 = m2
    alice = alice
    get = get
    create = create
    delete = delete
    None = None
    Unregistered = Unregistered
    Calls = {h1, m1, m2}
    Users = {alice}
    PkgIDs = {get, create, delete}
    Writes = {create, delete}
    Guarded = {get, create, delete}
    Validated = {get, create, delete}
    Main = main
    Auth = auth
    Dbs = {main, auth}
    SessionTask = kc_session_sync
    AuditTask = audit_worker
    Tasks = {kc_session_sync, audit_worker}
    Limit = 1
    FailMode = "open"
    FailMax = 2
    MaxRetries = 2
    MaxCalls = 2
    MaxFaults = 1
    Kind <- KindOfCalls
    User <- UserOfCalls
    Grants <- GrantsOfUsers
INVARIANTS
    TypeOK
    RefusalsJustified
    EffectsAdmitted
    TrailAccounted
    ShutdownComplete
PROPERTIES
    LifecycleEnds
CHECK_DEADLOCK FALSE
