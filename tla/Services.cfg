SPECIFICATION Spec
CONSTANTS
    Call = {k1, k2}
    Leaf = {l1}
    MaxPerRun = 1
    MaxPerLeaf = 1
    MaxCorrections = 2
    MaxCrashes = 1
    Dialect = {"chat", "anthropic", "responses"}
    MaxIterations = 2
    Window = 3
    KeepFirst = 1
    KeepLast = 2
    MaxWorkers = 2
    MaxSlots = 2
    MaxSteers = 1
    Request = {r1, r2}
    Workers = 1
    Nobody = Nobody
    Depth = 1
    Pieces = 0
    Client = {c1, c2}
    Job = {"once", "interval", "cron"}
    Schedule <- TheSchedule
    MaxTime = 2
    MaxMoves = 4
    Person = {u1, u2}
    MaxLogins = 2
    MaxRotations = 1
    MaxFaults = 1
    Process = {p1}
    NoProcess = NoProcess
    Ttl = 1
    MaxFence = 3
    MaxSnaps = 0
    MaxAttempts = 1
    Requests = {"start"}
    Outcomes = {"quota"}
    Rival = {p1, p2}
    FewFences = 2
    LateSnaps = 1
    LateOutcomes = {"complete"}
    QueueLimit = 1
    MaxBuckets = 3
    LastTries = 2
    MaxOrder = 3
    Runs = 3
    MaxEvents = 2
    Limits = {1, 2}
    Retention = 1
    Days = 2
    MaxTaken = 1
    MaxAppends = 3
    PageSize = 1
    ToolServer = {"s1", "s2"}
    ToolName = {"n", "m", "b"}
    BuiltinName = {"b"}
    ToolListings = {{}, {"n"}, {"m"}, {"n", "b"}}
    Reach = {"s1"}
    MaxRefreshes = 2
INVARIANTS TypeOK SteersAreKept TurnsAreFaithful ToolsKeepTheirServer
    ProducersAreOwned JobsDoAsAsked
PROPERTIES LoginsAreShared AutoResumeCapped ImplementsLifecycle AuditTellsItsGaps
CHECK_DEADLOCK FALSE
