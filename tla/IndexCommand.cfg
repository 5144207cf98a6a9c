SPECIFICATION CommandSpec
CONSTANTS
    s1 = s1
    s2 = s2
    c1 = c1
    NoStore = NoStore
    Jobs <- MCJobs
    Scopes <- MCScopes
    Stores <- MCStores
    Attachers <- MCClients
    JobWorkers = 1
    QueueCapacity = 1
    EventCapacity = 1
    MaxTerminal = 0
    Grace = 0
    MaxProgress = 0
    MaxTime = 0
    CallersMayLeave = TRUE
    MayShutDown = FALSE
    Transports = {"daemon", "embedded"}
    NetworkFails = TRUE
    MayRestart = TRUE
CHECK_DEADLOCK FALSE
INVARIANTS
    ReportsAreTrue
PROPERTIES
    CancelledRunningStops
    StoresFreed
    CommandsEnd
