SPECIFICATION Spec
CONSTANTS
    s1 = s1
    s2 = s2
    a1 = a1
    NoStore = NoStore
    Jobs <- MCJobs2
    Stores <- MCStores2
    Attachers <- MCAttachers
    JobWorkers = 1
    QueueCapacity = 1
    EventCapacity = 1
    MaxTerminal = 1
    Grace = 1
    MaxProgress = 2
    MaxTime = 3
    CallersMayLeave = FALSE
    MayShutDown = TRUE
SYMMETRY StoreSymmetry
INVARIANTS
    TerminalStillAhead
    FrameIsFinal
PROPERTIES
    NotFoundOnlyAfterGrace
