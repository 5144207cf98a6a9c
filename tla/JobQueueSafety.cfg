SPECIFICATION Spec
CONSTANTS
    s1 = s1
    s2 = s2
    a1 = a1
    NoStore = NoStore
    Jobs <- MCJobs3
    Stores <- MCStores2
    Attachers <- MCNoAttachers
    JobWorkers = 2
    QueueCapacity = 1
    EventCapacity = 1
    MaxTerminal = 0
    Grace = 0
    MaxProgress = 0
    MaxTime = 1
    CallersMayLeave = TRUE
    MayShutDown = TRUE
SYMMETRY StoreSymmetry
INVARIANTS
    OneTaskPerStore
    NonTerminalHasHandle
    CancelledPendingNeverRuns
    OutcomeIsReal
PROPERTIES
    ImplementsJobService
