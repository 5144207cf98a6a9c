SPECIFICATION Spec
CONSTANTS
    s1 = s1
    s2 = s2
    a1 = a1
    NoStore = NoStore
    Jobs <- MCJobs2
    Stores <- MCStores1
    Attachers <- MCNoAttachers
    JobWorkers = 1
    QueueCapacity = 1
    EventCapacity = 1
    MaxTerminal = 2
    Grace = 0
    MaxProgress = 0
    MaxTime = 0
    CallersMayLeave = TRUE
    MayShutDown = FALSE
INVARIANTS
    GuardMeansQueuedOrRunning
