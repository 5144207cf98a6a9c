SPECIFICATION Spec
CONSTANTS
    u1 = u1
    u2 = u2
    n1 = n1
    c1 = c1
    c2 = c2
    Sources <- MCSources
    Names <- MCOneName
    Home <- MCSameHome
    Interval <- MCIntervals
    Initial <- MCFirstSource
    Clients <- MCTwoClients
    JobIds <- MCJobIds
    MaxStoreIds = 2
    BootOverlaps = TRUE
    OtherJobs = FALSE
INVARIANTS
    RecordsMatchRows
