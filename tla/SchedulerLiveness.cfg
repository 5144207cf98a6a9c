SPECIFICATION FairSpec
CONSTANTS
    u1 = u1
    u2 = u2
    n1 = n1
    c1 = c1
    c2 = c2
    Sources <- MCFirstSource
    Names <- MCOneName
    Home <- MCSameHome
    Interval <- MCOneInterval
    Initial <- MCNoSources
    Clients <- MCOneClient
    JobIds <- MCJobIds
    MaxStoreIds = 2
    BootOverlaps = TRUE
    OtherJobs = FALSE
PROPERTIES
    RefreshesRecur
