SPECIFICATION Spec
CONSTANTS
    Sources = {"blog"}
    Uris = {"p1", "p2"}
    Kind <- FeedKind
    Scope <- FeedScope
    MaxVersion = 1
    MaxFeedVersion = 2
    MaxPolicy = 1
    MaxFaults = 1
    BatchLimit = 1
    MayPrune = TRUE
    MayAbort = TRUE
    MayRemove = FALSE
    StatErrors = FALSE
INVARIANT CacheHidesNothing
PROPERTY TouchMeansVerified
PROPERTY DeletesOnlyAbsent
