SPECIFICATION FairSpec
CONSTANTS
    Sources = {"blog"}
    Uris = {"p1", "p2"}
    Kind <- FeedKind
    Scope <- FeedScope
    MaxVersion = 1
    MaxFeedVersion = 2
    MaxPolicy = 0
    MaxFaults = 1
    BatchLimit = 2
    MayPrune = FALSE
    MayAbort = FALSE
    MayRemove = FALSE
    StatErrors = FALSE
PROPERTY CatchesUp
