SPECIFICATION Spec
CONSTANTS
    Sources = {"notes", "site"}
    Uris = {"a.md", "b.md", "http"}
    Kind <- PathAndUrlKind
    Scope <- PathAndUrlScope
    MaxVersion = 1
    MaxFeedVersion = 1
    MaxPolicy = 0
    MaxFaults = 1
    BatchLimit = 1
    MayPrune = TRUE
    MayAbort = TRUE
    MayRemove = TRUE
    StatErrors = TRUE
INVARIANT RemovedStaysRemoved
INVARIANT SkipCheckGrounded
PROPERTY DeletesOnlyMissing
