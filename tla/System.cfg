SPECIFICATION SystemSpec
CONSTANTS
    Procs = {p1, p2}
    NoProc = NoProc
    Baseline = 4
    HeadVersion = 8
    Newest = 9
    Irreversible = {5, 7}
    Repeatable = {6}
    InitVersions = {0, 3, 4, 7, 8, 9}
    Alone = {"downgrade", "rebuild"}
    Remote = TRUE
    Clients = {c1, c2}
    StoreIds = {1, 2}
    SourceIds = {11, 12}
    StoreNames = {2, 9}
    DefaultName = 9
    Visibilities = {"private"}
    Places = {20}
    Scopes <- MCScopes
    PageSize = 1
    Stores = {1, 2}
    Writers = {w1, w2}
    Versions <- MCVersions
    Filtered = {1}
    Queries <- MCQueries
    MaxWrites = 1
    StartFactor = 1
    MaxFactor = 2
    LegK = 2
    RrfK = 2
    Similarity <- MCSimilarity
    Relevance <- MCRelevance
    Requests = {"r1", "r2"}
    Hosts = {"site", "mixed", "lan"}
    Literal = {"lan"}
    Addresses <- MCAddresses
    Asks <- MCAsks
    Hints <- MCHints
    Backoffs = {1, 2}
    MaxRetries = 2
    MaxRedirects = 1
    Burst = 1
    InlineCap = 2
    RetryBudget = 2
    CooldownCap = 2
    ParseCap = 3
    Documents <- MCDocuments
    Target = 4
    Overlap = 1
    WindowTurns = 3
    StrideTurns = 2
    Size <- MCSize
    Levels = {1, 2}
    MaxElements = 4
    MaxNesting = 4
    MaxPieces = 2
SYMMETRY Symmetry
CHECK_DEADLOCK FALSE
INVARIANTS
    VersionInLockstep ServingUndisturbed FirstRunSeeded
    StoresAccountedFor ScopeHolds ListingComplete
    IndexIsExact CitationsGrounded SearchFindsAll
    RetriesAreBounded PublicStaysPublic
    TextKept ChunksFit BlocksFaithful
PROPERTIES
    RemovalsStayInScope CooldownsHold
