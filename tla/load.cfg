SPECIFICATION Spec
CONSTANTS
    None = None
    p1 = p1
    p2 = p2
    p3 = p3
    c1 = c1
    c2 = c2
    k1 = k1
    Player = {p1, p2, p3}
    Comp = {c1, c2}
    CompOrder <- MCCompOrder
    Rosters <- MCRosters
    FiguresOf <- MCFiguresOf
    ListedClubs <- MCListedClubs
    Markets <- MCMarkets
    Priors <- MCPriors
    MaxRetries = 2
    MaxRosterPages = 3
    PageSize = 1
    CheckpointEvery = 2
    Faults = {"miss", "key", "deadline", "kill"}
    MaxRuns = 2
    MaxMoves = 1
    Batch = 2
    MinMinutes = 30
    MaxLoads = 1
INVARIANTS
    IdsFollowRows
    FetchedIsLoaded
    RefusalsAreCounted
    FinishedIsReadable
CHECK_DEADLOCK FALSE
