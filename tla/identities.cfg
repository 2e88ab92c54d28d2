SPECIFICATION Spec
CONSTANTS
    Perf = {f1, f2}
    Ident = {p1, p2}
    f1 = f1
    f2 = f2
    p1 = p1
    p2 = p2
    NoOne = NoOne
    Likeness <- MCLikeness
    MaxSurnameBlock = 400
    Season = {s1, s2}
    s1 = s1
    s2 = s2
    MaxCopy = 2
    MaxRefresh = 3
    MaxEdits = 2
SYMMETRY Interchangeable
CHECK_DEADLOCK FALSE
INVARIANTS
    SeasonsKept
    SeasonOncePerPlayer
    ValuationsOfOneLoad
    SeasonsFollowTheirMapping
PROPERTIES
    ConfirmedStays
