SPECIFICATION Spec
CONSTANTS
    u1 = u1
    u2 = u2
    w1 = w1
    w2 = w2
    p1 = p1
    p2 = p2
    p3 = p3
    n1 = n1
    n2 = n2
    n3 = n3
    User = {u1, u2}
    NoUser = NoUser
    Worker = {w1, w2}
    Player = {p1, p2, p3}
    NoPlayer = NoPlayer
    Name = {n1, n2, n3}
    NoName = NoName
    MaxLists = 1
    MaxEntries = 1
    MaxText = 1
    Ids = 3
    EntryIds = 3
    MaxRequests = 5
SYMMETRY Interchangeable
CHECK_DEADLOCK FALSE
INVARIANTS
    CeilingsHold
PROPERTIES
    NotesKeepAReview
