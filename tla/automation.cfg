SPECIFICATION Spec
CONSTANTS
    Comp = {c1, c2}
    MaxGen = 2
    MaxRoster = 1
    MaxRev = 9
    Faults = {"database", "roster", "refused_key", "deadline", "player", "save", "check", "promotion", "crash", "evict", "exclude"}
    MaxFaults = 2
    Operator = {}
SYMMETRY CompSymmetry
CHECK_DEADLOCK FALSE
INVARIANTS
    LedgerAgreesWithStatus
    AtMostOneLive
    CheckpointKeyIsFresh
PROPERTIES
    RevisionNeverRegresses
    ImplementsLifecycle
