SPECIFICATION FairSpec
CONSTANTS
    Comp = {c1, c2}
    MaxGen = 1
    MaxRoster = 2
    MaxRev = 20
    Faults = {"database", "torn", "roster", "deadline", "player", "check", "promotion"}
    MaxFaults = 1
    Operator = {}
CHECK_DEADLOCK FALSE
INVARIANTS
    LiveIsRestorable
PROPERTIES
    LiveIsPublished
