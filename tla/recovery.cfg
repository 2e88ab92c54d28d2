SPECIFICATION AttendedSpec
CONSTANTS
    Comp = {c1, c2}
    MaxGen = 1
    MaxRoster = 1
    MaxRev = 20
    Faults = {"database", "torn", "refused_key", "player", "check", "save", "crash", "evict"}
    MaxFaults = 2
    Operator = {"abandon", "abandon_disk", "rollback"}
CHECK_DEADLOCK FALSE
INVARIANTS
    NoPartialUniversePublished
PROPERTIES
    LiveSettles
