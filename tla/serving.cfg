SPECIFICATION FairSpec
CONSTANTS
    t1 = t1
    t2 = t2
    Thread = {t1, t2}
    MaxDataset = 2
    MaxCheck = 3
    Faults = {"restart", "kill", "timeout", "report", "rollback"}
    MaxFaults = 1
CHECK_DEADLOCK FALSE
INVARIANTS
    UnreportedMeansCurrent
    ReloadTakesEffect
PROPERTIES
    ReadersCatchUp
