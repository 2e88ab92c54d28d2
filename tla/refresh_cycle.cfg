SPECIFICATION Spec
CONSTANTS
    Source = {footystats, transfermarkt}
    Generational = {footystats}
    MarketOnly = {transfermarkt}
    MaxRefresh = 4
    MaxChecks = 7
    Rows = {0, 2, 3, 4}
    InitialRows = 4
    Faults = {"check", "crash", "database"}
    MaxFaults = 2
    Operator = {}
    MaxCommands = 0
CHECK_DEADLOCK FALSE
INVARIANTS
    LedgerDescribesServing
    ShownChecksDescribeServing
    CandidateIsWaiting
PROPERTIES
    ImplementsPublishedDataset
