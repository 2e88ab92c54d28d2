SPECIFICATION Spec
CONSTANTS
    Source = {footystats, transfermarkt}
    Generational = {footystats}
    MarketOnly = {transfermarkt}
    MaxRefresh = 2
    MaxChecks = 3
    Rows = {2, 4}
    InitialRows = 4
    Faults = {"rerun", "check"}
    MaxFaults = 1
    Operator = {"rollback", "promote", "force", "abandon", "abandon_disk", "report"}
    MaxCommands = 3
CHECK_DEADLOCK FALSE
INVARIANTS
    PublishedOnce
    QualityFollowsLedger
PROPERTIES
    StatusFollowsLedger
