SPECIFICATION Spec
CONSTANTS
    None = None
    p1 = p1
    p2 = p2
    p3 = p3
    p4 = p4
    Player = {p1, p2, p3, p4}
    Metric = {"goals", "tackles", "accuracy"}
    LowerIsBetter = {"tackles"}
    Formula <- MCFormula
    Hundred = 2400
    MinPopulation = 2
    Established = 9
    Group = {"F", "M"}
    Score = {"threat", "defending"}
    Definition <- MCDefinition
    Role = {"striker", "presser"}
    Configured <- MCConfigured
    SecondaryFloor = 50
    MinRolePopulation = 2
    Features <- MCFeatures
    MinFeatures = 2
    MinFeatureCoverage = 50
    MinimumSimilarity = 50
    ComparableStrength = 60
    ProfileMetrics <- MCProfile
    LowSample = 2
    DevelopingSample = 5
    Counted <- MCCounted
    TeamContext = {"tackles"}
    PersonalGroups = {"M"}
    Universes <- MCUniverses
    Weighting <- MCWeighting
    Filter <- MCFilter
    Screen <- MCScreen
    Limit = 2
    MaxCompare = 3
CHECK_DEADLOCK FALSE
INVARIANTS
    ProseMatchesTheBar
