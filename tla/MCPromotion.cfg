SPECIFICATION FairSpec
CONSTANTS
    Processes = {p1, p2}
    Bundles = {b1, b2}
    Scores = {0, 1}
    Margin = 1
    Perishable = {"bundle", "replay"}
    MaxStops = 1
    MaxFaults = 1
    NoProcess = NoProcess
    NoBundle = NoBundle
    NoMetrics = NoMetrics
    NoChampion = NoChampion
INVARIANTS ChampionQualified DecisionTakesEffect ApprovedAgainstCurrent
PROPERTIES ChampionImproves LockIsFreed
CHECK_DEADLOCK FALSE
