CONSTANTS
    Runs = {"r1", "r2"}
    Configs <- MCConfigs
    Fleets <- MCFleets
    Scenarios <- MCScenarios
    MaxFaults = 1
    EvalMinutes = 5
SPECIFICATION FairSpec
INVARIANTS
    TypeOK
    PublishedPageIsWhole
    OnlyKillsLitter
PROPERTIES
    LastingTroubleAlerts
    AlertsResolve
