CONSTANTS
    Runs = {"r1", "r2"}
    Configs <- MCConfigs
    Fleets <- MCFleets
    Scenarios <- FollowerScenarios
    MaxFaults = 1
    EvalMinutes = 5
SPECIFICATION FairSpec
PROPERTIES
    LaggingFollowerAlerts
