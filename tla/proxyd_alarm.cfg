CONSTANTS
    Names = {"s1", "s2", "l1"}
    Deployments <- HealthyFleet
    MaxNodes = 3
    MaxEndpoints = 2
    MaxHead = 2
    MaxFaults = 0
SPECIFICATION Spec
CHECK_DEADLOCK FALSE
PROPERTIES
    ProxydLagAlarmIsReal
