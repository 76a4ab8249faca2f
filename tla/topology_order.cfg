CONSTANTS
    Names = {"s1", "s2", "l1"}
    Deployments <- MisorderedFleet
    MaxNodes = 3
    MaxHead = 2
    MaxFaults = 0
SPECIFICATION Spec
CHECK_DEADLOCK FALSE
PROPERTIES
    SafeLagAlarmIsAlwaysReal
