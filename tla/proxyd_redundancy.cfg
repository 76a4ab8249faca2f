CONSTANTS
    Names = {"s1", "s2", "l1"}
    Deployments <- RepeatedFleet
    MaxNodes = 3
    MaxEndpoints = 2
    MaxHead = 1
    MaxFaults = 0
SPECIFICATION Spec
CHECK_DEADLOCK FALSE
INVARIANTS
    LackOfRedundancyIsReported
