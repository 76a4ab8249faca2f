CONSTANTS
    Names = {"s1", "s2", "l1"}
    Deployments <- MCDeployments
    MaxNodes = 3
    MaxHead = 2
    MaxFaults = 1
SPECIFICATION FairSpec
CHECK_DEADLOCK FALSE
INVARIANTS
    TypeOK
    ReportIsComplete
    WarnGateSound
    ValidationAgreesWithTopology
    FollowerSeriesAreUnique
PROPERTIES
    FollowerLagAlarmIsReal
    SafeLagAlarmIsReal
    SafeLagIsNotMissed
    Termination
