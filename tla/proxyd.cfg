CONSTANTS
    Names = {"s1", "s2", "l1"}
    Deployments <- MCDeployments
    MaxNodes = 3
    MaxEndpoints = 2
    MaxHead = 2
    MaxFaults = 1
SPECIFICATION FairSpec
CHECK_DEADLOCK FALSE
INVARIANTS
    TypeOK
    FailGateSound
    WarnGateSound
    ValidationAgreesWithProxyd
    ProxydAlertsAreHonest
    SlowBackendsAreReported
PROPERTIES
    ProxydLagIsNotMissed
    Termination
