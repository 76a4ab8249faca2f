CONSTANTS
    Chains = {0, 1, 2, 3}
    Names = {"two", "three"}
    Deployments <- MCDeployments
    MaxDeps = 2
    MaxFaults = 2
SPECIFICATION FairSpec
CHECK_DEADLOCK FALSE
INVARIANTS
    TypeOK
    DependenciesAreComplete
    WarnGateSound
    RefOrderAlarmIsReal
    QuietInteropIsSound
    ValidationAgreesWithInterop
PROPERTIES
    Termination
