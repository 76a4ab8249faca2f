CONSTANTS
    Chains = {0, 1, 2, 3}
    Names = {"two", "three"}
    Deployments <- MaskedDeployments
    MaxDeps = 2
    MaxFaults = 2
SPECIFICATION Spec
CHECK_DEADLOCK FALSE
INVARIANTS
    RefOrderIsNotMissed
