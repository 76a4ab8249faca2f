CONSTANTS
    Branches <- MCBranches
    FieldValues <- MCFieldValues
    Absent = Absent
    Value <- MCValue
    TxCount <- MCTxCount
    Configs <- WindowConfigs
    Deployments <- HealthyPair
    MaxHead = 2
    Word = 8
    MaxFaults = 1
    MaxReorgs = 1
SPECIFICATION Spec
CHECK_DEADLOCK FALSE
INVARIANTS
    LoopInBounds
    GateSound
    HealthyPairPasses
    ExecutionAlertsAreHonest
PROPERTIES
    LagAlarmIsReal
    ImplementsMigrationGate
