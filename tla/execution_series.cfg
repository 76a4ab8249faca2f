CONSTANTS
    Branches <- MCBranches
    FieldValues <- MCFieldValues
    Absent = Absent
    Value <- MCValue
    TxCount <- MCTxCount
    Configs <- WindowConfigs
    Deployments <- HealthyPair
    MaxHead = 2
    Word = 8
    MaxFaults = 0
    MaxReorgs = 0
SPECIFICATION Spec
CHECK_DEADLOCK FALSE
INVARIANTS
    SeriesAreUnique
