CONSTANTS
    Branches <- MCBranches
    FieldValues <- MCFieldValues
    Absent = Absent
    Value <- MCValue
    TxCount <- MCTxCount
    Configs <- MixedConfigs
    Deployments <- MixedPairs
    MaxHead = 1
    Word = 8
    MaxFaults = 1
    MaxReorgs = 0
SPECIFICATION FairSpec
CHECK_DEADLOCK FALSE
INVARIANTS
    TypeOK
    DivergenceIsReal
    GateSound
PROPERTIES
    Termination
    DeadlineClosesGate
