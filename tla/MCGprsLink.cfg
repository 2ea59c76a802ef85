SPECIFICATION FairSpec
CONSTANTS
    SetSteps = 3
    Limit <- MCLimit
    LineSize = 3
INVARIANTS
    SuccessMeansOnline
    RegisteredFirst
    OneAckPerStep
    RetryBudget
PROPERTY ResetReturns
CHECK_DEADLOCK FALSE
