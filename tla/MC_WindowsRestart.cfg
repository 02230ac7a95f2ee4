CONSTANTS
    MaxCancels = 2
    FlakyCheck = FALSE

SPECIFICATION FairSpec

INVARIANT TypeOK
INVARIANT PanicOnlyFromCancel
INVARIANT SuccessMeansRebooted

PROPERTY ProvisionReturns
PROPERTY WaiterExits

CHECK_DEADLOCK FALSE
