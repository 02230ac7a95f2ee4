CONSTANTS
    MaxCancels = 0
    FlakyCheck = TRUE

SPECIFICATION Spec

INVARIANT SuccessMeansRebooted

CHECK_DEADLOCK FALSE
