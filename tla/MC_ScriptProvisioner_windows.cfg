CONSTANTS
    Kinds <- MCWindowsKinds
    MaxScripts = 2
SPECIFICATION Spec
INVARIANT SuccessMeansAllCompleted
CHECK_DEADLOCK FALSE
