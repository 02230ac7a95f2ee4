CONSTANTS
    MaxCancels = 1
    FlakyCheck = FALSE

SPECIFICATION Spec

INVARIANT NoPanic

CHECK_DEADLOCK FALSE
