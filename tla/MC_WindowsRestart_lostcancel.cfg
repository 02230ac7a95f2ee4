CONSTANTS
    MaxCancels = 1
    FlakyCheck = FALSE
SPECIFICATION Spec
PROPERTY CancelHonoured
CHECK_DEADLOCK FALSE
