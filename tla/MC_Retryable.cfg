CONSTANTS
    Kinds = {"ssh", "powershell"}
    Timeouts <- MCTimeouts
    DefaultTimeout = 300
    Sleep = 2
    MaxAttempt = 1
    MaxClock = 400
SPECIFICATION Spec
INVARIANT BoundedRetry
CHECK_DEADLOCK FALSE
