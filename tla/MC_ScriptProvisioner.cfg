CONSTANTS
    Kinds <- MCAllKinds
    MaxScripts = 2
SPECIFICATION Spec
INVARIANTS TypeOK ExactlyOnce CleanOnSuccess
PROPERTY AbstractSpec
CHECK_DEADLOCK FALSE
