CONSTANTS
    IDs = {"state"}
    Types = {"s3"}
    KeyOrder <- MCKeyOrder
    Values <- MCValues
SPECIFICATION Spec
INVARIANT NoneOnlyWhenUnchanged
