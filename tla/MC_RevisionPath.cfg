CONSTANTS
    Nodes <- MCNodes
    Kind <- MCKind
    ID <- MCID
    BaseDir <- MCBaseDir
SPECIFICATION Spec
INVARIANT LoadReturnsOwn
