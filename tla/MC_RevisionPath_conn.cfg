CONSTANTS
    Nodes <- MCNodes2
    Kind <- MCKind2
    ID <- MCID2
    BaseDir <- MCBaseDir
SPECIFICATION Spec
INVARIANT LoadReturnsOwn
