CONSTANTS
    Nodes <- MCNodes
    Root = "env"
    Parent <- MCParent
    Fingerprints = {1, 666}
    ExternalIDs = {"i-1"}
    MaxPasses = 3
    MaxEdits = 2
    CreateFailPersists = FALSE

SPECIFICATION FairSpec

INVARIANT TaintRoundTrip
INVARIANT ParentBeforeChild
 
INVARIANT ActiveHasExternalID

PROPERTY PassCompletes

CHECK_DEADLOCK FALSE
