\* The slices of the program, one and several criteria, with a threshold that
\* is never hit (the default) and one that is hit all the time.
SPECIFICATION FairSpec
CONSTANTS
    Names = {"a", "f", "g", "y", "z"}
    BuiltInNames = {}
    Ids <- MCIds
    Parent <- MCParent
    Guard <- MCGuard
    Vertices <- MCVertices
    Edges <- MCEdges
    Calls <- MCCalls
    Definitions <- MCDefinitions
    CriteriaLists <- All
    Thresholds = {0, 75}
INVARIANTS
    ThresholdKeepsNodes
    SliceIsComplete
    SliceIsAsExpected
PROPERTY
    Terminates
\* the walk stops when it is done
CHECK_DEADLOCK FALSE
