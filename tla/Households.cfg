\* Every set of rejected edges and every order of the pairs, over four applications.
SPECIFICATION FairSpec
CONSTANTS
    a1 = a1
    a2 = a2
    a3 = a3
    a4 = a4
    Apps = {a1, a2, a3, a4}
    None = None
    MatchEdges <- Edges
INVARIANTS BucketsAreComponents
PROPERTIES CountsDown Returns
CHECK_DEADLOCK FALSE
