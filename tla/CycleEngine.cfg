\* Two applications linked by two edges, two requests at once, two of what staff can
\* do and a crash; or a chain of three whose ends a rule compares across households,
\* where the reviewed edge, the trashed or the verified application is any of the
\* chain's.
SPECIFICATION Spec
CONSTANTS
    a1 = a1
    a2 = a2
    a3 = a3
    Apps = {a1, a2, a3}
    Handlers = {h1, h2}
    None = None
    LinkEdges <- ChainEdges
    Unconfirmed = {}
    Across <- Ends
    Budgets <- PairOrChain
SYMMETRY Requests
INVARIANTS SettledHouseholds EdgesHold SettledFlags
PROPERTIES NeverOlder
CHECK_DEADLOCK FALSE
