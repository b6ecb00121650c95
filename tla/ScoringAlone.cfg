\* The published rules, and three applications of which one nearly matches the others.
SPECIFICATION Spec
CONSTANTS
    a1 = a1
    a2 = a2
    a3 = a3
    Apps = {a1, a2, a3}
    None = None
    NotRunning = NotRunning
    Populations <- Fragments3
    Configs <- PublishedVersions
    MaxChanges = 1
INVARIANT PopulationRuleAlone
