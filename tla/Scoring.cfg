\* Three applications in three populations, two rule versions, any two changes of the
\* inputs, at any point of any run.
SPECIFICATION Spec
CONSTANTS
    a1 = a1
    a2 = a2
    a3 = a3
    Apps = {a1, a2, a3}
    None = None
    NotRunning = NotRunning
    Populations <- SomePopulations
    Configs <- ScaledVersions
    MaxChanges = 2
INVARIANTS SettledScores OneRowEach DeadlineCorroborated BothSidesFlagged ChecklistAgrees LinkNeedsTwo SerialsAreRuns
