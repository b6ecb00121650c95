\* One document, two slots: safety and, under fairness, liveness, after a fault and a
\* retry of a dead letter, with staff acting on the application meanwhile; a live
\* worker records its stage before the row goes stale.
SPECIFICATION FairSpec
CONSTANTS
    Docs = {d1}
    Workers = {w1, w2}
    None = None
    NStages = 2
    MaxAttempts = 2
    SlowWorkers = FALSE
    MaxFaults = 1
    MaxResets = 1
    StaffActs = TRUE
INVARIANTS SweepCovers ClaimExclusive FailedIsRetryable BudgetSuffices
PROPERTIES TerminalIsFinal StagesGoForward ChainImplemented NothingStuck
CHECK_DEADLOCK FALSE
