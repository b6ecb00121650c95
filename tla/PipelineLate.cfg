\* No fault at all, but a live worker may outlast the stale timeout.
SPECIFICATION Spec
CONSTANTS
    Docs = {d1}
    Workers = {w1, w2}
    None = None
    NStages = 2
    MaxAttempts = 2
    SlowWorkers = TRUE
    MaxFaults = 0
    MaxResets = 0
    StaffActs = FALSE
INVARIANT FailedIsRetryable
CHECK_DEADLOCK FALSE
