\* A paged target the operator revises while workers may outlive their lock.
CONSTANTS
    t1 = t1
    w1 = w1
    w2 = w2
    NoTarget = NoTarget
    NoWorker = NoWorker
    Targets = {t1}
    PagedTargets = {t1}
    Workers = {w1, w2}
    MaxRuns = 2
    MaxRevision = 2
    MaxTime = 2
    MaxPosition = 0
    MaxQueued = 1
    MaxRequests = 1
    MaxPages = 1
    MaxRetries = 1
    Cadence = 1
    RetryDelays = {1}
    LockTtl = 1
    MarkerTtl = 1
    MaxRuntime = 1
    StaleAfter = 0
    EqualAccepted = TRUE
    Stalls = TRUE
SPECIFICATION Spec
SYMMETRY WorkerSymmetry
INVARIANTS TypeOK OneRunningPerTarget RequestBudget RunningIsCurrent ContinuationBound
