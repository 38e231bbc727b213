\* A single-request target whose provider has nothing new.
CONSTANTS
    t1 = t1
    w1 = w1
    w2 = w2
    NoTarget = NoTarget
    NoWorker = NoWorker
    Targets = {t1}
    PagedTargets = {}
    Workers = {w1}
    MaxRuns = 2
    MaxRevision = 1
    MaxTime = 3
    MaxPosition = 1
    MaxQueued = 1
    MaxRequests = 1
    MaxPages = 1
    MaxRetries = 1
    Cadence = 1
    RetryDelays = {1}
    LockTtl = 2
    MarkerTtl = 3
    MaxRuntime = 1
    StaleAfter = 1
    EqualAccepted = TRUE
    Stalls = TRUE
SPECIFICATION Spec
PROPERTY EqualAnswerIsNoFailure
