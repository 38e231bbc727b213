\* A paged target whose workers renew their locks in time.
CONSTANTS
    t1 = t1
    w1 = w1
    w2 = w2
    NoTarget = NoTarget
    NoWorker = NoWorker
    Targets = {t1}
    PagedTargets = {t1}
    Workers = {w1, w2}
    MaxRuns = 2
    MaxRevision = 1
    MaxTime = 3
    MaxPosition = 1
    MaxQueued = 1
    MaxRequests = 2
    MaxPages = 2
    MaxRetries = 1
    Cadence = 1
    RetryDelays = {1}
    LockTtl = 2
    MarkerTtl = 2
    MaxRuntime = 2
    StaleAfter = 0
    EqualAccepted = TRUE
    Stalls = FALSE
SPECIFICATION Spec
SYMMETRY WorkerSymmetry
INVARIANT OneWorkerPerRun
PROPERTIES TerminalRunsStayTerminal CursorNeverRegresses FrozenWindowReused
