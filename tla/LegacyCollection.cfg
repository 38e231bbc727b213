\* One account, two workers, one of which may stall and one die.
CONSTANTS
    t1 = t1
    w1 = w1
    w2 = w2
    NoTarget = NoTarget
    NoWorker = NoWorker
    Targets = {t1}
    Workers = {w1, w2}
    MaxRuns = 2
    MaxItems = 1
    MaxQueued = 1
    MaxFaults = 1
    MaxRetries = 1
    Schedule = 1
    MaxBackoff = 1
    LockTtl = 2
    RetryDelays = {0}
    Deadline = 1
    StaleAfter = 0
SPECIFICATION Spec
INVARIANTS StoredOnceUpToCursor
PROPERTIES OnlyRecoveredRunsAreRejudged LockKeptToTheEnd EveryRunEnds
