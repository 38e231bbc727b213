\* Two notifications in one batch and two deliveries that end before their claim is stale.
CONSTANTS
    c1 = c1
    c2 = c2
    r1 = r1
    r2 = r2
    d1 = d1
    d2 = d2
    Contents = {c1, c2}
    AfterCutover = {c1, c2}
    Displayable = {c1, c2}
    Selected = {c1, c2}
    Reconcilers = {r1}
    Deliverers = {d1, d2}
    Limit = 2
    MaxAttempts = 2
    StaleAfter = 1
    BackoffBase = 1
    BackoffCap = 2
    MaxBatch = 1
    MaxToggles = 0
    MaxCrashes = 1
    MaxLost = 1
SPECIFICATION Spec
INVARIANT DuplicatesNeedAFault
PROPERTY EveryContentEnds
