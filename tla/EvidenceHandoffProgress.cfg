\* Progress and the bounded attempts of a projection under two processes, with enough
\* crashes to spend its attempts.
CONSTANTS
    p1 = p1
    p2 = p2
    p3 = p3
    r1 = r1
    r2 = r2
    i1 = i1
    w1 = w1
    w2 = w2
    Nobody = Nobody
    NoItem = NoItem
    Projections = {p1}
    Raws = {r1}
    Items = {i1}
    RawOf <- Revisions
    ItemOf <- OneIdentity
    Articles = {p1}
    Doubtful = {p1}
    Workers = {w1, w2}
    MaxAttempts = 2
    Limit = 1
    StaleAfter = 1
    RetryDelay = 1
    MaxDelay = 1
    MaxCrashes = 3
SPECIFICATION Spec
PROPERTIES EveryReadyProjectionEnds ImplementsBoundedWork
