\* Two revisions of one raw item, only the second of them a complete article, and another
\* raw item of the same identity, each with or without rows of the legacy write path.
CONSTANTS
    p1 = p1
    p2 = p2
    p3 = p3
    r1 = r1
    r2 = r2
    i1 = i1
    w1 = w1
    w2 = w2
    Nobody = Nobody
    NoItem = NoItem
    Projections = {p1, p2, p3}
    Raws = {r1, r2}
    Items = {i1}
    RawOf <- Revisions
    ItemOf <- OneIdentity
    Articles = {p2}
    Doubtful = {}
    Workers = {w1, w2}
    MaxAttempts = 1
    Limit = 2
    StaleAfter = 1
    RetryDelay = 1
    MaxDelay = 1
    MaxCrashes = 0
SPECIFICATION Spec
SYMMETRY WorkerSymmetry
INVARIANTS CanonicalLineage WorkerAgreesWithGuards
PROPERTIES FirstRowWins
