\* Two rows claimed in pages of two, with as many crashes as it takes to
\* spend the attempts of a row.
CONSTANTS
    p1 = p1
    p2 = p2
    w1 = w1
    w2 = w2
    Projections = {p1, p2}
    Workers = {w1, w2}
    MaxAttempts = 2
    Limit = 2
    StaleAfter = 1
    MaxDelay = 1
    MaxCrashes = 2
SPECIFICATION Spec
INVARIANTS VerdictIsSound
PROPERTIES ImplementsBoundedWork EveryProjectionEnds
