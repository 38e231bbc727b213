\* Reconcilers that replay each other, a source that changes, deliveries that outlive
\* their claims; c2 is selected by the scan and refused for its text.
CONSTANTS
    c1 = c1
    c2 = c2
    r1 = r1
    r2 = r2
    d1 = d1
    d2 = d2
    Contents = {c1, c2}
    AfterCutover = {c1, c2}
    Displayable = {c1}
    Selected = {c1, c2}
    Reconcilers = {r1, r2}
    Deliverers = {d1, d2}
    Limit = 2
    MaxAttempts = 2
    StaleAfter = 1
    BackoffBase = 1
    BackoffCap = 1
    MaxBatch = 3
    MaxToggles = 1
    MaxCrashes = 1
    MaxLost = 0
SPECIFICATION Spec
SYMMETRY ProcessSymmetry
INVARIANTS OutboxIsSound SkipsNeedAToggle
PROPERTY OutcomeIsFinal
