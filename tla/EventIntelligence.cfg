\* Two sessions that process, take out and move three evidence items.
CONSTANTS
    e1 = e1
    e2 = e2
    e3 = e3
    s1 = s1
    s2 = s2
    None = None
    Evidence = {e1, e2, e3}
    Facts <- MCFacts
    Canonical <- MCCanonical
    Fingerprint <- MCFingerprint
    Window = 1
    Sessions = {s1, s2}
    MaxCalls = 5
SPECIFICATION Spec
SYMMETRY SessionSymmetry
INVARIANTS CountsDescribeMembership OneActiveMembership MatchesAreExplained ReviewKeepsOrder
CHECK_DEADLOCK FALSE
