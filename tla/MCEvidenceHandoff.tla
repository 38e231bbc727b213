------------------------- MODULE MCEvidenceHandoff -------------------------
EXTENDS EvidenceHandoff, TLC

CONSTANTS p1, p2, p3, r1, r2, i1, w1, w2

\* p1 and p2 are revisions of the raw item r1; p3 has the same identity, but is of r2.
Revisions == [p \in Projections |-> IF p = p3 THEN r2 ELSE r1]

OneIdentity == [p \in Projections |-> i1]

WorkerSymmetry == Permutations(Workers)

=============================================================================
