------------------------ MODULE MCNotificationOutbox ------------------------
EXTENDS NotificationOutbox, TLC

CONSTANTS c1, c2, r1, r2, d1, d2

ProcessSymmetry == Permutations(Reconcilers) \cup Permutations(Deliverers)

=============================================================================
