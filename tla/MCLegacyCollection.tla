------------------------- MODULE MCLegacyCollection -------------------------
(* A small instance of the legacy collection for TLC.                      *)
EXTENDS LegacyCollection, TLC

CONSTANTS t1, w1, w2

=============================================================================
