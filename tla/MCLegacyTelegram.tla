--------------------------- MODULE MCLegacyTelegram --------------------------
(* A small instance of the legacy Telegram cycles for TLC.                 *)
EXTENDS LegacyTelegram, TLC

CONSTANTS c1, c2, p1, i1, i2

OneProvider == <<p1>>

AllItems == p1 :> <<i1, i2>>

=============================================================================
