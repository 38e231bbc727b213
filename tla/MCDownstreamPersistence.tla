---------------------- MODULE MCDownstreamPersistence ----------------------
EXTENDS DownstreamWindows, BreadthPaging, TLC

CONSTANTS t1, t2, i1, i2, k1, k2, a, spaced, b, bad, acc, other

\* Both targets belong to one account of the source.
OneAccount == [t \in Targets |-> acc]

\* A spaced copy of the facts a normalizes to them, and bad breaks its contract.
Normalized == [p \in Payloads |-> IF p = bad THEN Invalid ELSE IF p = spaced THEN a ELSE p]

KeySymmetry == Permutations(Keys)

-----------------------------------------------------------------------------
(* The pages that are fetched have no state of their own either.           *)

\* The pages of a run cover what was listed in its window when it began, although the
\* listing grows between two requests.
PagesCover == NothingRun => PagesCoverTheListing

=============================================================================
