-------------------------- MODULE DownstreamWindows --------------------------
(***************************************************************************)
(* The windows that the runs of a target freeze before their pages reach    *)
(* the downstream.  They have no state of their own: what they promise is   *)
(* stated of the states before the first run.                              *)
(***************************************************************************)
EXTENDS DownstreamPersistence, BreadthWindows

NothingRun == begun = 0 /\ \A t \in Targets : current[t] = 0

\* The windows of successive runs of a target are valid, leave no gap between them and
\* reach back to items listed late.
WindowsAdjoin == NothingRun => ResolvedWindowIsValid /\ WindowsLeaveNoGap

=============================================================================
