---------------------------- MODULE BoundedWork ----------------------------
(***************************************************************************)
(* What the reconciling workers of this system promise for the rows they   *)
(* work through: a row that has arrived waits, is held by a worker for an   *)
(* attempt, and either ends, done or given up, or waits again.  It is       *)
(* attempted at most MaxAttempts times, and what has ended stays ended.     *)
(* A worker's transaction may move many rows at once, each by a legal step. *)
(***************************************************************************)
EXTENDS Naturals

CONSTANTS Items, MaxAttempts

VARIABLES state, attempts

vars == <<state, attempts>>

States == {"absent", "waiting", "held", "done", "given_up"}

Init ==
    /\ state = [i \in Items |-> "absent"]
    /\ attempts = [i \in Items |-> 0]

Moves(i, from, to) == state[i] = from /\ state'[i] = to

Keeps(i) == attempts'[i] = attempts[i]

Arrive(i) == Moves(i, "absent", "waiting") /\ Keeps(i)

Take(i) ==
    /\ Moves(i, "waiting", "held")
    /\ attempts[i] < MaxAttempts
    /\ attempts'[i] = attempts[i] + 1

\* Only a row with attempts left waits again.
PutBack(i) ==
    /\ Moves(i, "held", "waiting")
    /\ attempts[i] < MaxAttempts
    /\ Keeps(i)

Finish(i) == Moves(i, "held", "done") /\ Keeps(i)

GiveUp(i) == Moves(i, "held", "given_up") /\ Keeps(i)

Stays(i) == state'[i] = state[i] /\ Keeps(i)

Next ==
    /\ state' \in [Items -> States]
    /\ attempts' \in [Items -> Nat]
    /\ \A i \in Items :
          Arrive(i) \/ Take(i) \/ PutBack(i) \/ Finish(i) \/ GiveUp(i) \/ Stays(i)

Spec == Init /\ [][Next]_vars

=============================================================================
