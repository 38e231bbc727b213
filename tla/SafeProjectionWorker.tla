------------------------ MODULE SafeProjectionWorker ------------------------
(***************************************************************************)
(* The validation of safe factual projections (safe_projection/worker.py). *)
(* Collection inserts PENDING rows; Celery runs process_batch on a beat, in *)
(* as many worker processes as take the task, and each batch recovers stale *)
(* claims, claims rows and validates them one transaction at a time.        *)
(*                                                                         *)
(* Time only matters through differences, so a time is kept as its age in   *)
(* ticks: a row's age is the time since updated_at, a batch's the time      *)
(* since the `now` it took when it started.  next_retry_at is either NULL   *)
(* or the updated_at of a RETRY row, so a RETRY row is due for a batch that *)
(* is not older than the row's update.  Ages are kept only while the code   *)
(* still compares them: of claimed and retried rows, and of batches that    *)
(* have not claimed yet.                                                    *)
(*                                                                         *)
(* Rows are taken in the order of timestamps that tie, then of random ids;  *)
(* the model leaves the choice of the `limit` rows open.                    *)
(***************************************************************************)
EXTENDS Naturals, FiniteSets

CONSTANTS
    Projections,  \* safe_fact_projections rows that collection inserts
    Workers,      \* processes that may run the task
    MaxAttempts,  \* SAFE_PROJECTION_MAX_ATTEMPTS
    Limit,        \* SAFE_PROJECTION_BATCH_LIMIT
    StaleAfter,   \* SAFE_PROJECTION_STALE_AFTER_SECONDS
    MaxDelay,     \* bound on the ticks from the start of a batch to its claim
    MaxCrashes    \* bound on the batches that die

ASSUME WorkerAssumption ==
    /\ {MaxAttempts, Limit, MaxDelay} \subseteq Nat \ {0}
    /\ {StaleAfter, MaxCrashes} \subseteq Nat

VARIABLES
    projection,   \* the rows, with whether their payload passes the contract
    batch,        \* where each worker's process_batch is
    crashes       \* batches that have died

vars == <<projection, batch, crashes>>

-----------------------------------------------------------------------------
ProcessingStatus == {"absent", "pending", "validating", "retry", "ready", "blocked"}

Row == [status : ProcessingStatus, valid : BOOLEAN, attempts : Nat, age : Nat]

NoRow == [status |-> "absent", valid |-> FALSE, attempts |-> 0, age |-> 0]

Batch == [pc : {"idle", "recover", "claim", "validate"}, age : Nat, claimed : SUBSET Projections]

NoBatch == [pc |-> "idle", age |-> 0, claimed |-> {}]

\* Every row and every batch has the type of what it models.
TypeOK ==
    /\ projection \in [Projections -> Row]
    /\ batch \in [Workers -> Batch]
    /\ crashes \in Nat

Init ==
    /\ projection = [p \in Projections |-> NoRow]
    /\ batch = [w \in Workers |-> NoBatch]
    /\ crashes = 0

InStatus(statuses) == {p \in Projections : projection[p].status \in statuses}

\* Any `limit` of the rows, or all if there are fewer.
Page(rows) ==
    {page \in SUBSET rows : Cardinality(page) = Limit \/ (Cardinality(rows) < Limit /\ page = rows)}

-----------------------------------------------------------------------------
\* _projection inserts a PENDING row.  Its payload was normalised by the contract
\* of that moment; the worker's contract may judge otherwise.
Insert(p, valid) ==
    /\ projection[p].status = "absent"
    /\ projection' = [projection EXCEPT ![p] = [NoRow EXCEPT !.status = "pending", !.valid = valid]]
    /\ UNCHANGED <<batch, crashes>>

\* The age beyond which nothing the code compares can change.
OldAge == StaleAfter + MaxDelay + 1

Older(age) == IF age < OldAge THEN age + 1 ELSE age

BeforeClaim == {"recover", "claim"}

Tick ==
    /\ \A w \in Workers : batch[w].pc \in BeforeClaim => batch[w].age < MaxDelay
    /\ projection' = [p \in Projections |->
                        IF projection[p].status \in {"validating", "retry"}
                        THEN [projection[p] EXCEPT !.age = Older(@)]
                        ELSE projection[p]]
    /\ batch' = [w \in Workers |->
                   IF batch[w].pc \in BeforeClaim THEN [batch[w] EXCEPT !.age = @ + 1] ELSE batch[w]]
    /\ UNCHANGED crashes

StartBatch(w) ==
    /\ batch[w].pc = "idle"
    /\ batch' = [batch EXCEPT ![w] = [NoBatch EXCEPT !.pc = "recover"]]
    /\ UNCHANGED <<projection, crashes>>

\* updated_at < now - stale_after
StaleRows(w) == {p \in InStatus({"validating"}) : projection[p].age > batch[w].age + StaleAfter}

\* Mutant of Recovered: the attempts are compared with > instead of >=.
Recovered_OffByOne(row, age) ==
    IF row.attempts > MaxAttempts
    THEN [row EXCEPT !.status = "blocked", !.age = 0]
    ELSE [row EXCEPT !.status = "retry", !.age = age]

\* A claim that went stale is retried, or blocked once its attempts are spent.
Recovered(row, age) ==
    IF row.attempts >= MaxAttempts
    THEN [row EXCEPT !.status = "blocked", !.age = 0]
    ELSE [row EXCEPT !.status = "retry", !.age = age]

RecoverStale(w) ==
    /\ batch[w].pc = "recover"
    /\ \E page \in Page(StaleRows(w)) :
          projection' = [p \in Projections |->
                           IF p \in page THEN Recovered(projection[p], batch[w].age)
                           ELSE projection[p]]
    /\ batch' = [batch EXCEPT ![w].pc = "claim"]
    /\ UNCHANGED crashes

\* Mutant of ClaimableRows: a row put back by the recovery is never claimed again.
ClaimableRows_PendingOnly(w) == InStatus({"pending"})

\* PENDING and RETRY rows whose next_retry_at is NULL or not after the batch's now.
ClaimableRows(w) ==
    InStatus({"pending"}) \cup {p \in InStatus({"retry"}) : projection[p].age >= batch[w].age}

Claimed(row, age) == [row EXCEPT !.status = "validating", !.attempts = @ + 1, !.age = age]

Claim(w) ==
    /\ batch[w].pc = "claim"
    /\ \E page \in Page(ClaimableRows(w)) :
          /\ projection' = [p \in Projections |->
                              IF p \in page THEN Claimed(projection[p], batch[w].age)
                              ELSE projection[p]]
          /\ batch' = [batch EXCEPT ![w] =
                         IF page = {} THEN NoBatch
                         ELSE [pc |-> "validate", age |-> 0, claimed |-> page]]
    /\ UNCHANGED crashes

\* Mutant of Validated: the status read under the row lock is not looked at.
Validated_AnyStatus(row) == [row EXCEPT !.status = IF row.valid THEN "ready" ELSE "blocked", !.age = 0]

\* A row that is no longer VALIDATING is left alone; the worker does not ask whose
\* claim it is.
Validated(row) ==
    IF row.status # "validating" THEN row
    ELSE [row EXCEPT !.status = IF row.valid THEN "ready" ELSE "blocked", !.age = 0]

ValidateOne(w, p) ==
    LET left == batch[w].claimed \ {p} IN
    /\ batch[w].pc = "validate"
    /\ p \in batch[w].claimed
    /\ projection' = [projection EXCEPT ![p] = Validated(@)]
    /\ batch' = [batch EXCEPT ![w] = IF left = {} THEN NoBatch ELSE [@ EXCEPT !.claimed = left]]
    /\ UNCHANGED crashes

\* The process dies, or a transaction raises and process_batch with it: what the
\* batch has claimed stays VALIDATING.
Crash(w) ==
    /\ crashes < MaxCrashes
    /\ batch[w].pc # "idle"
    /\ batch' = [batch EXCEPT ![w] = NoBatch]
    /\ crashes' = crashes + 1
    /\ UNCHANGED projection

ProcessBatch(w) == RecoverStale(w) \/ Claim(w) \/ \E p \in batch[w].claimed : ValidateOne(w, p)

Next ==
    \/ \E p \in Projections, valid \in BOOLEAN : Insert(p, valid)
    \/ Tick
    \/ \E w \in Workers : StartBatch(w) \/ ProcessBatch(w) \/ Crash(w)

\* Time passes, beat keeps sending the task to some worker, and a batch that does
\* not die goes on.
Fairness ==
    /\ WF_vars(Tick)
    /\ WF_vars(\E w \in Workers : StartBatch(w))
    /\ \A w \in Workers : WF_vars(ProcessBatch(w))

Spec == Init /\ [][Next]_vars /\ Fairness

-----------------------------------------------------------------------------
(* Properties.                                                             *)

\* Only a valid payload is READY, and a valid one is BLOCKED only once every
\* attempt has been spent on claims that went stale: no interleaving of slow
\* batches, crashes and the recovery blocks good data early.
VerdictIsSound ==
    \A p \in Projections :
        /\ projection[p].status = "ready" => projection[p].valid
        /\ projection[p].status = "blocked" /\ projection[p].valid =>
              projection[p].attempts = MaxAttempts

\* The worker implements bounded work: at most max_attempts claims of a row although
\* _claim never looks at attempt_count, and READY and BLOCKED are final although
\* late batches still hold the row.
Work == INSTANCE BoundedWork WITH
    Items <- Projections,
    state <- [p \in Projections |->
                CASE projection[p].status = "absent" -> "absent"
                  [] projection[p].status \in {"pending", "retry"} -> "waiting"
                  [] projection[p].status = "validating" -> "held"
                  [] projection[p].status = "ready" -> "done"
                  [] projection[p].status = "blocked" -> "given_up"],
    attempts <- [p \in Projections |-> projection[p].attempts]

ImplementsBoundedWork == Work!Spec

\* Every projection that collection inserts is READY or BLOCKED in the end, however
\* many batches die on the way.
EveryProjectionEnds ==
    \A p \in Projections :
        projection[p].status = "pending" ~> projection[p].status \in {"ready", "blocked"}

=============================================================================
