----------------------- MODULE CollectionControlPlane -----------------------
(***************************************************************************)
(* The target-owned collection control plane: the scheduler that claims   *)
(* due targets, the Celery queue, the workers that execute a dispatch, the *)
(* stale-run recovery and the operator's target revisions                  *)
(* (collection/control_plane.py, collection/target_repository.py and the   *)
(* database guards of migrations 0006 and 0009).                           *)
(*                                                                         *)
(* Granularity.  Every database transaction and every Redis command that   *)
(* reads or writes shared state is one action, so processes interleave     *)
(* exactly where the code awaits.  A transaction that raises writes        *)
(* nothing, and its worker goes where the enclosing except clause sends it.*)
(*                                                                         *)
(* Abstractions.                                                           *)
(*  - Time is a clock that ticks once per scheduling slot; Redis TTLs,     *)
(*    cadence, retry delays and deadlines are whole numbers of ticks.      *)
(*    0 stands for NULL: no time, no run, no cursor value.                 *)
(*  - A cursor value is its rank in the order of CursorPosition.           *)
(*  - A resolved window is named by the run that resolved it, and a frozen *)
(*    operation config by the config_revision it was built from.           *)
(*  - A continuation's provider state is the number of pages behind it.    *)
(*  - The scheduler only creates run_mode "normal", so run_mode is left    *)
(*    out; Source and SourceAccount eligibility is folded into the target  *)
(*    status; all targets share one rate-limit group.                      *)
(*  - Health, failure counters, item counts and audit rows are left out:   *)
(*    nothing in the control plane reads them back.                        *)
(***************************************************************************)
EXTENDS Naturals, FiniteSets

CONSTANTS
    Targets,        \* collection_targets rows
    PagedTargets,   \* those with pagination_capability = "bounded_window_v1"
    Workers,        \* Celery worker slots that execute run_collection_target
    NoTarget,       \* the target of no dispatch
    NoWorker,       \* the owner of a lock nobody alive holds
    MaxRuns,        \* bound on collection_runs rows
    MaxRevision,    \* bound on config_revision
    MaxTime,        \* bound on the clock
    MaxPosition,    \* bound on cursor positions
    MaxQueued,      \* bound on dispatches claimed or queued at a time
    MaxRequests,    \* max_requests_per_run
    MaxPages,       \* max_pages_per_run
    MaxRetries,     \* the literal 3 in _finish_error
    Cadence,        \* cadence_seconds
    RetryDelays,    \* the delays a provider's Retry-After can lead to
    LockTtl,        \* max_runtime_seconds + 30
    MarkerTtl,      \* max(1800, cadence_seconds, max_runtime_seconds + 900)
    MaxRuntime,     \* max_runtime_seconds
    StaleAfter,     \* COLLECTION_STALE_RUN_AFTER_SECONDS
    EqualAccepted,  \* TRUE for the snapshot and compound cursor strategies
    Stalls          \* TRUE if a live worker may be too slow to renew its lock

ASSUME TargetsAssumption ==
    /\ PagedTargets \subseteq Targets
    /\ NoTarget \notin Targets
    /\ NoWorker \notin Workers

ASSUME BoundsAssumption ==
    /\ {MaxRuns, MaxRevision, MaxTime, MaxQueued, MaxRequests, MaxPages} \subseteq Nat \ {0}
    /\ {MaxPosition, MaxRetries, StaleAfter} \subseteq Nat
    /\ {Cadence, LockTtl, MarkerTtl, MaxRuntime} \subseteq Nat \ {0}
    /\ MaxRuntime <= LockTtl /\ LockTtl <= MarkerTtl /\ Cadence <= MarkerTtl
    /\ RetryDelays \subseteq Nat \ {0} /\ RetryDelays # {}
    /\ EqualAccepted \in BOOLEAN
    /\ Stalls \in BOOLEAN

VARIABLES
    now,        \* the clock
    target,     \* target rows: config_revision, status, next_due_at, next_retry_at
    runs,       \* run rows
    cursor,     \* the target-owned cursor row of each target
    lock,       \* Redis r1:target-lock:<target>
    markers,    \* Redis r1:dispatch:<task id>
    cooldown,   \* Redis r1:rate-limit:<group>: the time it expires
    due,        \* the due page claim_due has read and not yet gone through
    claimed,    \* dispatches claim_due returned and not yet enqueued
    queue,      \* the Celery queue
    pc,         \* where each worker is in execute
    job,        \* the dispatch and the run each worker is working on
    req,        \* the request each worker is building, with its cursor snapshot
    res         \* what the provider answered each worker

vars == <<now, target, runs, cursor, lock, markers, cooldown, due, claimed, queue,
          pc, job, req, res>>

-----------------------------------------------------------------------------
NULL == 0

RunIds == 1..MaxRuns

TargetStatus == {"draft", "paused", "active", "blocked", "retired"}

RunStatus == {"absent", "running", "partial", "succeeded", "failed"}

Positions == 0..MaxPosition

\* TargetDispatch: its identity is target:revision:slot, where a retry's slot
\* is its due time and a regular slot is the current cadence slot.
Dispatch == [target : Targets, rev : Nat, retry : BOOLEAN, at : Nat]

\* A row of the due page; at is the slot its dispatch will have.
DueTarget == [target : Targets, retry : BOOLEAN, at : Nat]

NoDispatch == [target |-> NoTarget, rev |-> 0, retry |-> FALSE, at |-> 0]

NoRun == [d |-> NoDispatch, status |-> "absent", started |-> NULL, window |-> NULL,
          cfg |-> NULL, requests |-> 0, pages |-> 0, retries |-> 0]

NoContinuation == [pending |-> FALSE, run |-> NULL, rev |-> 0, window |-> NULL, page |-> 0]

FreeLock == [owner |-> NoWorker, until |-> NULL]

NoJob == [d |-> NoDispatch, run |-> NULL]

\* row and snap: the cursor row the worker read; cur, page: request.cursor and
\* request.continuation; index: the loop variable of _execute_pages.
NoRequest == [row |-> FALSE, snap |-> NULL, cur |-> NULL, page |-> 0, index |-> 0]

\* The answer, then what the end of the execution is told: whether the error is
\* retryable, and whether a failure of that end is caught, which it is when it is
\* called inside the try block of execute.
NoResult ==
    [next |-> NULL, more |-> FALSE, incomplete |-> FALSE, retryable |-> FALSE, caught |-> FALSE]

PCs == {"idle", "lock", "prepare", "start", "resolve", "load_page", "budget", "fetch",
        "check_lock", "persist", "finish_error", "finish_lock_lost", "release"}

TargetRow == [rev : Nat, status : TargetStatus, due : Nat, retry : Nat]

Run == [d : Dispatch \cup {NoDispatch}, status : RunStatus, started : Nat, window : Nat,
        cfg : Nat, requests : Nat, pages : Nat, retries : Nat]

Continuation == [pending : BOOLEAN, run : Nat, rev : Nat, window : Nat, page : Nat]

CursorRow == [row : BOOLEAN, value : Nat, cont : Continuation]

Lock == [owner : Workers \cup {NoWorker}, until : Nat]

Job == [d : Dispatch \cup {NoDispatch}, run : RunIds \cup {NULL}]

Request == [row : BOOLEAN, snap : Nat, cur : Nat, page : Nat, index : Nat]

Result == [next : Nat, more : BOOLEAN, incomplete : BOOLEAN, retryable : BOOLEAN, caught : BOOLEAN]

\* Every variable has the type of the column, key or local variable it models.
TypeOK ==
    /\ now \in Nat
    /\ target \in [Targets -> TargetRow]
    /\ runs \in [RunIds -> Run]
    /\ cursor \in [Targets -> CursorRow]
    /\ lock \in [Targets -> Lock]
    /\ markers \subseteq [id : Dispatch, until : Nat]
    /\ cooldown \in Nat
    /\ due \subseteq DueTarget
    /\ claimed \subseteq Dispatch
    /\ queue \subseteq Dispatch
    /\ pc \in [Workers -> PCs]
    /\ job \in [Workers -> Job]
    /\ req \in [Workers -> Request]
    /\ res \in [Workers -> Result]

Init ==
    /\ now = 1
    /\ target = [t \in Targets |-> [rev |-> 1, status |-> "active", due |-> 1, retry |-> NULL]]
    /\ runs = [r \in RunIds |-> NoRun]
    /\ cursor = [t \in Targets |-> [row |-> FALSE, value |-> NULL, cont |-> NoContinuation]]
    /\ lock = [t \in Targets |-> FreeLock]
    /\ markers = {}
    /\ cooldown = NULL
    /\ due = {}
    /\ claimed = {}
    /\ queue = {}
    /\ pc = [w \in Workers |-> "idle"]
    /\ job = [w \in Workers |-> NoJob]
    /\ req = [w \in Workers |-> NoRequest]
    /\ res = [w \in Workers |-> NoResult]

-----------------------------------------------------------------------------
(* Queries.                                                                *)

\* The runs of target t that hold its partial unique index entry.
RunningRuns(t) == {r \in RunIds : runs[r].status = "running" /\ runs[r].d.target = t}

\* load_for_execution: the exact revision, and an eligible target.
LoadOk(t, rev) == target[t].rev = rev /\ target[t].status = "active"

\* coalesce(next_retry_at, next_due_at)
EffectiveDue(t) == IF target[t].retry # NULL THEN target[t].retry ELSE target[t].due

Held(t) == lock[t].until # NULL

Owns(w) == lock[job[w].d.target].owner = w

\* Mutant of UniqueRunning: the partial unique index is missing.
UniqueRunning_NoIndex(r, t, status) == status \in RunStatus

\* uq_collection_runs_running_target_mode: run r may take this status.
UniqueRunning(r, t, status) == status = "running" => RunningRuns(t) \subseteq {r}

\* decide_cursor on the ranks of the current and the proposed position.
DecideCursor(current, candidate) ==
    CASE candidate = NULL -> "unchanged"
      [] candidate # NULL /\ (current = NULL \/ candidate > current) -> "advance"
      [] candidate # NULL /\ candidate = current /\ EqualAccepted -> "no_new_items"
      [] OTHER -> "invalid"

PagesPerRun == IF MaxPages < MaxRequests THEN MaxPages ELSE MaxRequests

\* The target's next cadence slot, with the retry gate cleared.
NextCadence(t) == [target[t] EXCEPT !.retry = NULL, !.due = now + Cadence]

-----------------------------------------------------------------------------
(* The clock.  Redis drops the keys whose TTL has run out.  Without stalls *)
(* no lock of a live worker runs out, because its renewal task has run in  *)
(* time, and the scheduler is through with its page.                       *)

Expired(t) == IF lock[t].until <= now + 1 THEN FreeLock ELSE lock[t]

Timely == due = {} /\ \A t \in Targets : lock[t].owner # NoWorker => lock[t].until > now + 1

Tick ==
    /\ now < MaxTime
    /\ Stalls \/ Timely
    /\ now' = now + 1
    /\ lock' = [t \in Targets |-> Expired(t)]
    /\ markers' = {m \in markers : m.until > now + 1}
    /\ cooldown' = IF cooldown <= now + 1 THEN NULL ELSE cooldown
    /\ UNCHANGED <<target, runs, cursor, due, claimed, queue, pc, job, req, res>>

-----------------------------------------------------------------------------
(* The scheduler: TargetScheduler and the dispatch task around it.         *)

\* due_page: the active targets whose effective due time has come.  The slot of a
\* retry is its due time, that of a regular dispatch the time of the page.
DuePage ==
    /\ due = {}
    /\ Cardinality(claimed \cup queue) < MaxQueued
    /\ due' = {[target |-> t, retry |-> target[t].retry # NULL,
                at |-> IF target[t].retry # NULL THEN target[t].retry ELSE now] :
               t \in {u \in Targets : target[u].status = "active" /\ EffectiveDue(u) <= now}}
    /\ due' # {}
    /\ UNCHANGED <<now, target, runs, cursor, lock, markers, cooldown, claimed, queue,
                   pc, job, req, res>>

\* The dispatch of a page row carries the revision the target has by then.
DispatchOf(e) == [target |-> e.target, rev |-> target[e.target].rev, retry |-> e.retry, at |-> e.at]

\* claim_due takes one row of the page.  The target must still be eligible, though
\* perhaps no longer due, and the SET NX of the marker claims its slot.
ClaimDue(e) ==
    /\ Cardinality(claimed \cup queue) < MaxQueued
    /\ due' = due \ {e}
    /\ IF target[e.target].status = "active" /\ \A m \in markers : m.id # DispatchOf(e)
       THEN /\ markers' = markers \cup {[id |-> DispatchOf(e), until |-> now + MarkerTtl]}
            /\ claimed' = claimed \cup {DispatchOf(e)}
       ELSE UNCHANGED <<markers, claimed>>
    /\ UNCHANGED <<now, target, runs, cursor, lock, cooldown, queue, pc, job, req, res>>

Enqueue(d) ==
    /\ d \in claimed
    /\ claimed' = claimed \ {d}
    /\ queue' = queue \cup {d}
    /\ UNCHANGED <<now, target, runs, cursor, lock, markers, cooldown, due, pc, job, req, res>>

\* apply_async raised: release this marker only; the rest of the batch is
\* dropped with its markers in place.
EnqueueFails(d) ==
    /\ d \in claimed
    /\ claimed' = {}
    /\ markers' = {m \in markers : m.id # d}
    /\ UNCHANGED <<now, target, runs, cursor, lock, cooldown, due, queue, pc, job, req, res>>

\* The dispatch task dies between claiming and enqueueing.
SchedulerCrash ==
    /\ due # {} \/ claimed # {}
    /\ due' = {}
    /\ claimed' = {}
    /\ UNCHANGED <<now, target, runs, cursor, lock, markers, cooldown, queue, pc, job, req, res>>

-----------------------------------------------------------------------------
(* The worker: CollectionControlPlaneWorker.execute.                       *)

Goto(w, step) == pc' = [pc EXCEPT ![w] = step]

\* An error leads to _finish_error, called inside the try block or, for what it
\* raises, by an except clause.
Fail(w, retryable, caught) ==
    /\ Goto(w, "finish_error")
    /\ res' = [res EXCEPT ![w] = [NoResult EXCEPT !.retryable = retryable, !.caught = caught]]

Raise(w, retryable) == Fail(w, retryable, FALSE)

\* A lost lock leads to _finish_lock_lost.
LoseLock(w, caught) ==
    /\ Goto(w, "finish_lock_lost")
    /\ res' = [res EXCEPT ![w] = [NoResult EXCEPT !.caught = caught]]

\* A return from the try block: all that is left is the finally clause.
Return(w) ==
    /\ Goto(w, "release")
    /\ job' = [job EXCEPT ![w].run = NULL]
    /\ req' = [req EXCEPT ![w] = NoRequest]
    /\ res' = [res EXCEPT ![w] = NoResult]

Forget(w) ==
    /\ Goto(w, "idle")
    /\ job' = [job EXCEPT ![w] = NoJob]
    /\ req' = [req EXCEPT ![w] = NoRequest]
    /\ res' = [res EXCEPT ![w] = NoResult]

\* A task is acknowledged when it is taken.  A stale or ineligible target and a
\* rate-limit cooldown end it with nothing written.
TakeTask(w, d) ==
    /\ pc[w] = "idle"
    /\ d \in queue
    /\ queue' = queue \ {d}
    /\ IF LoadOk(d.target, d.rev) /\ cooldown = NULL
       THEN Goto(w, "lock") /\ job' = [job EXCEPT ![w] = [d |-> d, run |-> NULL]]
       ELSE UNCHANGED <<pc, job>>
    /\ UNCHANGED <<now, target, runs, cursor, lock, markers, cooldown, due, claimed, req, res>>

\* Mutant of AcquireLock: SET EX without NX.
AcquireLock_NotExclusive(w) ==
    /\ pc[w] = "lock"
    /\ lock' = [lock EXCEPT ![job[w].d.target] = [owner |-> w, until |-> now + LockTtl]]
    /\ Goto(w, "prepare")
    /\ UNCHANGED <<now, target, runs, cursor, markers, cooldown, due, claimed, queue, job, req, res>>

\* SET NX EX of the target lock; "target_lock_unavailable" ends the task.
AcquireLock(w) ==
    LET t == job[w].d.target IN
    /\ pc[w] = "lock"
    /\ IF Held(t)
       THEN Forget(w) /\ UNCHANGED lock
       ELSE /\ lock' = [lock EXCEPT ![t] = [owner |-> w, until |-> now + LockTtl]]
            /\ Goto(w, "prepare")
            /\ UNCHANGED <<job, req, res>>
    /\ UNCHANGED <<now, target, runs, cursor, markers, cooldown, due, claimed, queue>>

\* _renew_lock by compare-and-expire.
RenewLock(w) ==
    LET t == job[w].d.target IN
    /\ pc[w] \notin {"idle", "lock"}
    /\ Owns(w)
    /\ lock[t].until < now + LockTtl
    /\ lock' = [lock EXCEPT ![t].until = now + LockTtl]
    /\ UNCHANGED <<now, target, runs, cursor, markers, cooldown, due, claimed, queue, pc, job, req, res>>

\* The reloads under the lock and the credential between them.
Prepare(w) ==
    LET t == job[w].d.target IN
    /\ pc[w] = "prepare"
    /\ \/ /\ LoadOk(t, job[w].d.rev)
          /\ Goto(w, "start")
          /\ UNCHANGED <<job, req, res>>
          /\ UNCHANGED target
       \/ /\ ~LoadOk(t, job[w].d.rev)
          /\ Return(w)
          /\ UNCHANGED target
       \/ /\ LoadOk(t, job[w].d.rev)           \* _mark_credential_missing
          /\ target' = [target EXCEPT ![t] = NextCadence(t)]
          /\ Return(w)
    /\ UNCHANGED <<now, runs, cursor, lock, markers, cooldown, due, claimed, queue>>

\* What _start_run returns: the run and the cursor row as it is now.
Started(w, r) ==
    LET t == job[w].d.target IN
    /\ job' = [job EXCEPT ![w].run = r]
    /\ req' = [req EXCEPT ![w] = [NoRequest EXCEPT !.row = cursor[t].row,
                                                   !.snap = cursor[t].value,
                                                   !.cur = cursor[t].value]]
    /\ Goto(w, IF t \in PagedTargets THEN "resolve" ELSE "fetch")

StartRunStale(w) ==
    /\ pc[w] = "start"
    /\ target[job[w].d.target].rev # job[w].d.rev
    /\ Return(w)
    /\ UNCHANGED <<now, target, runs, cursor, lock, markers, cooldown, due, claimed, queue>>

\* A RUNNING run of the target is adopted, whatever dispatch created it.
StartRunAdopt(w) ==
    /\ pc[w] = "start"
    /\ target[job[w].d.target].rev = job[w].d.rev
    /\ \E r \in RunningRuns(job[w].d.target) : Started(w, r)
    /\ UNCHANGED <<now, target, runs, cursor, lock, markers, cooldown, due, claimed, queue, res>>

StartRunCreate(w) ==
    /\ pc[w] = "start"
    /\ target[job[w].d.target].rev = job[w].d.rev
    /\ RunningRuns(job[w].d.target) = {}
    /\ \E r \in RunIds :
          /\ \A q \in RunIds : runs[q].status = "absent" <=> q >= r
          /\ runs' = [runs EXCEPT ![r] = [NoRun EXCEPT !.d = job[w].d, !.status = "running",
                                                       !.started = now]]
          /\ Started(w, r)
    /\ UNCHANGED <<now, target, cursor, lock, markers, cooldown, due, claimed, queue, res>>

\* The window _resolved_run_config settles on: the run's own, else the one of
\* the pending continuation, else one resolved from the run's start.
WindowOf(r, t) ==
    IF runs[r].window # NULL THEN runs[r].window
    ELSE IF cursor[t].cont.pending THEN cursor[t].cont.window
    ELSE r

\* decode_continuation: its lineage revision and its window must be the run's.
DecodeOk(w, r, t) ==
    cursor[t].cont.pending =>
        /\ cursor[t].cont.rev = job[w].d.rev
        /\ cursor[t].cont.window = WindowOf(r, t)

\* m2_run_window_guard: a window is frozen once, by a RUNNING run, before its
\* first request.
WindowGuard(r) == runs[r].window = NULL => runs[r].status = "running" /\ runs[r].requests = 0

\* Mutant of ContinuationGuard: the lineage revision is not compared.
ContinuationGuard_AnyLineage(t, rev, status) ==
    status \in {"running", "partial", "failed"} /\ rev <= target[t].rev

\* m2_continuation_guard: the lineage is the current revision's and the bound
\* run has not succeeded.
ContinuationGuard(t, rev, status) ==
    /\ rev = target[t].rev
    /\ status \in {"running", "partial", "failed"}

\* Mutant of Bound: every execution starts from an empty continuation.
Bound_Restarted(w, r, t) ==
    [pending |-> TRUE, run |-> r, rev |-> job[w].d.rev, window |-> WindowOf(r, t), page |-> 0]

\* The continuation as _resolved_run_config leaves it: bound to this run.
Bound(w, r, t) ==
    IF cursor[t].cont.pending THEN [cursor[t].cont EXCEPT !.run = r]
    ELSE [pending |-> TRUE, run |-> r, rev |-> job[w].d.rev, window |-> WindowOf(r, t), page |-> 0]

ResolvedRunConfig(w) ==
    LET r == job[w].run
        t == job[w].d.target
        decoded == DecodeOk(w, r, t) /\ runs[r].cfg \in {NULL, job[w].d.rev}
        accepted == /\ WindowGuard(r)
                    /\ Bound(w, r, t) # cursor[t].cont =>
                          ContinuationGuard(t, Bound(w, r, t).rev, runs[r].status)
    IN
    /\ pc[w] = "resolve"
    /\ \/ /\ decoded
          /\ accepted
          /\ runs' = [runs EXCEPT ![r].window = WindowOf(r, t), ![r].cfg = job[w].d.rev]
          /\ cursor' = [cursor EXCEPT ![t].row = TRUE, ![t].cont = Bound(w, r, t)]
          /\ req' = [req EXCEPT ![w].page = Bound(w, r, t).page]
          /\ Goto(w, "load_page")
          /\ UNCHANGED res
       \/ /\ ~decoded
          /\ Raise(w, FALSE)
          /\ UNCHANGED <<runs, cursor, req>>
       \/ /\ decoded
          /\ ~accepted
          /\ Raise(w, TRUE)
          /\ UNCHANGED <<runs, cursor, req>>
    /\ UNCHANGED <<now, target, lock, markers, cooldown, due, claimed, queue, job>>

\* The top of the page loop: reread the cursor row (after the first page) and
\* reload the target.
LoadPage(w) ==
    LET t == job[w].d.target IN
    /\ pc[w] = "load_page"
    /\ IF LoadOk(t, job[w].d.rev)
       THEN /\ req' = IF req[w].index = 0 THEN req
                      ELSE [req EXCEPT ![w].row = cursor[t].row, ![w].snap = cursor[t].value]
            /\ Goto(w, "budget")
            /\ UNCHANGED res
       ELSE Raise(w, FALSE) /\ UNCHANGED req
    /\ UNCHANGED <<now, target, runs, cursor, lock, markers, cooldown, due, claimed, queue, job>>

\* Mutant of BudgetSpent: off by one.
BudgetSpent_OffByOne(r) == runs[r].requests > MaxRequests \/ runs[r].pages > MaxPages

\* The run has used its requests or its pages.
BudgetSpent(r) == runs[r].requests >= MaxRequests \/ runs[r].pages >= MaxPages

\* The budget transaction: a spent budget ends the run PARTIAL, otherwise the
\* request is counted before it is sent; then the run's deadline is checked.
Budget(w) ==
    LET r == job[w].run
        t == job[w].d.target
    IN
    /\ pc[w] = "budget"
    /\ IF BudgetSpent(r)
       THEN /\ runs' = [runs EXCEPT ![r].status = "partial"]
            /\ target' = [target EXCEPT ![t] = NextCadence(t)]
            /\ Return(w)
       ELSE /\ runs' = [runs EXCEPT ![r].requests = @ + 1]
            /\ UNCHANGED <<target, job, req>>
            /\ IF runs[r].started + MaxRuntime <= now
               THEN Fail(w, FALSE, TRUE)
               ELSE Goto(w, "fetch") /\ UNCHANGED res
    /\ UNCHANGED <<now, cursor, lock, markers, cooldown, due, claimed, queue>>

\* What an adapter may answer.  A breadth adapter never returns less than the
\* cursor it was given, and ends an exhausted listing as incomplete coverage.
Results(w) ==
    {x \in [next : Positions, more : BOOLEAN, incomplete : BOOLEAN, retryable : {FALSE}, caught : {FALSE}] :
        IF job[w].d.target \in PagedTargets
        THEN x.next >= req[w].cur /\ ~(x.more /\ x.incomplete)
        ELSE ~x.incomplete}

FetchResult(w) ==
    /\ pc[w] = "fetch"
    /\ \E x \in Results(w) : res' = [res EXCEPT ![w] = x]
    /\ Goto(w, "check_lock")
    /\ UNCHANGED <<now, target, runs, cursor, lock, markers, cooldown, due, claimed, queue, job, req>>

\* A timeout is retryable for a single fetch and not in the page loop; a provider
\* error says itself whether it is, and a rate limit starts the group's cooldown.
FetchFails(w) ==
    /\ pc[w] = "fetch"
    /\ \/ Fail(w, job[w].d.target \notin PagedTargets, TRUE) /\ UNCHANGED cooldown
       \/ \E retryable \in BOOLEAN : Fail(w, retryable, TRUE) /\ UNCHANGED cooldown
       \/ \E delay \in RetryDelays : Fail(w, TRUE, TRUE) /\ cooldown' = now + delay
    /\ UNCHANGED <<now, target, runs, cursor, lock, markers, due, claimed, queue, job, req>>

\* _fetch_with_lock: the renewal task found the lock gone before the answer came.
FetchLockLost(w) ==
    /\ pc[w] = "fetch"
    /\ ~Owns(w)
    /\ LoseLock(w, TRUE)
    /\ UNCHANGED <<now, target, runs, cursor, lock, markers, cooldown, due, claimed, queue, job, req>>

\* The last check of the lock before the transaction that persists the answer: the
\* page loop raises TargetLockLost, a single fetch ends the run where it is.
CheckLockLost(w) ==
    /\ pc[w] = "check_lock"
    /\ ~Owns(w)
    /\ LoseLock(w, job[w].d.target \notin PagedTargets)
    /\ UNCHANGED <<now, target, runs, cursor, lock, markers, cooldown, due, claimed, queue, job, req>>

\* The lock is still ours.  A single fetch compares the answer with its cursor here.
\* "no_new_items" is meant to blank the answer, but replace() keeps the factual
\* projections, which every adapter with a cursor returns: __post_init__ raises on the
\* count.  A refused cursor ends the run inside the try block.
CheckLockOwned(w) ==
    LET single == job[w].d.target \notin PagedTargets
        decision == DecideCursor(req[w].snap, res[w].next)
    IN
    /\ pc[w] = "check_lock"
    /\ Owns(w)
    /\ IF single /\ decision \in {"invalid", "no_new_items"}
       THEN Fail(w, FALSE, decision = "invalid")
       ELSE Goto(w, "persist") /\ UNCHANGED res
    /\ UNCHANGED <<now, target, runs, cursor, lock, markers, cooldown, due, claimed, queue, job, req>>

\* The page loop rejects an answer of another contract, or one that has more
\* without a new continuation; persist_fetch_result rejects conflicting rows.
AnswerInvalid(w) ==
    /\ \/ pc[w] = "check_lock" /\ job[w].d.target \in PagedTargets
       \/ pc[w] = "persist"
    /\ Raise(w, FALSE)
    /\ UNCHANGED <<now, target, runs, cursor, lock, markers, cooldown, due, claimed, queue, job, req>>
-----------------------------------------------------------------------------
(* _persist_result.                                                        *)

Final(w) ==
    \/ job[w].d.target \notin PagedTargets
    \/ res[w].incomplete
    \/ ~res[w].more
    \/ req[w].index + 1 = PagesPerRun

PersistStatus(w) ==
    IF ~Final(w) THEN "running"
    ELSE IF res[w].more \/ res[w].incomplete THEN "partial"
    ELSE "succeeded"

\* Whether the cursor row is written at all, and whether its value is.
WritesCursor(w) ==
    job[w].d.target \in PagedTargets \/ res[w].next # NULL \/ res[w].more

WritesValue(w) == job[w].d.target \in PagedTargets \/ ~res[w].more

\* target_cursor_stale, or decide_cursor refuses the value.
CursorRefused(w) ==
    LET c == cursor[job[w].d.target] IN
    /\ WritesCursor(w)
    /\ \/ c.row /\ req[w].row /\ c.value # req[w].snap
       \/ WritesValue(w) /\ DecideCursor(c.value, res[w].next) = "invalid"

\* The continuation the answer leaves behind.  A single fetch that has more only
\* records that its coverage is incomplete, and binds no run to it.
NextContinuation(w) ==
    LET r == job[w].run IN
    IF ~res[w].more THEN NoContinuation
    ELSE IF job[w].d.target \in PagedTargets
    THEN [pending |-> TRUE, run |-> r, rev |-> job[w].d.rev, window |-> runs[r].window,
          page |-> req[w].page + 1]
    ELSE [NoContinuation EXCEPT !.pending = TRUE]

\* Mutant of NextCursor: completion clears the position with the continuation.
NextCursor_ClearsValue(w) ==
    IF ~WritesCursor(w) THEN cursor[job[w].d.target]
    ELSE [row |-> TRUE, value |-> IF res[w].more THEN res[w].next ELSE NULL,
          cont |-> NextContinuation(w)]

NextCursor(w) ==
    LET c == cursor[job[w].d.target] IN
    IF ~WritesCursor(w) THEN c
    ELSE [row |-> TRUE, value |-> IF WritesValue(w) THEN res[w].next ELSE c.value,
          cont |-> NextContinuation(w)]

Persisted(w) ==
    LET r == job[w].run
        t == job[w].d.target
        paged == t \in PagedTargets
    IN
    /\ runs' = [runs EXCEPT ![r].status = PersistStatus(w),
                            ![r].pages = IF paged THEN @ + 1 ELSE @]
    /\ target' = [target EXCEPT ![t] = NextCadence(t)]
    /\ cursor' = [cursor EXCEPT ![t] = NextCursor(w)]

PersistResult(w) ==
    LET r == job[w].run
        t == job[w].d.target
    IN
    /\ pc[w] = "persist"
    /\ target[t].rev = job[w].d.rev
    /\ ~CursorRefused(w)
    /\ UniqueRunning(r, t, PersistStatus(w))
    /\ Persisted(w)
    /\ IF Final(w)
       THEN Return(w)
       ELSE /\ Goto(w, "load_page")
            /\ req' = [req EXCEPT ![w].cur = res[w].next, ![w].page = @ + 1, ![w].index = @ + 1]
            /\ res' = [res EXCEPT ![w] = NoResult]
            /\ UNCHANGED job
    /\ UNCHANGED <<now, lock, markers, cooldown, due, claimed, queue>>

\* A stale revision or a refused cursor raises a ValueError.
PersistRefused(w) ==
    /\ pc[w] = "persist"
    /\ \/ target[job[w].d.target].rev # job[w].d.rev
       \/ CursorRefused(w) /\ UniqueRunning(job[w].run, job[w].d.target, PersistStatus(w))
    /\ Raise(w, FALSE)
    /\ UNCHANGED <<now, target, runs, cursor, lock, markers, cooldown, due, claimed, queue, job, req>>

-----------------------------------------------------------------------------
(* The ends of an execution.                                               *)

\* Mutant of RunFailed: a status of another enumeration.
RunFailed_WrongEnum(r) == [runs EXCEPT ![r].status = "blocked"]

RunFailed(r) == [runs EXCEPT ![r].status = "failed"]

\* Mutant of FinishError: the revision is not compared.
FinishError_AnyRevision(w) ==
    LET r == job[w].run
        t == job[w].d.target
        willRetry == res[w].retryable /\ runs[r].retries < MaxRetries
    IN
    /\ pc[w] = "finish_error"
    /\ UniqueRunning(r, t, IF willRetry THEN "running" ELSE "failed")
    /\ runs' = IF willRetry THEN [runs EXCEPT ![r].status = "running", ![r].retries = @ + 1]
               ELSE RunFailed(r)
    /\ target' = [target EXCEPT ![t] = NextCadence(t)]
    /\ Return(w)
    /\ UNCHANGED <<now, cursor, lock, markers, cooldown, due, claimed, queue>>

\* _finish_error.  A stale revision only closes the run.  Otherwise a retryable
\* error within the retry bound keeps the run RUNNING and sets the retry gate;
\* the run's present status is not looked at.
FinishError(w) ==
    LET r == job[w].run
        t == job[w].d.target
        stale == target[t].rev # job[w].d.rev
        willRetry == res[w].retryable /\ runs[r].retries < MaxRetries
    IN
    /\ pc[w] = "finish_error"
    /\ \/ /\ stale
          /\ runs' = RunFailed(r)
          /\ UNCHANGED target
       \/ /\ ~stale
          /\ ~willRetry
          /\ runs' = RunFailed(r)
          /\ target' = [target EXCEPT ![t] = NextCadence(t)]
       \/ /\ ~stale
          /\ willRetry
          /\ UniqueRunning(r, t, "running")
          /\ runs' = [runs EXCEPT ![r].status = "running", ![r].retries = @ + 1]
          /\ \E delay \in RetryDelays : target' = [target EXCEPT ![t].retry = now + delay]
    /\ Return(w)
    /\ UNCHANGED <<now, cursor, lock, markers, cooldown, due, claimed, queue>>

\* _finish_lock_lost: the run fails whatever its status; unless the revision is
\* stale the target retries.
FinishLockLost(w) ==
    LET r == job[w].run
        t == job[w].d.target
    IN
    /\ pc[w] = "finish_lock_lost"
    /\ runs' = RunFailed(r)
    /\ IF target[t].rev # job[w].d.rev
       THEN UNCHANGED target
       ELSE \E delay \in RetryDelays : target' = [target EXCEPT ![t].retry = now + delay]
    /\ Return(w)
    /\ UNCHANGED <<now, cursor, lock, markers, cooldown, due, claimed, queue>>

\* Whether a failure now is caught with a run to finish: in the transactions of the
\* try block, the ends it calls included, and not in those of its except clauses.
CaughtWithRun(w) ==
    \/ pc[w] \in {"resolve", "load_page", "budget", "persist"}
    \/ pc[w] \in {"finish_error", "finish_lock_lost"} /\ res[w].caught

\* A transaction fails: before there is a run the task ends, afterwards a retryable
\* _finish_error follows, and a failure of an except clause escapes execute.  This is
\* also where _persist_result goes when its autoflush hits the partial unique index.
DatabaseFails(w) ==
    /\ pc[w] \in {"prepare", "start", "resolve", "load_page", "budget", "persist",
                  "finish_error", "finish_lock_lost"}
    /\ \/ ~CaughtWithRun(w)
          /\ Return(w)
       \/ CaughtWithRun(w)
          /\ Raise(w, TRUE)
          /\ UNCHANGED <<job, req>>
    /\ UNCHANGED <<now, target, runs, cursor, lock, markers, cooldown, due, claimed, queue>>

\* The finally clause: compare-and-delete of the lock.
Release(w) ==
    LET t == job[w].d.target IN
    /\ pc[w] = "release"
    /\ lock' = IF Owns(w) THEN [lock EXCEPT ![t] = FreeLock] ELSE lock
    /\ Forget(w)
    /\ UNCHANGED <<now, target, runs, cursor, markers, cooldown, due, claimed, queue>>

\* The worker process dies.  Its lock stays until it expires and its task is lost.
WorkerCrash(w) ==
    LET t == job[w].d.target IN
    /\ pc[w] # "idle"
    /\ lock' = IF Owns(w) THEN [lock EXCEPT ![t].owner = NoWorker] ELSE lock
    /\ Forget(w)
    /\ UNCHANGED <<now, target, runs, cursor, markers, cooldown, due, claimed, queue>>

-----------------------------------------------------------------------------
(* recover_stale_target_runs and the operator's TargetRepository calls.     *)

Stale(r) == runs[r].started + StaleAfter < now

\* Mutant of RecoverStale: the owner lock is not looked at.
RecoverStale_IgnoresLock(r) ==
    /\ runs[r].status = "running"
    /\ Stale(r)
    /\ \A m \in markers : m.id # runs[r].d
    /\ runs' = RunFailed(r)
    /\ \E delay \in RetryDelays :
          target' = [target EXCEPT ![runs[r].d.target].retry = now + delay]
    /\ UNCHANGED <<now, cursor, lock, markers, cooldown, due, claimed, queue, pc, job, req, res>>

\* A RUNNING run that started long ago fails, unless its target lock or the marker
\* of the dispatch that created it is still there; the target is retried.
RecoverStale(r) ==
    LET t == runs[r].d.target IN
    /\ runs[r].status = "running"
    /\ Stale(r)
    /\ ~Held(t)
    /\ \A m \in markers : m.id # runs[r].d
    /\ runs' = RunFailed(r)
    /\ \E delay \in RetryDelays : target' = [target EXCEPT ![t].retry = now + delay]
    /\ UNCHANGED <<now, cursor, lock, markers, cooldown, due, claimed, queue, pc, job, req, res>>

Transitions(status) ==
    CASE status = "draft"   -> {"paused", "blocked"}
      [] status = "paused"  -> {"active", "blocked", "retired"}
      [] status = "active"  -> {"paused", "blocked", "retired"}
      [] status = "blocked" -> {"paused", "retired"}
      [] status = "retired" -> {}

\* revise: a compare-and-swap on config_revision, refused while a run is RUNNING
\* or a continuation is pending.
Revise(t, status) ==
    /\ target[t].rev < MaxRevision
    /\ RunningRuns(t) = {}
    /\ ~cursor[t].cont.pending
    /\ status \in {target[t].status} \cup Transitions(target[t].status)
    /\ target' = [target EXCEPT ![t] = [rev |-> target[t].rev + 1, status |-> status,
                                        due |-> now, retry |-> NULL]]
    /\ UNCHANGED <<now, runs, cursor, lock, markers, cooldown, due, claimed, queue, pc, job, req, res>>

\* pause_for_continuation_abandon keeps the revision, so that the lineage of the
\* pending continuation stays current.
PauseForContinuationAbandon(t) ==
    /\ RunningRuns(t) = {}
    /\ target[t].status = "active"
    /\ target' = [target EXCEPT ![t].status = "paused", ![t].retry = NULL]
    /\ UNCHANGED <<now, runs, cursor, lock, markers, cooldown, due, claimed, queue, pc, job, req, res>>

\* abandon_pending_continuations with a token that is still current; the token
\* of a continuation needs a bound run.
AbandonPendingContinuations(t) ==
    /\ cursor[t].cont.pending
    /\ cursor[t].cont.run # NULL
    /\ RunningRuns(t) = {}
    /\ target[t].status = "paused"
    /\ cursor' = [cursor EXCEPT ![t].cont = NoContinuation]
    /\ UNCHANGED <<now, target, runs, lock, markers, cooldown, due, claimed, queue, pc, job, req, res>>

-----------------------------------------------------------------------------
WorkerStep(w) ==
    \/ \E d \in queue : TakeTask(w, d)
    \/ AcquireLock(w)
    \/ RenewLock(w)
    \/ Prepare(w)
    \/ StartRunStale(w)
    \/ StartRunAdopt(w)
    \/ StartRunCreate(w)
    \/ ResolvedRunConfig(w)
    \/ LoadPage(w)
    \/ Budget(w)
    \/ FetchResult(w)
    \/ FetchFails(w)
    \/ FetchLockLost(w)
    \/ CheckLockLost(w)
    \/ CheckLockOwned(w)
    \/ AnswerInvalid(w)
    \/ PersistResult(w)
    \/ PersistRefused(w)
    \/ FinishError(w)
    \/ FinishLockLost(w)
    \/ DatabaseFails(w)
    \/ Release(w)
    \/ WorkerCrash(w)

SchedulerStep ==
    \/ DuePage
    \/ \E e \in due : ClaimDue(e)
    \/ \E d \in claimed : Enqueue(d) \/ EnqueueFails(d)
    \/ SchedulerCrash

OperatorStep ==
    \E t \in Targets :
        \/ \E status \in TargetStatus : Revise(t, status)
        \/ PauseForContinuationAbandon(t)
        \/ AbandonPendingContinuations(t)

\* The clock has reached its bound and every worker has finished.
Horizon == now = MaxTime /\ (\A w \in Workers : pc[w] = "idle") /\ UNCHANGED vars

Next ==
    \/ Tick
    \/ SchedulerStep
    \/ \E w \in Workers : WorkerStep(w)
    \/ \E r \in RunIds : RecoverStale(r)
    \/ OperatorStep
    \/ Horizon

Spec == Init /\ [][Next]_vars

-----------------------------------------------------------------------------
(* Properties.                                                             *)

\* At most one RUNNING run per target: the adoption in _start_run, and the partial
\* unique index when a late worker writes "running" over a terminal status.
OneRunningPerTarget ==
    \A q, r \in RunIds :
        /\ runs[q].status = "running"
        /\ runs[r].status = "running"
        /\ runs[q].d.target = runs[r].d.target
        => q = r

\* A RUNNING run always belongs to the current revision of its target, even when
\* workers outlive their lock: revise refuses while a run is RUNNING, and every
\* transaction that can write "running" compares the revision first.
RunningIsCurrent ==
    \A r \in RunIds :
        runs[r].status = "running" => runs[r].d.rev = target[runs[r].d.target].rev

\* A pending continuation of a paged target is bound to a run of that target whose
\* frozen window and config are the continuation's, that has not succeeded, and
\* whose lineage is the target's current revision.
ContinuationBound ==
    \A t \in PagedTargets :
        LET c == cursor[t].cont IN
        c.pending =>
            /\ c.run \in RunIds
            /\ runs[c.run].d.target = t
            /\ runs[c.run].window # NULL
            /\ runs[c.run].window = c.window
            /\ runs[c.run].cfg = c.rev
            /\ runs[c.run].status \in {"running", "partial", "failed"}
            /\ c.rev = target[t].rev

\* Requests in flight for run r: counted and not yet persisted.
InFlight(r) == {w \in Workers : pc[w] \in {"fetch", "check_lock", "persist"} /\ job[w].run = r}

\* The request budget of a paged run survives retries, adoption and late workers:
\* a run never counts more requests than max_requests_per_run, and every page it
\* has persisted or may still persist was counted.
RequestBudget ==
    \A r \in RunIds :
        runs[r].d.target \in PagedTargets =>
            /\ runs[r].requests <= MaxRequests
            /\ runs[r].pages + Cardinality(InFlight(r)) <= runs[r].requests

Terminal == {"partial", "succeeded", "failed"}

\* A run that has ended is never reopened or re-judged by a worker, a retry or the
\* recovery.
TerminalRunsStayTerminal ==
    [][\A r \in RunIds : runs[r].status \in Terminal => runs'[r].status = runs[r].status]_vars

\* The cursor a target has reached never moves back.
CursorNeverRegresses ==
    [][\A t \in Targets : cursor'[t].value >= cursor[t].value]_vars

\* While a continuation is pending, retries, crashes, lock losses and new runs all
\* resume in the window that was frozen first, and never at an earlier page.
FrozenWindowReused ==
    [][\A t \in Targets :
         cursor[t].cont.pending /\ cursor'[t].cont.pending =>
            /\ cursor'[t].cont.window = cursor[t].cont.window
            /\ cursor'[t].cont.page >= cursor[t].cont.page]_vars

\* Two workers never execute the same run at the same time.
OneWorkerPerRun ==
    \A v, w \in Workers : job[v].run = job[w].run /\ job[v].run # NULL => v = w

-----------------------------------------------------------------------------
(* What SPEC-0041 says of the control plane and the code does not keep.    *)

\* SPEC-0041 (implementation): "snapshot cursor: equal=`NO_NEW_ITEMS`".  A single fetch
\* that answers with the position its target has already reached does not fail the
\* run: the step after the answer leads to the persist transaction.
EqualAnswerIsNoFailure ==
    [][\A w \in Workers :
         /\ pc[w] = "check_lock"
         /\ job[w].d.target \notin PagedTargets
         /\ DecideCursor(req[w].snap, res[w].next) = "no_new_items"
         => pc'[w] # "finish_error"]_vars

=============================================================================
