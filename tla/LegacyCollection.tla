-------------------------- MODULE LegacyCollection --------------------------
(***************************************************************************)
(* The collection authority "legacy": the dispatch of due sources          *)
(* (collection/scheduler.py), the runner (collection/runner.py), the Celery *)
(* task that retries it (tasks/collection.py) and the stale-run recovery.   *)
(*                                                                         *)
(* Every transaction and every Redis command that others can interleave     *)
(* with is an action.  A run belongs to one chain of tasks: the task that   *)
(* created it and the retries each of them sends.                           *)
(*                                                                         *)
(* Times are ages and countdowns in ticks: what is left of a lock, a retry  *)
(* marker or a countdown, the age of a run, the ticks since the anchor of   *)
(* the schedule.  There is one source; its targets are its accounts.  A     *)
(* cursor is the number of provider items behind it, and an item is its     *)
(* number.  The dispatch marker of a slot outlives the slot, so a marker is *)
(* whether the current slot is claimed.                                     *)
(***************************************************************************)
EXTENDS Naturals, FiniteSets

CONSTANTS
    Targets,      \* enabled accounts of the source
    Workers,      \* Celery worker slots
    NoTarget,     \* the target of no task
    NoWorker,     \* the owner of a lock nobody alive holds
    MaxRuns,      \* bound on collection_runs rows
    MaxItems,     \* bound on the items of the provider
    MaxQueued,    \* bound on dispatched tasks waiting per target
    MaxFaults,    \* bound on the workers that die and the locks that run out under a live one
    MaxRetries,   \* COLLECTION_MAX_RETRIES
    Schedule,     \* schedule_seconds
    MaxBackoff,   \* the literal 16 of source_is_due
    LockTtl,      \* COLLECTION_LOCK_TTL_SECONDS
    RetryDelays,  \* what RetryPolicy.delay can return
    Deadline,     \* COLLECTION_TASK_DEADLINE_SECONDS
    StaleAfter    \* COLLECTION_STALE_RUN_AFTER_SECONDS

ASSUME LegacyAssumption ==
    /\ NoTarget \notin Targets /\ NoWorker \notin Workers
    /\ {MaxRuns, MaxQueued, Schedule, MaxBackoff, LockTtl} \subseteq Nat \ {0}
    /\ {MaxItems, MaxFaults, MaxRetries, Deadline, StaleAfter} \subseteq Nat
    /\ RetryDelays \subseteq Nat /\ RetryDelays # {}
    /\ IsFiniteSet(Targets)

VARIABLES
    phase,     \* ticks into the current slot
    slot,      \* targets whose dispatch marker for the current slot is set
    since,     \* ticks since the latest run of the source started
    failures,  \* consecutive_failures of the source
    runs,      \* collection_runs
    cursor,    \* collection_cursors
    items,     \* raw_items
    lock,      \* Redis collection:lock:<target>
    marker,    \* Redis collection:retry:<run>: ticks left, 0 if there is none
    queue,     \* dispatched tasks waiting for each target
    retries,   \* retry tasks waiting
    worker,    \* where each worker is in run_target
    faults     \* workers that died and locks that ran out under a live one

vars == <<phase, slot, since, failures, runs, cursor, items, lock, marker, queue, retries,
          worker, faults>>

-----------------------------------------------------------------------------
RunIds == 1..MaxRuns

NoRun == [target |-> NoTarget, status |-> "absent", age |-> 0, fetched |-> 0, recovered |-> FALSE]

\* recovered: the recovery has failed the run (a history variable, no column of the row).
Run == [target : Targets \cup {NoTarget}, age : Nat, fetched : Nat, recovered : BOOLEAN,
        status : {"absent", "running", "succeeded", "partial", "failed"}]

Retry == [target : Targets, run : RunIds, attempt : Nat, wait : Nat]

Item == [target : Targets, run : RunIds, number : 1..MaxItems]

Lock == [owner : Workers \cup {NoWorker}, left : Nat]

FreeLock == [owner |-> NoWorker, left |-> 0]

PCs == {"idle", "acquire", "create", "load", "fetch", "persist", "succeed", "error",
        "release", "mark", "resend"}

\* snap: the cursor of the request; next, more: the batch; retryable: of the error; delay: of the outcome "retry", 0 if it is not one.
Worker == [pc : PCs, target : Targets \cup {NoTarget}, run : RunIds \cup {0}, attempt : Nat,
           snap : Nat, next : Nat, more : BOOLEAN, retryable : BOOLEAN,
           again : BOOLEAN, delay : Nat]

Idle == [pc |-> "idle", target |-> NoTarget, run |-> 0, attempt |-> 0, snap |-> 0, next |-> 0,
         more |-> FALSE, retryable |-> FALSE, again |-> FALSE, delay |-> 0]

\* Every row, key, task and worker has the type of what it models.
TypeOK ==
    /\ phase \in 0..(Schedule - 1) /\ slot \subseteq Targets /\ since \in Nat /\ failures \in Nat
    /\ runs \in [RunIds -> Run]
    /\ cursor \in [Targets -> 0..MaxItems]
    /\ items \subseteq Item
    /\ lock \in [Targets -> Lock]
    /\ marker \in [RunIds -> Nat]
    /\ queue \in [Targets -> 0..MaxQueued]
    /\ retries \subseteq Retry
    /\ worker \in [Workers -> Worker]
    /\ faults \in Nat

LongAgo == Schedule * MaxBackoff

Init ==
    /\ phase = 0 /\ slot = {} /\ since = LongAgo /\ failures = 0
    /\ runs = [r \in RunIds |-> NoRun]
    /\ cursor = [t \in Targets |-> 0]
    /\ items = {}
    /\ lock = [t \in Targets |-> FreeLock]
    /\ marker = [r \in RunIds |-> 0]
    /\ queue = [t \in Targets |-> 0]
    /\ retries = {}
    /\ worker = [w \in Workers |-> Idle]
    /\ faults = 0

-----------------------------------------------------------------------------
(* The clock.                                                              *)

Less(n) == IF n = 0 THEN 0 ELSE n - 1

\* Live workers whose lock runs out with this tick: none, while renewals come in time.
Stalled == {t \in Targets : lock[t].left = 1 /\ lock[t].owner # NoWorker}

Tick ==
    /\ faults + Cardinality(Stalled) <= MaxFaults
    /\ faults' = faults + Cardinality(Stalled)
    /\ phase' = (phase + 1) % Schedule
    /\ slot' = IF phase' = 0 THEN {} ELSE slot
    /\ since' = IF since < LongAgo THEN since + 1 ELSE since
    /\ runs' = [r \in RunIds |-> IF runs[r].status = "running" /\ runs[r].age <= StaleAfter
                                 THEN [runs[r] EXCEPT !.age = @ + 1] ELSE runs[r]]
    /\ lock' = [t \in Targets |-> IF lock[t].left <= 1 THEN FreeLock
                                  ELSE [lock[t] EXCEPT !.left = @ - 1]]
    /\ marker' = [r \in RunIds |-> Less(marker[r])]
    /\ retries' = {[q EXCEPT !.wait = Less(@)] : q \in retries}
    /\ UNCHANGED <<failures, cursor, items, queue, worker>>

-----------------------------------------------------------------------------
(* dispatch_due_targets.                                                   *)

Running(t) == {r \in RunIds : runs[r].status = "running" /\ runs[r].target = t}

\* source_is_due: last_success_at is set for sources without accounts only.
Due ==
    LET factor == IF 2 ^ failures <= MaxBackoff THEN 2 ^ failures ELSE MaxBackoff IN
    since >= Schedule * factor

\* A due target without a RUNNING run whose slot is not claimed.  The reads commute with
\* what workers do before the SET NX of the marker, so this is one action.
Dispatch(t) ==
    /\ Due
    /\ Running(t) = {}
    /\ t \notin slot
    /\ queue[t] < MaxQueued
    /\ slot' = slot \cup {t}
    /\ queue' = [queue EXCEPT ![t] = @ + 1]
    /\ UNCHANGED <<phase, since, failures, runs, cursor, items, lock, marker, retries, worker, faults>>

\* The dispatch task dies between the marker and apply_async.  When apply_async raises
\* the marker is deleted and nothing has changed.
DispatchDies(t) ==
    /\ Due
    /\ Running(t) = {}
    /\ t \notin slot
    /\ faults < MaxFaults
    /\ faults' = faults + 1
    /\ slot' = slot \cup {t}
    /\ UNCHANGED <<phase, since, failures, runs, cursor, items, lock, marker, queue, retries, worker>>

-----------------------------------------------------------------------------
(* run_target and CollectionRunner.run.                                    *)

Goto(w, x) == worker' = [worker EXCEPT ![w] = x]

At(w, step) == [worker[w] EXCEPT !.pc = step]

Raise(w, retryable) ==
    Goto(w, [At(w, "error") EXCEPT !.retryable = retryable, !.snap = 0, !.next = 0, !.more = FALSE])

\* TargetLock.acquire: SET NX PX.
Acquire(w, t) ==
    /\ lock[t].left = 0
    /\ lock' = [lock EXCEPT ![t] = [owner |-> w, left |-> LockTtl]]

\* Tasks that will still create a run: MaxRuns bounds the tasks that start.
Starting == {v \in Workers : worker[v].pc = "create"}

\* A dispatched task whose target is no longer authorized (_validate_target) or locked
\* ends; otherwise it goes on with the lock.
TakeTask(w, t) ==
    /\ worker[w].pc = "idle"
    /\ Cardinality({r \in RunIds : runs[r].status = "absent"}) > Cardinality(Starting)
    /\ queue[t] > 0
    /\ queue' = [queue EXCEPT ![t] = @ - 1]
    /\ \/ UNCHANGED <<lock, worker>>
       \/ Acquire(w, t) /\ Goto(w, [Idle EXCEPT !.pc = "create", !.target = t])
    /\ UNCHANGED <<phase, slot, since, failures, runs, cursor, items, marker, retries, faults>>

\* A retry first deletes its marker.
TakeRetry(w, q) ==
    /\ worker[w].pc = "idle"
    /\ q.wait = 0
    /\ retries' = retries \ {q}
    /\ marker' = [marker EXCEPT ![q.run] = 0]
    /\ Goto(w, [Idle EXCEPT !.pc = "acquire", !.target = q.target, !.run = q.run, !.attempt = q.attempt])
    /\ UNCHANGED <<phase, slot, since, failures, runs, cursor, items, lock, queue, faults>>

\* Then it is validated and takes the lock; a held lock ends it too, and its run is left
\* to the recovery.
StartRetry(w) ==
    /\ worker[w].pc = "acquire"
    /\ \/ Goto(w, Idle) /\ UNCHANGED lock
       \/ Acquire(w, worker[w].target) /\ Goto(w, At(w, "load"))
    /\ UNCHANGED <<phase, slot, since, failures, runs, cursor, items, marker, queue, retries, faults>>

Owns(w) == lock[worker[w].target].owner = w

Executing(w) == worker[w].pc \notin {"idle", "acquire", "mark", "resend"}

\* _renew_lock, while the lock is there.
Renew(w) ==
    LET t == worker[w].target IN
    /\ Executing(w)
    /\ Owns(w)
    /\ lock[t].left < LockTtl
    /\ lock' = [lock EXCEPT ![t].left = LockTtl]
    /\ UNCHANGED <<phase, slot, since, failures, runs, cursor, items, marker, queue, retries, worker, faults>>

CreateRun(w) ==
    /\ worker[w].pc = "create"
    /\ \E r \in RunIds :
          /\ \A q \in RunIds : runs[q].status = "absent" <=> q >= r
          /\ runs' = [runs EXCEPT ![r] = [NoRun EXCEPT !.target = worker[w].target, !.status = "running"]]
          /\ Goto(w, [At(w, "load") EXCEPT !.run = r])
    /\ since' = 0
    /\ UNCHANGED <<phase, slot, failures, cursor, items, lock, marker, queue, retries, faults>>

LoadCursor(w) ==
    /\ worker[w].pc = "load"
    /\ Goto(w, [At(w, "fetch") EXCEPT !.snap = cursor[worker[w].target]])
    /\ UNCHANGED <<phase, slot, since, failures, runs, cursor, items, lock, marker, queue, retries, faults>>

\* The batch: the items behind the cursor up to the next one, none if it is unchanged.
\* The last batch a caller with max_batches asks for counts as one without more.
Fetch(w) ==
    /\ worker[w].pc = "fetch"
    /\ \E next \in worker[w].snap..MaxItems, more \in BOOLEAN :
          /\ more => next > worker[w].snap
          /\ Goto(w, [At(w, "persist") EXCEPT !.next = next, !.more = more])
    /\ UNCHANGED <<phase, slot, since, failures, runs, cursor, items, lock, marker, queue, retries, faults>>

\* The renewal has found the lock gone, and its event is looked at once, when the batch
\* is there.  It may not have come round yet: then the batch is used (Fetch).
FetchedTooLate(w) ==
    /\ worker[w].pc = "fetch"
    /\ ~Owns(w)
    /\ Raise(w, TRUE)
    /\ UNCHANGED <<phase, slot, since, failures, runs, cursor, items, lock, marker, queue, retries, faults>>

\* A classified error of the adapter, or its timeout.
FetchFails(w) ==
    /\ worker[w].pc = "fetch"
    /\ \E retryable \in BOOLEAN : Raise(w, retryable)
    /\ UNCHANGED <<phase, slot, since, failures, runs, cursor, items, lock, marker, queue, retries, faults>>

Batch(w) ==
    [target : {worker[w].target}, run : {worker[w].run}, number : (worker[w].snap + 1)..worker[w].next]

\* Mutant of Stale: the cursor row is not compared with the snapshot, and the unique
\* index on the items is missing.
Stale_NotCompared(w) == cursor[worker[w].target] \notin 0..MaxItems

\* The snapshot is no longer the cursor, or uq_raw_items_source_external_identity refuses
\* an item.
Stale(w) ==
    \/ cursor[worker[w].target] # worker[w].snap
    \/ \E i \in items : i.target = worker[w].target /\ i.number \in (worker[w].snap + 1)..worker[w].next

\* Mutant of Accepts: the run's status is not looked at.
Accepts_AnyStatus(r) == runs[r].status # "absent"

\* The run is locked and must be RUNNING.
Accepts(r) == runs[r].status = "running"

\* _persist_checkpoint: items, count and cursor in one transaction.
PersistCheckpoint(w) ==
    LET r == worker[w].run IN
    /\ worker[w].pc = "persist"
    /\ Accepts(r)
    /\ ~Stale(w)
    /\ items' = items \cup Batch(w)
    /\ runs' = [runs EXCEPT ![r].fetched = @ + Cardinality(Batch(w))]
    /\ cursor' = [cursor EXCEPT ![worker[w].target] = worker[w].next]
    /\ Goto(w, [At(w, IF worker[w].more THEN "load" ELSE "succeed") EXCEPT
                  !.snap = 0, !.next = 0, !.more = FALSE])
    /\ UNCHANGED <<phase, slot, since, failures, lock, marker, queue, retries, faults>>

\* An ended run and a stale cursor are contract errors; a refused item is retried.
PersistRefused(w) ==
    /\ worker[w].pc = "persist"
    /\ ~Accepts(worker[w].run) \/ Stale(w)
    /\ \E retryable \in BOOLEAN :
          /\ retryable => Accepts(worker[w].run) /\ cursor[worker[w].target] = worker[w].snap
          /\ Raise(w, retryable)
    /\ UNCHANGED <<phase, slot, since, failures, runs, cursor, items, lock, marker, queue, retries, faults>>

\* _finish_success: the run's present status is not looked at.
FinishSuccess(w) ==
    /\ worker[w].pc = "succeed"
    /\ runs' = [runs EXCEPT ![worker[w].run] = [@ EXCEPT !.status = "succeeded", !.age = 0]]
    /\ Goto(w, At(w, "release"))
    /\ UNCHANGED <<phase, slot, since, failures, cursor, items, lock, marker, queue, retries, faults>>

\* An unclassified exception, or the task is cancelled: the run fails.
Unclassified(w) ==
    /\ worker[w].pc \in {"load", "fetch", "persist", "succeed"}
    /\ Raise(w, FALSE)
    /\ UNCHANGED <<phase, slot, since, failures, runs, cursor, items, lock, marker, queue, retries, faults>>

\* A transaction fails: retryable once there is a run; in _create_run, _record_retry and
\* _finish_failure the error leaves run through its finally clause.
DatabaseFails(w) ==
    /\ \/ worker[w].pc \in {"load", "persist", "succeed"} /\ Raise(w, TRUE)
       \/ worker[w].pc \in {"create", "error"} /\ Goto(w, At(w, "release"))
    /\ UNCHANGED <<phase, slot, since, failures, runs, cursor, items, lock, marker, queue, retries, faults>>

\* RetryPolicy.should_retry
ShouldRetry(w) == worker[w].retryable /\ worker[w].attempt < MaxRetries

\* _record_retry leaves all but the error text as it is; the outcome is "retry".
RecordRetry(w) ==
    /\ worker[w].pc = "error"
    /\ ShouldRetry(w)
    /\ \E delay \in RetryDelays :
          Goto(w, [At(w, "release") EXCEPT !.again = TRUE, !.delay = delay])
    /\ UNCHANGED <<phase, slot, since, failures, runs, cursor, items, lock, marker, queue, retries, faults>>

Judged(row) ==
    [row EXCEPT !.status = IF row.fetched > 0 THEN "partial" ELSE "failed", !.age = 0]

\* Beyond MaxBackoff the number of failures changes nothing.
More(n) == IF 2 ^ n < MaxBackoff THEN n + 1 ELSE n

\* _finish_failure: the run's present status is not looked at.
FinishFailure(w) ==
    /\ worker[w].pc = "error"
    /\ ~ShouldRetry(w)
    /\ runs' = [runs EXCEPT ![worker[w].run] = Judged(@)]
    /\ failures' = More(failures)
    /\ Goto(w, At(w, "release"))
    /\ UNCHANGED <<phase, slot, since, cursor, items, lock, marker, queue, retries, faults>>

\* Mutant of Release: the key is deleted without comparing its token.
Release_AnyToken(w) ==
    /\ worker[w].pc = "release"
    /\ lock' = [lock EXCEPT ![worker[w].target] = FreeLock]
    /\ Goto(w, IF worker[w].again
               THEN [Idle EXCEPT !.pc = "mark", !.target = worker[w].target, !.run = worker[w].run,
                                 !.attempt = worker[w].attempt, !.delay = worker[w].delay]
               ELSE Idle)
    /\ UNCHANGED <<phase, slot, since, failures, runs, cursor, items, marker, queue, retries, faults>>

\* The finally clause.  A retry is announced only after the lock is released.
Release(w) ==
    /\ worker[w].pc = "release"
    /\ lock' = IF Owns(w) THEN [lock EXCEPT ![worker[w].target] = FreeLock] ELSE lock
    /\ Goto(w, IF worker[w].again
               THEN [Idle EXCEPT !.pc = "mark", !.target = worker[w].target, !.run = worker[w].run,
                                 !.attempt = worker[w].attempt, !.delay = worker[w].delay]
               ELSE Idle)
    /\ UNCHANGED <<phase, slot, since, failures, runs, cursor, items, marker, queue, retries, faults>>

MarkRetry(w) ==
    LET x == worker[w] IN
    /\ x.pc = "mark"
    /\ marker' = [marker EXCEPT ![x.run] =
                    IF x.delay + Deadline > StaleAfter THEN x.delay + Deadline ELSE StaleAfter]
    /\ Goto(w, At(w, "resend"))
    /\ UNCHANGED <<phase, slot, since, failures, runs, cursor, items, lock, queue, retries, faults>>

\* self.retry with a countdown.
Resend(w) ==
    LET x == worker[w] IN
    /\ x.pc = "resend"
    /\ retries' = retries \cup {[target |-> x.target, run |-> x.run, attempt |-> x.attempt + 1, wait |-> x.delay]}
    /\ Goto(w, Idle)
    /\ UNCHANGED <<phase, slot, since, failures, runs, cursor, items, lock, marker, queue, faults>>

\* The worker process dies; the lock stays until it runs out, the task is lost.
Crash(w) ==
    /\ worker[w].pc # "idle"
    /\ faults < MaxFaults
    /\ faults' = faults + 1
    /\ lock' = IF Executing(w) /\ Owns(w) THEN [lock EXCEPT ![worker[w].target].owner = NoWorker] ELSE lock
    /\ Goto(w, Idle)
    /\ UNCHANGED <<phase, slot, since, failures, runs, cursor, items, marker, queue, retries>>

\* Mutant of RecoverStale: a run that has stored items is left alone.
RecoverStale_NotPartial(r) ==
    /\ runs[r].status = "running"
    /\ runs[r].age > StaleAfter
    /\ lock[runs[r].target].left = 0
    /\ runs[r].fetched = 0
    /\ runs' = [runs EXCEPT ![r] = [@ EXCEPT !.status = "failed", !.age = 0, !.recovered = TRUE]]
    /\ failures' = More(failures)
    /\ UNCHANGED <<phase, slot, since, cursor, items, lock, marker, queue, retries, worker, faults>>

\* recover_stale_runs for one run: old, and neither the lock of its target nor its
\* retry marker is there.
RecoverStale(r) ==
    /\ runs[r].status = "running"
    /\ runs[r].age > StaleAfter
    /\ lock[runs[r].target].left = 0
    /\ marker[r] = 0
    /\ runs' = [runs EXCEPT ![r] = [@ EXCEPT !.status = "failed", !.age = 0, !.recovered = TRUE]]
    /\ failures' = More(failures)
    /\ UNCHANGED <<phase, slot, since, cursor, items, lock, marker, queue, retries, worker, faults>>

-----------------------------------------------------------------------------
\* What a live worker does by itself.
WorkerStep(w) ==
    \/ StartRetry(w)
    \/ CreateRun(w) \/ LoadCursor(w)
    \/ Fetch(w) \/ FetchedTooLate(w) \/ FetchFails(w)
    \/ PersistCheckpoint(w) \/ PersistRefused(w)
    \/ FinishSuccess(w) \/ Unclassified(w) \/ DatabaseFails(w)
    \/ RecordRetry(w) \/ FinishFailure(w)
    \/ Release(w) \/ MarkRetry(w) \/ Resend(w)

Take(w) == (\E t \in Targets : TakeTask(w, t)) \/ (\E q \in retries : TakeRetry(w, q))

Next ==
    \/ Tick
    \/ \E t \in Targets : Dispatch(t) \/ DispatchDies(t)
    \/ \E w \in Workers : Take(w) \/ WorkerStep(w) \/ Renew(w) \/ Crash(w)
    \/ \E r \in RunIds : RecoverStale(r)

\* Time passes, workers go on and take tasks, and beat keeps sending the recovery.
Fairness ==
    /\ WF_vars(Tick)
    /\ \A w \in Workers : WF_vars(WorkerStep(w))
    /\ WF_vars(\E w \in Workers : Take(w))
    /\ WF_vars(\E r \in RunIds : RecoverStale(r))

Spec == Init /\ [][Next]_vars /\ Fairness

-----------------------------------------------------------------------------
(* Properties.                                                             *)

\* The items of a target are exactly the ones behind its cursor, each stored by one run,
\* and a run counts what it stored: whatever dies, stalls, is retried or is recovered.
StoredOnceUpToCursor ==
    /\ TypeOK
    /\ \A t \in Targets : {i.number : i \in {i \in items : i.target = t}} = 1..cursor[t]
    /\ \A i, j \in items : i.target = j.target /\ i.number = j.number => i = j
    /\ \A r \in RunIds : runs[r].fetched = Cardinality({i \in items : i.run = r})

Ended == {"succeeded", "partial", "failed"}

\* A run that has ended stores nothing more, and only one that the recovery has failed
\* is judged again: its worker, stalled or between the release of its lock and its retry
\* marker, still reports what it found.
OnlyRecoveredRunsAreRejudged ==
    [][\A r \in RunIds : runs[r].status \in Ended =>
         /\ runs'[r].fetched = runs[r].fetched
         /\ runs'[r].status # runs[r].status => runs[r].recovered]_vars

\* A worker that has the lock of the target it executes keeps it as long as it executes or
\* until the lock runs out: no other worker that starts, ends, renews late or dies takes it
\* away.  A target has one executor that owns its lock, and all others have lost theirs.
LockKeptToTheEnd ==
    [][\A w \in Workers : Executing(w) /\ Owns(w) /\ Executing(w)' =>
         Owns(w)' \/ lock[worker[w].target].left = 1]_vars

\* Every run ends, whatever dies on the way: a task that gave way to a held lock, a retry
\* that was never sent and a worker that died leave it to the recovery.
EveryRunEnds == \A r \in RunIds : runs[r].status = "running" ~> runs[r].status \in Ended

=============================================================================
