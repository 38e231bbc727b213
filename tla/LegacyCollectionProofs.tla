----------------------- MODULE LegacyCollectionProofs -----------------------
(***************************************************************************)
(* Proofs about the legacy collection, for every number of accounts,        *)
(* workers, runs and items, every lock and retry delay, and any number of   *)
(* workers that die or stall.                                               *)
(***************************************************************************)
EXTENDS LegacyCollection, FiniteSetTheorems, TLAPS

-----------------------------------------------------------------------------
(* The invariant.                                                          *)

\* Where a worker has a run.
RunPCs == {"acquire", "load", "fetch", "persist", "succeed", "error", "mark", "resend"}

\* The run is the worker's to judge or to retry.
Holds(w) == worker[w].pc \in RunPCs \/ worker[w].again

\* A busy worker has a target, one that holds a run knows which, and a batch ends at an
\* item of the provider.  Only the outcome "retry" is to be announced.
WorkerOK(w) ==
    /\ worker[w].pc # "idle" => worker[w].target \in Targets
    /\ Holds(w) => worker[w].run \in RunIds
    /\ worker[w].pc = "persist" => worker[w].snap <= worker[w].next /\ worker[w].next <= MaxItems
    /\ worker[w].again => worker[w].pc = "release"

Absent(r) == runs[r].status = "absent"

StorageInv ==
    /\ StoredOnceUpToCursor
    /\ IsFiniteSet(items)
    /\ \A r \in RunIds : Absent(r) => runs[r].fetched = 0
    /\ \A w \in Workers : WorkerOK(w)

\* A run is in the hands of one chain: of one worker, or of one retry that waits.
OneChain ==
    /\ \A v, w \in Workers : Holds(v) /\ Holds(w) /\ worker[v].run = worker[w].run => v = w
    /\ \A p, q \in retries : p.run = q.run => p = q
    /\ \A w \in Workers, q \in retries : Holds(w) => worker[w].run # q.run

\* A run that was not recovered has left the hands of its chain when it has ended, and
\* one that is not there was never in any.
Open(r) == ~Absent(r) /\ (runs[r].status \in Ended => runs[r].recovered)

ChainsOpen ==
    /\ \A w \in Workers : Holds(w) => Open(worker[w].run)
    /\ \A q \in retries : Open(q.run)

IInv == StorageInv /\ OneChain /\ ChainsOpen

-----------------------------------------------------------------------------
(* What a step does to the workers.                                        *)

\* Only w has moved.
Moves(w) ==
    /\ worker' \in [Workers -> Worker]
    /\ \A v \in Workers \ {w} : worker'[v] = worker[v]

\* w still has its target and its run.
Same(w) == worker'[w].target = worker[w].target /\ worker'[w].run = worker[w].run

\* w goes on with its run, or has let it go.
Carries(w) == Holds(w) /\ Same(w) /\ Holds(w)'

Drops(w) == ~Holds(w)'

LEMMA GotoMoves ==
    ASSUME TypeOK, NEW w \in Workers, NEW x \in Worker, Goto(w, x)
    PROVE  Moves(w) /\ worker'[w] = x
  BY DEF TypeOK, Goto, Moves

LEMMA AtTyped ==
    ASSUME TypeOK, NEW w \in Workers, NEW s \in PCs
    PROVE  LET x == At(w, s) IN
           /\ x \in Worker /\ x.pc = s
           /\ x.target = worker[w].target /\ x.run = worker[w].run
           /\ x.snap = worker[w].snap /\ x.next = worker[w].next /\ x.again = worker[w].again
           /\ x.attempt = worker[w].attempt /\ x.delay = worker[w].delay
  BY DEF At, TypeOK, Worker

LEMMA IdleTyped == Idle \in Worker
  BY DEF Idle, Worker, PCs

LEMMA RunPCsTyped == RunPCs \subseteq PCs
  BY DEF RunPCs, PCs

LEMMA GotoAt ==
    ASSUME TypeOK, NEW w \in Workers, NEW s \in PCs, Goto(w, At(w, s))
    PROVE  /\ Moves(w) /\ Same(w) /\ worker'[w].pc = s /\ worker'[w].again = worker[w].again
           /\ worker'[w].snap = worker[w].snap /\ worker'[w].next = worker[w].next
  BY GotoMoves, AtTyped DEF Same

LEMMA GotoIdle ==
    ASSUME TypeOK, NEW w \in Workers, Goto(w, Idle)
    PROVE  Moves(w) /\ worker'[w] = Idle /\ WorkerOK(w)' /\ Drops(w)
<1>1. Moves(w) /\ worker'[w] = Idle
  BY GotoMoves, IdleTyped
<1>. QED BY <1>1 DEF Idle, WorkerOK, Drops, Holds, RunPCs

LEMMA RaiseMoves ==
    ASSUME TypeOK, NEW w \in Workers, NEW b \in BOOLEAN, Raise(w, b)
    PROVE  Moves(w) /\ Same(w) /\ worker'[w].pc = "error" /\ worker'[w].again = worker[w].again
<1> DEFINE x == At(w, "error")
           y == [x EXCEPT !.retryable = b, !.snap = 0, !.next = 0, !.more = FALSE]
<1>1. /\ x \in Worker /\ x.pc = "error" /\ x.target = worker[w].target /\ x.run = worker[w].run
      /\ x.again = worker[w].again
  BY AtTyped DEF PCs
<1>2. Goto(w, y)
  BY DEF Raise
<1> HIDE DEF x
<1>3. /\ y \in Worker /\ y.pc = x.pc /\ y.target = x.target /\ y.run = x.run /\ y.again = x.again
  BY <1>1 DEF Worker
<1> HIDE DEF y
<1>. QED BY <1>1, <1>2, <1>3, GotoMoves DEF Same

\* A worker with a run goes on with it, unless to a batch or to the announcement of a retry.
LEMMA GoesOn ==
    ASSUME TypeOK, NEW w \in Workers, WorkerOK(w), worker[w].pc \in RunPCs, Moves(w), Same(w),
           worker'[w].pc \in RunPCs \ {"persist"}, worker'[w].again = worker[w].again
    PROVE  WorkerOK(w)' /\ Carries(w)
  BY DEF WorkerOK, Carries, Same, Holds, RunPCs

LEMMA LetsGo ==
    ASSUME TypeOK, NEW w \in Workers, WorkerOK(w), worker[w].pc \notin {"idle", "release"}, Moves(w), Same(w),
           worker'[w].pc = "release", worker'[w].again = worker[w].again
    PROVE  WorkerOK(w)' /\ Drops(w)
  BY DEF WorkerOK, Drops, Same, Holds, RunPCs

\* A step of a worker that has one: it goes on with its run or lets it go.
Advances(w) == Moves(w) /\ WorkerOK(w)' /\ (Carries(w) \/ Drops(w))

\* The execution of w goes on, of the target it had.
Stays(w) == Executing(w)' /\ worker'[w].target = worker[w].target

LEMMA IdleAdvances ==
    ASSUME TypeOK, NEW w \in Workers, Goto(w, Idle)
    PROVE  Advances(w)
  BY GotoIdle DEF Advances

LEMMA RaiseAdvances ==
    ASSUME TypeOK, NEW w \in Workers, WorkerOK(w), worker[w].pc \in RunPCs, NEW b \in BOOLEAN, Raise(w, b)
    PROVE  Advances(w) /\ Stays(w)
<1>1. Moves(w) /\ Same(w) /\ worker'[w].pc = "error" /\ worker'[w].again = worker[w].again
  BY RaiseMoves
<1>2. worker'[w].pc \in RunPCs \ {"persist"}
  BY <1>1 DEF RunPCs
<1>. QED BY <1>1, <1>2, GoesOn DEF Advances, Stays, Same, Executing

LEMMA AtAdvances ==
    ASSUME TypeOK, NEW w \in Workers, WorkerOK(w), worker[w].pc \in RunPCs,
           NEW s \in RunPCs \ {"persist"}, Goto(w, At(w, s))
    PROVE  Advances(w) /\ Same(w) /\ worker'[w].pc = s
<1>1. s \in PCs
  BY RunPCsTyped
<1>. QED BY <1>1, GotoAt, GoesOn DEF Advances

LEMMA ReleaseAdvances ==
    ASSUME TypeOK, NEW w \in Workers, WorkerOK(w), worker[w].pc \notin {"idle", "release"},
           Goto(w, At(w, "release"))
    PROVE  Advances(w) /\ Stays(w)
<1>1. "release" \in PCs
  BY DEF PCs
<1>. QED BY <1>1, GotoAt, LetsGo DEF Advances, Stays, Same, Executing

LEMMA StartRetryMoves ==
    ASSUME TypeOK, NEW w \in Workers, WorkerOK(w), StartRetry(w)
    PROVE  Advances(w)
<1>1. worker[w].pc \in RunPCs /\ "load" \in RunPCs \ {"persist"}
  BY DEF StartRetry, RunPCs
<1>. QED BY <1>1, IdleAdvances, AtAdvances DEF StartRetry

LEMMA LoadCursorMoves ==
    ASSUME TypeOK, NEW w \in Workers, WorkerOK(w), LoadCursor(w)
    PROVE  Advances(w) /\ Stays(w)
<1> DEFINE x == At(w, "fetch")
           y == [x EXCEPT !.snap = cursor[worker[w].target]]
<1>1. worker[w].pc = "load" /\ worker[w].pc \in RunPCs /\ worker[w].target \in Targets
  BY DEF LoadCursor, RunPCs, WorkerOK
<1>2. x \in Worker /\ x.pc = "fetch" /\ x.target = worker[w].target /\ x.run = worker[w].run
      /\ x.again = worker[w].again
  BY AtTyped DEF PCs
<1>3. Goto(w, y) /\ cursor[worker[w].target] \in Nat
  BY <1>1 DEF LoadCursor, TypeOK
<1> HIDE DEF x
<1>4. /\ y \in Worker /\ y.pc = x.pc /\ y.target = x.target /\ y.run = x.run /\ y.again = x.again
  BY <1>2, <1>3 DEF Worker
<1> HIDE DEF y
<1>5. Moves(w) /\ Same(w) /\ worker'[w].pc = "fetch" /\ worker'[w].again = worker[w].again
  BY <1>2, <1>3, <1>4, GotoMoves DEF Same
<1>6. worker'[w].pc \in RunPCs \ {"persist"}
  BY <1>5 DEF RunPCs
<1>. QED BY <1>1, <1>5, <1>6, GoesOn DEF Advances, Stays, Same, Executing

LEMMA FetchMoves ==
    ASSUME TypeOK, NEW w \in Workers, WorkerOK(w), Fetch(w)
    PROVE  Advances(w) /\ Stays(w)
<1>1. worker[w].pc = "fetch" /\ worker[w].snap \in Nat
  BY DEF Fetch, TypeOK, Worker
<1>2. PICK next \in worker[w].snap..MaxItems, more \in BOOLEAN :
          Goto(w, [At(w, "persist") EXCEPT !.next = next, !.more = more])
  BY DEF Fetch
<1> DEFINE x == At(w, "persist")
           y == [x EXCEPT !.next = next, !.more = more]
<1>3. x \in Worker /\ x.pc = "persist" /\ x.target = worker[w].target /\ x.run = worker[w].run
      /\ x.again = worker[w].again /\ x.snap = worker[w].snap
  BY AtTyped DEF PCs
<1>4. next \in Nat /\ worker[w].snap <= next /\ next <= MaxItems
  BY <1>1, LegacyAssumption
<1>5. Goto(w, y)
  BY <1>2
<1> HIDE DEF x
<1>6. /\ y \in Worker /\ y.pc = x.pc /\ y.target = x.target /\ y.run = x.run /\ y.again = x.again
      /\ y.snap = x.snap /\ y.next = next
  BY <1>3, <1>4 DEF Worker
<1> HIDE DEF y
<1>7. Moves(w) /\ worker'[w] = y
  BY <1>5, <1>6, GotoMoves
<1>. QED BY <1>1, <1>3, <1>4, <1>6, <1>7 DEF Advances, Stays, Executing, WorkerOK, Carries, Same, Holds, RunPCs

LEMMA FailuresMove ==
    ASSUME TypeOK, NEW w \in Workers, WorkerOK(w),
           FetchedTooLate(w) \/ FetchFails(w) \/ PersistRefused(w) \/ Unclassified(w)
    PROVE  Advances(w) /\ Stays(w)
<1>1. worker[w].pc \in RunPCs
  BY DEF FetchedTooLate, FetchFails, PersistRefused, Unclassified, RunPCs
<1>2. PICK b \in BOOLEAN : Raise(w, b)
  BY DEF FetchedTooLate, FetchFails, PersistRefused, Unclassified
<1>. QED BY <1>1, <1>2, RaiseAdvances

LEMMA DatabaseFailsMoves ==
    ASSUME TypeOK, NEW w \in Workers, WorkerOK(w), DatabaseFails(w)
    PROVE  Advances(w) /\ Stays(w)
<1>1. CASE worker[w].pc \in {"load", "persist", "succeed"} /\ Raise(w, TRUE)
  <2>1. worker[w].pc \in RunPCs
    BY <1>1 DEF RunPCs
  <2>. QED BY <1>1, <2>1, RaiseAdvances
<1>2. CASE worker[w].pc \in {"create", "error"} /\ Goto(w, At(w, "release"))
  BY <1>2, ReleaseAdvances
<1>. QED BY <1>1, <1>2 DEF DatabaseFails

LEMMA FinishMoves ==
    ASSUME TypeOK, NEW w \in Workers, WorkerOK(w), FinishSuccess(w) \/ FinishFailure(w)
    PROVE  Advances(w) /\ Drops(w) /\ Stays(w) /\ worker[w].run \in RunIds
<1>1. worker[w].pc \in {"succeed", "error"} /\ Goto(w, At(w, "release"))
  BY DEF FinishSuccess, FinishFailure
<1>2. "release" \in PCs
  BY DEF PCs
<1>3. worker[w].run \in RunIds
  BY <1>1 DEF WorkerOK, Holds, RunPCs
<1>. QED BY <1>1, <1>2, <1>3, GotoAt, LetsGo DEF Advances, Stays, Same, Executing

\* A checkpoint is stored by the run it belongs to, at the cursor it was read at.
LEMMA PersistMoves ==
    ASSUME TypeOK, NEW w \in Workers, WorkerOK(w), PersistCheckpoint(w)
    PROVE  /\ Advances(w) /\ Stays(w)
           /\ worker[w].run \in RunIds /\ worker[w].target \in Targets
           /\ worker[w].snap \in Nat /\ worker[w].next \in Nat
           /\ worker[w].snap <= worker[w].next /\ worker[w].next <= MaxItems
<1> DEFINE s == IF worker[w].more THEN "load" ELSE "succeed"
           x == At(w, s)
           y == [x EXCEPT !.snap = 0, !.next = 0, !.more = FALSE]
<1>1. worker[w].pc = "persist" /\ worker[w].pc \in RunPCs
  BY DEF PersistCheckpoint, RunPCs
<1>2. s \in PCs /\ s \in RunPCs \ {"persist"}
  BY DEF PCs, RunPCs
<1>3. Goto(w, y)
  BY DEF PersistCheckpoint
<1> HIDE DEF s
<1>4. x \in Worker /\ x.pc = s /\ x.target = worker[w].target /\ x.run = worker[w].run
      /\ x.again = worker[w].again
  BY <1>2, AtTyped
<1> HIDE DEF x
<1>5. /\ y \in Worker /\ y.pc = x.pc /\ y.target = x.target /\ y.run = x.run /\ y.again = x.again
  BY <1>4 DEF Worker
<1> HIDE DEF y
<1>6. Moves(w) /\ Same(w) /\ worker'[w].pc = s /\ worker'[w].again = worker[w].again
  BY <1>3, <1>4, <1>5, GotoMoves DEF Same
<1>7. worker[w].snap \in Nat /\ worker[w].next \in Nat
  BY DEF TypeOK, Worker
<1>8. Stays(w)
  BY <1>6 DEF s, Stays, Same, Executing
<1>. QED BY <1>1, <1>2, <1>6, <1>7, <1>8, GoesOn DEF Advances, WorkerOK, Holds

LEMMA RecordRetryMoves ==
    ASSUME TypeOK, NEW w \in Workers, WorkerOK(w), RecordRetry(w)
    PROVE  Advances(w) /\ Stays(w)
<1>1. PICK delay \in RetryDelays : Goto(w, [At(w, "release") EXCEPT !.again = TRUE, !.delay = delay])
  BY DEF RecordRetry
<1> DEFINE x == At(w, "release")
           y == [x EXCEPT !.again = TRUE, !.delay = delay]
<1>2. worker[w].pc = "error" /\ delay \in Nat /\ worker[w].target \in Targets /\ worker[w].run \in RunIds
  BY LegacyAssumption DEF RecordRetry, WorkerOK, Holds, RunPCs
<1>3. x \in Worker /\ x.pc = "release" /\ x.target = worker[w].target /\ x.run = worker[w].run
  BY AtTyped DEF PCs
<1>4. Goto(w, y)
  BY <1>1
<1> HIDE DEF x
<1>5. /\ y \in Worker /\ y.pc = x.pc /\ y.target = x.target /\ y.run = x.run /\ y.again = TRUE
  BY <1>2, <1>3 DEF Worker
<1> HIDE DEF y
<1>6. Moves(w) /\ worker'[w] = y
  BY <1>4, <1>5, GotoMoves
<1>. QED BY <1>2, <1>3, <1>5, <1>6 DEF Advances, Stays, Executing, WorkerOK, Carries, Same, Holds, RunPCs

LEMMA ReleaseMoves ==
    ASSUME TypeOK, NEW w \in Workers, WorkerOK(w), Release(w)
    PROVE  Advances(w) /\ worker'[w].pc \in {"idle", "mark"}
<1> DEFINE x == [Idle EXCEPT !.pc = "mark", !.target = worker[w].target, !.run = worker[w].run,
                             !.attempt = worker[w].attempt, !.delay = worker[w].delay]
<1>1. worker[w].pc = "release" /\ Goto(w, IF worker[w].again THEN x ELSE Idle)
  BY DEF Release
<1>2. CASE worker[w].again
  <2>1. worker[w] \in Worker /\ worker[w].target \in Targets /\ worker[w].run \in RunIds
    BY <1>1, <1>2 DEF TypeOK, WorkerOK, Holds
  <2>2. x \in Worker /\ x.pc = "mark" /\ x.target = worker[w].target /\ x.run = worker[w].run /\ ~x.again
    BY <2>1 DEF Worker, Idle, PCs
  <2> HIDE DEF x
  <2>3. Moves(w) /\ worker'[w] = x
    BY <1>1, <1>2, <2>2, GotoMoves
  <2>. QED BY <1>2, <2>1, <2>2, <2>3 DEF Advances, WorkerOK, Carries, Same, Holds, RunPCs
<1>3. CASE ~worker[w].again
  <2>1. Advances(w) /\ worker'[w] = Idle
    BY <1>1, <1>3, IdleAdvances, GotoIdle
  <2>. QED BY <2>1 DEF Idle
<1>. QED BY <1>2, <1>3

LEMMA MarkRetryMoves ==
    ASSUME TypeOK, NEW w \in Workers, WorkerOK(w), MarkRetry(w)
    PROVE  Advances(w) /\ worker[w].run \in RunIds /\ worker[w].delay \in Nat
<1>1. worker[w].pc \in RunPCs /\ "resend" \in RunPCs \ {"persist"} /\ Goto(w, At(w, "resend"))
  BY DEF MarkRetry, RunPCs
<1>2. worker[w].run \in RunIds /\ worker[w].delay \in Nat
  BY <1>1 DEF WorkerOK, Holds, TypeOK, Worker
<1>. QED BY <1>1, <1>2, AtAdvances

LEMMA CreateMoves ==
    ASSUME TypeOK, NEW w \in Workers, WorkerOK(w), NEW r \in RunIds,
           worker[w].pc = "create", Goto(w, [At(w, "load") EXCEPT !.run = r])
    PROVE  Moves(w) /\ Stays(w) /\ WorkerOK(w)' /\ worker'[w].run = r /\ Holds(w)' /\ worker[w].target \in Targets
<1> DEFINE x == At(w, "load")
           y == [x EXCEPT !.run = r]
<1>1. x \in Worker /\ x.pc = "load" /\ x.target = worker[w].target /\ x.again = worker[w].again
  BY AtTyped DEF PCs
<1>2. Goto(w, y) /\ worker[w].target \in Targets /\ ~worker[w].again
  BY DEF WorkerOK
<1> HIDE DEF x
<1>3. y \in Worker /\ y.pc = x.pc /\ y.target = x.target /\ y.again = x.again /\ y.run = r
  BY <1>1 DEF Worker
<1> HIDE DEF y
<1>4. Moves(w) /\ worker'[w] = y
  BY <1>2, <1>3, GotoMoves
<1>. QED BY <1>1, <1>2, <1>3, <1>4 DEF WorkerOK, Stays, Executing, Holds, RunPCs

LEMMA TakeTaskMoves ==
    ASSUME TypeOK, NEW w \in Workers, NEW t \in Targets,
           Goto(w, [Idle EXCEPT !.pc = "create", !.target = t])
    PROVE  Advances(w) /\ worker'[w].pc = "create" /\ worker'[w].target = t
<1> DEFINE x == [Idle EXCEPT !.pc = "create", !.target = t]
<1>1. x \in Worker /\ x.pc = "create" /\ x.target = t /\ ~x.again
  BY DEF Worker, Idle, PCs
<1>2. Goto(w, x)
  OBVIOUS
<1> HIDE DEF x
<1>3. Moves(w) /\ worker'[w] = x
  BY <1>1, <1>2, GotoMoves
<1>. QED BY <1>1, <1>3 DEF Advances, WorkerOK, Drops, Holds, RunPCs

LEMMA TakeRetryMoves ==
    ASSUME TypeOK, NEW w \in Workers, NEW q \in retries, TakeRetry(w, q)
    PROVE  /\ Moves(w) /\ WorkerOK(w)' /\ worker'[w].pc = "acquire"
           /\ worker'[w].run = q.run /\ Holds(w)' /\ q.run \in RunIds
<1> DEFINE x == [Idle EXCEPT !.pc = "acquire", !.target = q.target, !.run = q.run, !.attempt = q.attempt]
<1>1. q \in Retry
  BY DEF TypeOK
<1>2. x \in Worker /\ x.pc = "acquire" /\ x.target = q.target /\ x.run = q.run /\ ~x.again
  BY <1>1 DEF Worker, Idle, PCs, Retry
<1>3. Goto(w, x)
  BY DEF TakeRetry
<1> HIDE DEF x
<1>4. Moves(w) /\ worker'[w] = x
  BY <1>2, <1>3, GotoMoves
<1>. QED BY <1>1, <1>2, <1>4 DEF WorkerOK, Holds, RunPCs, Retry

-----------------------------------------------------------------------------
(* The storage.                                                            *)

LEMMA AllOK ==
    ASSUME StorageInv, NEW w \in Workers, Moves(w), WorkerOK(w)'
    PROVE  \A v \in Workers : WorkerOK(v)'
  BY DEF StorageInv, WorkerOK, Moves, Holds

\* A step that stores nothing.
LEMMA StorageKept ==
    ASSUME StorageInv, TypeOK', UNCHANGED <<items, cursor>>, \A w \in Workers : WorkerOK(w)',
           \A r \in RunIds : runs'[r].fetched = runs[r].fetched /\ (Absent(r)' => Absent(r))
    PROVE  StorageInv'
  BY DEF StorageInv, StoredOnceUpToCursor, Absent

LEMMA RowsTyped ==
    ASSUME TypeOK, NEW r \in RunIds, NEW row \in Run, runs' = [runs EXCEPT ![r] = row],
           row.status # "absent", row.fetched = runs[r].fetched
    PROVE  /\ runs' \in [RunIds -> Run]
           /\ \A q \in RunIds : runs'[q].fetched = runs[q].fetched /\ (Absent(q)' => Absent(q))
  BY DEF TypeOK, Absent

LEMMA MoreTyped == failures \in Nat => More(failures) \in Nat
  BY DEF More

\* A step of one worker that leaves the tables alone.
LEMMA QuietStorage ==
    ASSUME StorageInv, NEW w \in Workers, Moves(w), WorkerOK(w)',
           UNCHANGED <<phase, slot, since, failures, runs, cursor, items, faults>>,
           lock' \in [Targets -> Lock], marker' \in [RunIds -> Nat],
           queue' \in [Targets -> 0..MaxQueued], retries' \subseteq Retry
    PROVE  StorageInv'
<1>1. TypeOK'
  BY DEF StorageInv, StoredOnceUpToCursor, TypeOK, Moves
<1>2. \A v \in Workers : WorkerOK(v)'
  BY AllOK
<1>. QED BY <1>1, <1>2, StorageKept DEF Absent

\* A step of one worker that touches nothing but itself.
LEMMA LocalStorage ==
    ASSUME StorageInv, NEW w \in Workers, Advances(w),
           UNCHANGED <<phase, slot, since, failures, runs, cursor, items, lock, marker, queue, retries, faults>>
    PROVE  StorageInv'
  BY QuietStorage DEF StorageInv, StoredOnceUpToCursor, TypeOK, Advances

\* A locked target: whoever asks for it, with whatever time.
LEMMA LockTyped ==
    ASSUME TypeOK, NEW t \in Targets, NEW l \in Lock, lock' = [lock EXCEPT ![t] = l]
    PROVE  lock' \in [Targets -> Lock]
  BY DEF TypeOK

LEMMA AcquireTyped ==
    ASSUME TypeOK, NEW w \in Workers, NEW t \in Targets, Acquire(w, t)
    PROVE  lock' \in [Targets -> Lock]
<1>1. [owner |-> w, left |-> LockTtl] \in Lock
  BY LegacyAssumption DEF Lock
<1>. QED BY <1>1, LockTyped DEF Acquire

LEMMA LocalStorageSteps ==
    ASSUME StorageInv, NEW w \in Workers,
           \/ LoadCursor(w) \/ Fetch(w) \/ FetchedTooLate(w) \/ FetchFails(w) \/ PersistRefused(w)
           \/ Unclassified(w) \/ DatabaseFails(w) \/ RecordRetry(w)
    PROVE  StorageInv' /\ Advances(w) /\ Stays(w)
<1>1. TypeOK /\ WorkerOK(w)
  BY DEF StorageInv, StoredOnceUpToCursor
<1>2. Advances(w) /\ Stays(w)
  BY <1>1, LoadCursorMoves, FetchMoves, FailuresMove, DatabaseFailsMoves, RecordRetryMoves
<1>3. UNCHANGED <<phase, slot, since, failures, runs, cursor, items, lock, marker, queue, retries, faults>>
  BY DEF LoadCursor, Fetch, FetchedTooLate, FetchFails, PersistRefused, Unclassified, DatabaseFails,
         RecordRetry
<1>. QED BY <1>2, <1>3, LocalStorage

LEMMA StartRetryStorage ==
    ASSUME StorageInv, NEW w \in Workers, StartRetry(w)
    PROVE  StorageInv' /\ Advances(w)
<1>1. TypeOK /\ WorkerOK(w) /\ worker[w].target \in Targets
  BY DEF StorageInv, StoredOnceUpToCursor, WorkerOK, StartRetry
<1>2. Advances(w)
  BY <1>1, StartRetryMoves
<1>3. lock' \in [Targets -> Lock]
  BY <1>1, AcquireTyped DEF StartRetry, TypeOK
<1>. QED BY <1>1, <1>2, <1>3, QuietStorage DEF StartRetry, TypeOK, Advances

LEMMA ReleaseStorage ==
    ASSUME StorageInv, NEW w \in Workers, Release(w)
    PROVE  StorageInv' /\ Advances(w)
<1>1. TypeOK /\ WorkerOK(w) /\ worker[w].target \in Targets
  BY DEF StorageInv, StoredOnceUpToCursor, WorkerOK, Release
<1>2. Advances(w)
  BY <1>1, ReleaseMoves
<1>3. FreeLock \in Lock
  BY DEF FreeLock, Lock
<1>4. lock' \in [Targets -> Lock]
  BY <1>1, <1>3, LockTyped DEF Release, TypeOK
<1>. QED BY <1>1, <1>2, <1>4, QuietStorage DEF Release, TypeOK, Advances

LEMMA MarkRetryStorage ==
    ASSUME StorageInv, NEW w \in Workers, MarkRetry(w)
    PROVE  StorageInv' /\ Advances(w)
<1>1. TypeOK /\ WorkerOK(w)
  BY DEF StorageInv, StoredOnceUpToCursor
<1>2. Advances(w) /\ worker[w].run \in RunIds /\ worker[w].delay \in Nat
  BY <1>1, MarkRetryMoves
<1>3. marker' \in [RunIds -> Nat]
  BY <1>1, <1>2, LegacyAssumption DEF MarkRetry, TypeOK
<1>. QED BY <1>1, <1>2, <1>3, QuietStorage DEF MarkRetry, TypeOK, Advances

LEMMA ResendStorage ==
    ASSUME StorageInv, NEW w \in Workers, Resend(w)
    PROVE  StorageInv' /\ Advances(w) /\ Drops(w)
<1>1. TypeOK /\ WorkerOK(w) /\ worker[w].pc \in RunPCs
  BY DEF StorageInv, StoredOnceUpToCursor, Resend, RunPCs
<1>2. Advances(w) /\ Drops(w)
  BY <1>1, IdleAdvances, GotoIdle DEF Resend
<1>3. worker[w].target \in Targets /\ worker[w].run \in RunIds /\ worker[w].attempt \in Nat
      /\ worker[w].delay \in Nat
  BY <1>1 DEF WorkerOK, Holds, TypeOK, Worker, RunPCs
<1>4. retries' \subseteq Retry
  BY <1>1, <1>3 DEF Resend, Retry, TypeOK
<1>. QED BY <1>1, <1>2, <1>4, QuietStorage DEF Resend, TypeOK, Advances

LEMMA TakeTaskStorage ==
    ASSUME StorageInv, NEW w \in Workers, NEW t \in Targets, TakeTask(w, t)
    PROVE  StorageInv' /\ (Advances(w) \/ UNCHANGED worker)
<1>1. TypeOK /\ WorkerOK(w)
  BY DEF StorageInv, StoredOnceUpToCursor
<1>2. queue' \in [Targets -> 0..MaxQueued]
  <2>1. queue[t] \in 0..MaxQueued /\ queue[t] > 0
    BY <1>1 DEF TypeOK, TakeTask
  <2>2. queue[t] - 1 \in 0..MaxQueued
    BY <2>1, LegacyAssumption
  <2>. QED BY <1>1, <2>2 DEF TypeOK, TakeTask
<1>3. CASE UNCHANGED <<lock, worker>>
  <2>1. TypeOK'
    BY <1>1, <1>2, <1>3 DEF TypeOK, TakeTask
  <2>2. \A v \in Workers : WorkerOK(v)'
    BY <1>3 DEF StorageInv, WorkerOK, Holds
  <2>. QED BY <1>3, <2>1, <2>2, StorageKept DEF TakeTask, Absent
<1>4. CASE Acquire(w, t) /\ Goto(w, [Idle EXCEPT !.pc = "create", !.target = t])
  <2>1. Advances(w)
    BY <1>1, <1>4, TakeTaskMoves
  <2>2. lock' \in [Targets -> Lock]
    BY <1>1, <1>4, AcquireTyped
  <2>. QED BY <1>1, <1>2, <2>1, <2>2, QuietStorage DEF TakeTask, TypeOK, Advances
<1>. QED BY <1>3, <1>4 DEF TakeTask

LEMMA TakeRetryStorage ==
    ASSUME StorageInv, NEW w \in Workers, NEW q \in retries, TakeRetry(w, q)
    PROVE  StorageInv'
<1>1. TypeOK
  BY DEF StorageInv, StoredOnceUpToCursor
<1>2. Moves(w) /\ WorkerOK(w)' /\ q.run \in RunIds
  BY <1>1, TakeRetryMoves
<1>. QED BY <1>1, <1>2, QuietStorage DEF TakeRetry, TypeOK

LEMMA CreateRunStorage ==
    ASSUME StorageInv, NEW w \in Workers, CreateRun(w)
    PROVE  StorageInv'
<1>1. TypeOK /\ WorkerOK(w)
  BY DEF StorageInv, StoredOnceUpToCursor
<1>2. PICK r \in RunIds :
          /\ \A q \in RunIds : runs[q].status = "absent" <=> q >= r
          /\ runs' = [runs EXCEPT ![r] = [NoRun EXCEPT !.target = worker[w].target, !.status = "running"]]
          /\ Goto(w, [At(w, "load") EXCEPT !.run = r])
  BY DEF CreateRun
<1> DEFINE row == [NoRun EXCEPT !.target = worker[w].target, !.status = "running"]
<1>3. Moves(w) /\ WorkerOK(w)' /\ worker[w].target \in Targets
  BY <1>1, <1>2, CreateMoves DEF CreateRun
<1>4. row \in Run /\ row.status = "running" /\ row.fetched = 0
  BY <1>3 DEF NoRun, Run
<1>5. runs[r].fetched = 0 /\ r \in Nat
  BY <1>2 DEF StorageInv, Absent, RunIds
<1>6. runs' = [runs EXCEPT ![r] = row]
  BY <1>2
<1> HIDE DEF row
<1>7. /\ runs' \in [RunIds -> Run]
      /\ \A q \in RunIds : runs'[q].fetched = runs[q].fetched /\ (Absent(q)' => Absent(q))
  BY <1>1, <1>4, <1>5, <1>6, RowsTyped
<1>8. TypeOK'
  BY <1>1, <1>3, <1>7 DEF TypeOK, CreateRun, Moves
<1>9. \A v \in Workers : WorkerOK(v)'
  BY <1>3, AllOK
<1>. QED BY <1>7, <1>8, <1>9, StorageKept DEF CreateRun

LEMMA FinishStorage ==
    ASSUME StorageInv, NEW w \in Workers, FinishSuccess(w) \/ FinishFailure(w)
    PROVE  StorageInv' /\ Advances(w) /\ Drops(w) /\ Stays(w)
<1> DEFINE r == worker[w].run
           row == [runs[r] EXCEPT !.status = "succeeded", !.age = 0]
<1>1. TypeOK /\ WorkerOK(w)
  BY DEF StorageInv, StoredOnceUpToCursor
<1>2. Advances(w) /\ Drops(w) /\ Stays(w) /\ r \in RunIds
  BY <1>1, FinishMoves
<1>3. runs[r] \in Run
  BY <1>1, <1>2 DEF TypeOK
<1>4. row \in Run /\ row.status = "succeeded" /\ row.fetched = runs[r].fetched
  BY <1>3 DEF Run
<1>5. /\ Judged(runs[r]) \in Run /\ Judged(runs[r]).status \in Ended
      /\ Judged(runs[r]).fetched = runs[r].fetched
  BY <1>3 DEF Run, Judged, Ended
<1>6. PICK x \in Run : /\ runs' = [runs EXCEPT ![r] = x]
                       /\ x.status # "absent" /\ x.fetched = runs[r].fetched
  BY <1>2, <1>4, <1>5 DEF FinishSuccess, FinishFailure, Ended
<1> HIDE DEF r
<1>7. /\ runs' \in [RunIds -> Run]
      /\ \A q \in RunIds : runs'[q].fetched = runs[q].fetched /\ (Absent(q)' => Absent(q))
  BY <1>1, <1>2, <1>6, RowsTyped
<1>8. failures' \in Nat
  BY <1>1, MoreTyped DEF FinishSuccess, FinishFailure, TypeOK
<1>9. UNCHANGED <<phase, slot, since, cursor, items, lock, marker, queue, retries, faults>>
  BY DEF FinishSuccess, FinishFailure
<1>10. TypeOK'
  BY <1>1, <1>2, <1>7, <1>8, <1>9 DEF TypeOK, Advances, Moves
<1>11. \A v \in Workers : WorkerOK(v)'
  BY <1>2, AllOK DEF Advances
<1>. QED BY <1>2, <1>7, <1>9, <1>10, <1>11, StorageKept

LEMMA RecoverStorage ==
    ASSUME StorageInv, NEW r \in RunIds, RecoverStale(r)
    PROVE  StorageInv'
<1> DEFINE row == [runs[r] EXCEPT !.status = "failed", !.age = 0, !.recovered = TRUE]
<1>1. TypeOK /\ runs[r] \in Run
  BY DEF StorageInv, StoredOnceUpToCursor, TypeOK
<1>2. row \in Run /\ row.status = "failed" /\ row.fetched = runs[r].fetched
  BY <1>1 DEF Run
<1>3. runs' = [runs EXCEPT ![r] = row]
  BY DEF RecoverStale
<1> HIDE DEF row
<1>4. /\ runs' \in [RunIds -> Run]
      /\ \A q \in RunIds : runs'[q].fetched = runs[q].fetched /\ (Absent(q)' => Absent(q))
  BY <1>1, <1>2, <1>3, RowsTyped
<1>5. TypeOK'
  BY <1>1, <1>4, MoreTyped DEF TypeOK, RecoverStale
<1>6. \A v \in Workers : WorkerOK(v)'
  BY DEF StorageInv, WorkerOK, Holds, RecoverStale
<1>. QED BY <1>4, <1>5, <1>6, StorageKept DEF RecoverStale

LEMMA CrashStorage ==
    ASSUME StorageInv, NEW w \in Workers, Crash(w)
    PROVE  StorageInv' /\ Advances(w) /\ Drops(w)
<1> DEFINE l == [lock[worker[w].target] EXCEPT !.owner = NoWorker]
<1>1. TypeOK /\ worker[w].target \in Targets
  BY DEF StorageInv, StoredOnceUpToCursor, WorkerOK, Crash
<1>2. Advances(w) /\ Drops(w)
  BY <1>1, IdleAdvances, GotoIdle DEF Crash
<1>3. l \in Lock
  BY <1>1 DEF TypeOK, Lock
<1>4. lock' = lock \/ lock' = [lock EXCEPT ![worker[w].target] = l]
  BY DEF Crash
<1> HIDE DEF l
<1>5. lock' \in [Targets -> Lock]
  BY <1>1, <1>3, <1>4, LockTyped DEF TypeOK
<1>6. TypeOK'
  BY <1>1, <1>2, <1>5 DEF TypeOK, Crash, Advances, Moves
<1>7. \A v \in Workers : WorkerOK(v)'
  BY <1>2, AllOK DEF Advances
<1>. QED BY <1>2, <1>6, <1>7, StorageKept DEF Crash, Absent

LEMMA RenewStorage ==
    ASSUME StorageInv, NEW w \in Workers, Renew(w)
    PROVE  StorageInv'
<1> DEFINE l == [lock[worker[w].target] EXCEPT !.left = LockTtl]
<1>1. TypeOK /\ worker[w].target \in Targets
  BY DEF StorageInv, StoredOnceUpToCursor, WorkerOK, Renew, Executing
<1>2. l \in Lock
  BY <1>1, LegacyAssumption DEF TypeOK, Lock
<1>3. lock' = [lock EXCEPT ![worker[w].target] = l]
  BY DEF Renew
<1> HIDE DEF l
<1>4. lock' \in [Targets -> Lock]
  BY <1>1, <1>2, <1>3, LockTyped
<1>5. TypeOK'
  BY <1>1, <1>4 DEF TypeOK, Renew
<1>6. \A v \in Workers : WorkerOK(v)'
  BY DEF StorageInv, WorkerOK, Holds, Renew
<1>. QED BY <1>5, <1>6, StorageKept DEF Renew, Absent

LEMMA DispatchStorage ==
    ASSUME StorageInv, NEW t \in Targets, Dispatch(t) \/ DispatchDies(t)
    PROVE  StorageInv'
<1>1. TypeOK
  BY DEF StorageInv, StoredOnceUpToCursor
<1>2. queue' \in [Targets -> 0..MaxQueued]
  <2>1. CASE Dispatch(t)
    <3>1. queue[t] + 1 \in 0..MaxQueued
      BY <1>1, <2>1, LegacyAssumption DEF TypeOK, Dispatch
    <3>. QED BY <1>1, <2>1, <3>1 DEF TypeOK, Dispatch
  <2>2. CASE DispatchDies(t)
    BY <1>1, <2>2 DEF TypeOK, DispatchDies
  <2>. QED BY <2>1, <2>2
<1>3. slot' \subseteq Targets /\ faults' \in Nat
  BY <1>1 DEF TypeOK, Dispatch, DispatchDies
<1>4. UNCHANGED <<phase, since, failures, runs, cursor, items, lock, marker, retries, worker>>
  BY DEF Dispatch, DispatchDies
<1>5. TypeOK'
  BY <1>1, <1>2, <1>3, <1>4 DEF TypeOK
<1>6. \A v \in Workers : WorkerOK(v)'
  BY <1>4 DEF StorageInv, WorkerOK, Holds
<1>. QED BY <1>4, <1>5, <1>6, StorageKept DEF Absent

\* A tick changes ages, what is left of locks and markers, and the waits of retries.
LEMMA TickRuns ==
    ASSUME TypeOK, Tick, NEW r \in RunIds
    PROVE  /\ runs'[r] \in Run /\ runs'[r].status = runs[r].status /\ runs'[r].fetched = runs[r].fetched
           /\ runs'[r].recovered = runs[r].recovered
<1> DEFINE row == [runs[r] EXCEPT !.age = @ + 1]
<1>1. runs[r] \in Run
  BY DEF TypeOK
<1>2. row \in Run /\ row.status = runs[r].status /\ row.fetched = runs[r].fetched
      /\ row.recovered = runs[r].recovered
  BY <1>1 DEF Run
<1>3. runs'[r] = row \/ runs'[r] = runs[r]
  BY DEF Tick
<1>. QED BY <1>1, <1>2, <1>3

LEMMA TickRetries ==
    ASSUME TypeOK, Tick
    PROVE  /\ retries' \subseteq Retry
           /\ \A p \in retries' : \E q \in retries :
                 p = [q EXCEPT !.wait = Less(@)] /\ p.run = q.run
<1>1. SUFFICES ASSUME NEW q \in retries
               PROVE  [q EXCEPT !.wait = Less(@)] \in Retry /\ [q EXCEPT !.wait = Less(@)].run = q.run
  BY DEF Tick
<1>2. q \in Retry
  BY DEF TypeOK
<1>3. Less(q.wait) \in Nat
  BY <1>2 DEF Less, Retry
<1>. QED BY <1>2, <1>3 DEF Retry

LEMMA TickStorage ==
    ASSUME StorageInv, Tick
    PROVE  StorageInv'
<1>1. TypeOK
  BY DEF StorageInv, StoredOnceUpToCursor
<1>2. phase' \in 0..(Schedule - 1)
  <2>1. phase \in Nat /\ Schedule \in Nat \ {0}
    BY <1>1, LegacyAssumption DEF TypeOK
  <2>2. (phase + 1) % Schedule \in 0..(Schedule - 1)
    BY <2>1
  <2>. QED BY <2>2 DEF Tick
<1>3. slot' \subseteq Targets /\ since' \in Nat
  BY <1>1 DEF TypeOK, Tick
<1>4. runs' \in [RunIds -> Run]
  BY <1>1, TickRuns DEF Tick
<1>5. lock' \in [Targets -> Lock]
  <2>1. SUFFICES ASSUME NEW t \in Targets
                 PROVE  (IF lock[t].left <= 1 THEN FreeLock ELSE [lock[t] EXCEPT !.left = @ - 1]) \in Lock
    BY DEF Tick
  <2>2. lock[t] \in Lock /\ FreeLock \in Lock
    BY <1>1 DEF TypeOK, FreeLock, Lock
  <2>3. ~(lock[t].left <= 1) => lock[t].left - 1 \in Nat
    BY <2>2 DEF Lock
  <2>. QED BY <2>2, <2>3 DEF Lock
<1>6. marker' \in [RunIds -> Nat]
  <2>1. \A r \in RunIds : marker[r] \in Nat /\ Less(marker[r]) \in Nat
    BY <1>1 DEF TypeOK, Less
  <2>. QED BY <2>1 DEF Tick
<1>7. faults' \in Nat
  <2>1. Stalled \subseteq Targets
    BY DEF Stalled
  <2>2. Cardinality(Stalled) \in Nat
    BY <2>1, LegacyAssumption, FS_Subset, FS_CardinalityType
  <2>. QED BY <1>1, <2>2 DEF TypeOK, Tick
<1>8. TypeOK'
  BY <1>1, <1>2, <1>3, <1>4, <1>5, <1>6, <1>7, TickRetries DEF TypeOK, Tick
<1>9. \A v \in Workers : WorkerOK(v)'
  BY DEF StorageInv, WorkerOK, Holds, Tick
<1>10. \A r \in RunIds : runs'[r].fetched = runs[r].fetched /\ (Absent(r)' => Absent(r))
  BY <1>1, TickRuns DEF Absent
<1>. QED BY <1>8, <1>9, <1>10, StorageKept DEF Tick

\* The items of a batch, one for each number.
LEMMA BatchSize ==
    ASSUME NEW t, NEW r, NEW a \in Nat, NEW b \in Nat
    PROVE  LET B == [target : {t}, run : {r}, number : (a + 1)..b]
           IN  IsFiniteSet(B) /\ Cardinality(B) \in Nat
<1> DEFINE B == [target : {t}, run : {r}, number : (a + 1)..b]
           f == [n \in (a + 1)..b |-> [target |-> t, run |-> r, number |-> n]]
<1>1. f \in Surjection((a + 1)..b, B)
  <2>1. f \in [(a + 1)..b -> B]
    OBVIOUS
  <2>2. \A i \in B : i.number \in (a + 1)..b /\ f[i.number] = i
    OBVIOUS
  <2>. QED BY <2>1, <2>2 DEF Surjection
<1>2. IsFiniteSet((a + 1)..b)
  BY FS_Interval
<1> HIDE DEF f, B
<1>3. IsFiniteSet(B)
  BY <1>1, <1>2, FS_Surjection
<1>. QED BY <1>3, FS_CardinalityType DEF B

\* The numbers behind a cursor that moves from a to b, and the items that were in front of it.
LEMMA Reaches ==
    ASSUME NEW a \in Nat, NEW b \in Nat, a <= b
    PROVE  (1..a) \cup ((a + 1)..b) = 1..b
  OBVIOUS

LEMMA PersistStorage ==
    ASSUME StorageInv, NEW w \in Workers, PersistCheckpoint(w)
    PROVE  StorageInv' /\ Advances(w) /\ Stays(w)
<1> DEFINE r == worker[w].run
           t == worker[w].target
           a == worker[w].snap
           b == worker[w].next
           B == Batch(w)
           row == [runs[r] EXCEPT !.fetched = @ + Cardinality(B)]
<1>1. TypeOK /\ WorkerOK(w)
  BY DEF StorageInv, StoredOnceUpToCursor
<1>2. /\ Advances(w) /\ Stays(w)
      /\ r \in RunIds /\ t \in Targets /\ a \in Nat /\ b \in Nat /\ a <= b /\ b <= MaxItems
  BY <1>1, PersistMoves
<1>3. /\ items' = items \cup B
      /\ runs' = [runs EXCEPT ![r] = row]
      /\ cursor' = [cursor EXCEPT ![t] = b]
      /\ runs[r].status = "running"
      /\ cursor[t] = a
      /\ \A i \in items : i.target = t => i.number \notin (a + 1)..b
  BY DEF PersistCheckpoint, Accepts, Stale
<1>4. B = [target : {t}, run : {r}, number : (a + 1)..b]
  BY DEF Batch
<1>6. UNCHANGED <<phase, slot, since, failures, lock, marker, queue, retries, faults>>
  BY DEF PersistCheckpoint
<1>7. runs[r] \in Run
  BY <1>1, <1>2 DEF TypeOK
<1> HIDE DEF r, t, a, b, B
<1>5. IsFiniteSet(B) /\ Cardinality(B) \in Nat
  <2>1. IsFiniteSet([target : {t}, run : {r}, number : (a + 1)..b])
    BY <1>2, BatchSize
  <2>. QED BY <1>4, <2>1, FS_CardinalityType
<1>8. row \in Run /\ row.fetched = runs[r].fetched + Cardinality(B) /\ row.status = runs[r].status
  BY <1>5, <1>7 DEF Run
<1> HIDE DEF row
<1>9. \A i \in B : i \in Item /\ i.target = t /\ i.run = r /\ i.number \in (a + 1)..b
  BY <1>2, <1>4, LegacyAssumption DEF Item
<1>10. B \cap items = {}
  BY <1>3, <1>9
<1>11. TypeOK'
  <2>1. runs' \in [RunIds -> Run]
    BY <1>1, <1>2, <1>3, <1>8 DEF TypeOK
  <2>2. cursor' \in [Targets -> 0..MaxItems]
    BY <1>1, <1>2, <1>3, LegacyAssumption DEF TypeOK
  <2>3. items' \subseteq Item
    BY <1>1, <1>3, <1>9 DEF TypeOK
  <2>4. worker' \in [Workers -> Worker]
    BY <1>2 DEF Advances, Moves
  <2>. QED BY <1>1, <1>6, <2>1, <2>2, <2>3, <2>4 DEF TypeOK
<1>12. \A u \in Targets : {i.number : i \in {i \in items' : i.target = u}} = 1..cursor'[u]
  <2>1. SUFFICES ASSUME NEW u \in Targets
                 PROVE  {i.number : i \in {i \in items' : i.target = u}} = 1..cursor'[u]
    OBVIOUS
  <2>2. {i.number : i \in {i \in items : i.target = u}} = 1..cursor[u]
    BY DEF StorageInv, StoredOnceUpToCursor
  <2>3. CASE u # t
    <3>1. {i \in items' : i.target = u} = {i \in items : i.target = u}
      BY <1>3, <1>9, <2>3
    <3>2. cursor'[u] = cursor[u]
      BY <1>1, <1>3, <2>3 DEF TypeOK
    <3>. QED BY <2>2, <3>1, <3>2
  <2>4. CASE u = t
    <3>1. {i \in items' : i.target = u} = {i \in items : i.target = u} \cup B
      BY <1>3, <1>9, <2>4
    <3>2. {i.number : i \in B} = (a + 1)..b
      <4>1. \A n \in (a + 1)..b : \E i \in B : i.number = n
        <5>1. SUFFICES ASSUME NEW n \in (a + 1)..b PROVE \E i \in B : i.number = n
          OBVIOUS
        <5>2. [target |-> t, run |-> r, number |-> n] \in B
          BY <1>4
        <5>. QED BY <5>2
      <4>. QED BY <1>9, <4>1
    <3>3. {i.number : i \in {i \in items' : i.target = u}} = (1..a) \cup ((a + 1)..b)
      BY <1>3, <2>2, <2>4, <3>1, <3>2
    <3>4. cursor'[u] = b
      BY <1>1, <1>2, <1>3, <2>4 DEF TypeOK
    <3>. QED BY <1>2, <3>3, <3>4, Reaches
  <2>. QED BY <2>3, <2>4
<1>13. \A i, j \in items' : i.target = j.target /\ i.number = j.number => i = j
  <2>1. \A i, j \in items : i.target = j.target /\ i.number = j.number => i = j
    BY DEF StorageInv, StoredOnceUpToCursor
  <2>2. \A i, j \in B : i.number = j.number => i = j
    BY <1>4
  <2>3. \A i \in items, j \in B : i.target = j.target => i.number # j.number
    BY <1>3, <1>9
  <2>. QED BY <1>3, <2>1, <2>2, <2>3
<1>14. \A q \in RunIds : runs'[q].fetched = Cardinality({i \in items' : i.run = q})
  <2>1. SUFFICES ASSUME NEW q \in RunIds
                 PROVE  runs'[q].fetched = Cardinality({i \in items' : i.run = q})
    OBVIOUS
  <2> DEFINE S == {i \in items : i.run = q}
  <2>2. runs[q].fetched = Cardinality(S) /\ IsFiniteSet(items)
    BY DEF StorageInv, StoredOnceUpToCursor
  <2>3. CASE q # r
    <3>1. {i \in items' : i.run = q} = S
      BY <1>3, <1>9, <2>3
    <3>2. runs'[q] = runs[q]
      BY <1>1, <1>3, <2>3 DEF TypeOK
    <3>. QED BY <2>2, <3>1, <3>2
  <2>4. CASE q = r
    <3>1. {i \in items' : i.run = q} = S \cup B
      BY <1>3, <1>9, <2>4
    <3>2. IsFiniteSet(S)
      BY <2>2, FS_Subset
    <3>3. S \cap B = {}
      BY <1>10
    <3> HIDE DEF S
    <3>4. Cardinality(S \cup B) = Cardinality(S) + Cardinality(B)
      <4>1. Cardinality(S \cup B) = Cardinality(S) + Cardinality(B) - Cardinality(S \cap B)
        BY <1>5, <3>2, FS_Union
      <4>2. Cardinality(S \cap B) = 0
        BY <3>3, FS_EmptySet
      <4>3. Cardinality(S) \in Nat
        BY <3>2, FS_CardinalityType
      <4>. QED BY <1>5, <4>1, <4>2, <4>3
    <3>5. runs'[q] = row
      BY <1>1, <1>2, <1>3, <2>4 DEF TypeOK
    <3>. QED BY <1>8, <2>2, <2>4, <3>1, <3>4, <3>5
  <2>. QED BY <2>3, <2>4
<1>15. IsFiniteSet(items')
  BY <1>3, <1>5, FS_Union DEF StorageInv
<1>16. \A q \in RunIds : Absent(q)' => runs'[q].fetched = 0
  BY <1>1, <1>3, <1>8 DEF StorageInv, Absent, TypeOK
<1>17. \A v \in Workers : WorkerOK(v)'
  BY <1>2, AllOK DEF Advances
<1>. QED BY <1>2, <1>11, <1>12, <1>13, <1>14, <1>15, <1>16, <1>17 DEF StorageInv, StoredOnceUpToCursor

LEMMA StorageInit == Init => StorageInv
<1> SUFFICES ASSUME Init PROVE StorageInv
  OBVIOUS
<1>1. TypeOK
  <2>1. NoRun \in Run /\ FreeLock \in Lock
    BY DEF NoRun, Run, FreeLock, Lock
  <2>2. LongAgo \in Nat /\ 0 \in 0..(Schedule - 1)
    BY LegacyAssumption DEF LongAgo
  <2>3. 0 \in 0..MaxItems /\ 0 \in 0..MaxQueued
    BY LegacyAssumption
  <2>. QED BY <2>1, <2>2, <2>3, IdleTyped DEF Init, TypeOK
<1>2. \A w \in Workers : WorkerOK(w)
  BY DEF Init, WorkerOK, Idle, Holds, RunPCs
<1>3. \A r \in RunIds : runs[r].fetched = 0
  BY DEF Init, NoRun
<1>4. \A t \in Targets : {i.number : i \in {i \in items : i.target = t}} = 1..cursor[t]
  BY DEF Init
<1>5. \A r \in RunIds : {i \in items : i.run = r} = {}
  BY DEF Init
<1>6. \A r \in RunIds : runs[r].fetched = Cardinality({i \in items : i.run = r})
  BY <1>3, <1>5, FS_EmptySet
<1>7. items = {} /\ IsFiniteSet(items)
  BY FS_EmptySet DEF Init
<1>. QED BY <1>1, <1>2, <1>3, <1>4, <1>6, <1>7 DEF StorageInv, StoredOnceUpToCursor

LEMMA StorageNext == StorageInv /\ [Next]_vars => StorageInv'
<1> SUFFICES ASSUME StorageInv, [Next]_vars PROVE StorageInv'
  OBVIOUS
<1>1. CASE Tick
  BY <1>1, TickStorage
<1>2. ASSUME NEW t \in Targets, Dispatch(t) \/ DispatchDies(t) PROVE StorageInv'
  BY <1>2, DispatchStorage
<1>3. ASSUME NEW w \in Workers, Take(w) PROVE StorageInv'
  BY <1>3, TakeTaskStorage, TakeRetryStorage DEF Take
<1>4. ASSUME NEW w \in Workers, WorkerStep(w) PROVE StorageInv'
  BY <1>4, LocalStorageSteps, StartRetryStorage, CreateRunStorage, PersistStorage, FinishStorage,
     ReleaseStorage, MarkRetryStorage, ResendStorage DEF WorkerStep
<1>5. ASSUME NEW w \in Workers, Renew(w) \/ Crash(w) PROVE StorageInv'
  BY <1>5, RenewStorage, CrashStorage
<1>6. ASSUME NEW r \in RunIds, RecoverStale(r) PROVE StorageInv'
  BY <1>6, RecoverStorage
<1>7. CASE UNCHANGED vars
  BY <1>7 DEF vars, StorageInv, StoredOnceUpToCursor, TypeOK, WorkerOK, Holds, Absent
<1>. QED BY <1>1, <1>2, <1>3, <1>4, <1>5, <1>6, <1>7 DEF Next

\* What is stored and what the workers carry to store stay in order: the induction.
THEOREM StorageInvariance == Spec => []StorageInv
  BY StorageInit, StorageNext, PTL DEF Spec

\* StoredOnceUpToCursor: the items of an account are exactly the ones behind its cursor, each
\* stored by one run that counted it, however many workers, dead locks, retries and recoveries
\* meet at one account.
THEOREM ItemsAreStoredOnce == Spec => []StoredOnceUpToCursor
<1>1. StorageInv => StoredOnceUpToCursor
  BY DEF StorageInv
<1>. QED BY <1>1, StorageInvariance, PTL

-----------------------------------------------------------------------------
(* The chains.                                                             *)

\* A step of w that hands no run on but to itself, and ends none but its own, which it lets go.
LEMMA ChainsAdvance ==
    ASSUME IInv, NEW w \in Workers, Moves(w), Carries(w) \/ Drops(w), retries' \subseteq retries,
           \A r \in RunIds : Open(r) => Open(r)' \/ (Holds(w) /\ worker[w].run = r /\ Drops(w))
    PROVE  OneChain' /\ ChainsOpen'
<1>1. \A v \in Workers : Holds(v)' => Holds(v) /\ worker'[v].run = worker[v].run
  BY DEF Moves, Carries, Drops, Same, Holds
<1>2. \A v \in Workers : Holds(v) => worker[v].run \in RunIds
  BY DEF IInv, StorageInv, WorkerOK
<1>3. \A q \in retries : q.run \in RunIds
  BY DEF IInv, StorageInv, StoredOnceUpToCursor, TypeOK, Retry
<1>4. OneChain'
  BY <1>1 DEF IInv, OneChain
<1>5. ASSUME NEW v \in Workers, Holds(v)' PROVE Open(worker[v].run)'
  <2>1. Holds(v) /\ worker[v].run \in RunIds /\ worker'[v].run = worker[v].run /\ Open(worker[v].run)
    BY <1>1, <1>2, <1>5 DEF IInv, ChainsOpen
  <2>2. ~(Holds(w) /\ worker[w].run = worker[v].run /\ Drops(w))
    BY <1>5, <2>1 DEF IInv, OneChain, Drops
  <2>. QED BY <2>1, <2>2
<1>6. ASSUME NEW q \in retries' PROVE Open(q.run)'
  <2>1. q \in retries /\ q.run \in RunIds /\ Open(q.run)
    BY <1>3 DEF IInv, ChainsOpen
  <2>2. ~(Holds(w) /\ worker[w].run = q.run)
    BY <2>1 DEF IInv, OneChain
  <2>. QED BY <2>1, <2>2
<1>7. ChainsOpen'
  BY <1>5, <1>6 DEF ChainsOpen
<1>. QED BY <1>4, <1>7

\* A step that moves no worker, sends no retry and ends no run but to recover it.
LEMMA ChainsKept ==
    ASSUME IInv, UNCHANGED worker, retries' \subseteq retries,
           \A r \in RunIds : Open(r) => Open(r)'
    PROVE  OneChain' /\ ChainsOpen'
<1>1. \A v \in Workers : Holds(v)' <=> Holds(v)
  BY DEF Holds
<1>2. \A v \in Workers : Holds(v) => worker[v].run \in RunIds
  BY DEF IInv, StorageInv, WorkerOK
<1>3. \A q \in retries : q.run \in RunIds
  BY DEF IInv, StorageInv, StoredOnceUpToCursor, TypeOK, Retry
<1>4. OneChain'
  BY <1>1 DEF IInv, OneChain
<1>5. ASSUME NEW v \in Workers, Holds(v)' PROVE Open(worker[v].run)'
  <2>1. worker'[v].run = worker[v].run /\ worker[v].run \in RunIds /\ Open(worker[v].run)
    BY <1>1, <1>2, <1>5 DEF IInv, ChainsOpen
  <2>. QED BY <2>1
<1>6. ASSUME NEW q \in retries' PROVE Open(q.run)'
  BY <1>3 DEF IInv, ChainsOpen
<1>. QED BY <1>4, <1>5, <1>6 DEF ChainsOpen

LEMMA OpenUnchanged == UNCHANGED runs => \A r \in RunIds : Open(r) => Open(r)'
  BY DEF Open, Absent

\* The steps of a worker that writes no run, sends no retry and takes none.
LEMMA QuietChains ==
    ASSUME IInv, NEW w \in Workers,
           \/ StartRetry(w) \/ LoadCursor(w) \/ Fetch(w) \/ FetchedTooLate(w) \/ FetchFails(w)
           \/ PersistRefused(w) \/ Unclassified(w) \/ DatabaseFails(w) \/ RecordRetry(w)
           \/ Release(w) \/ MarkRetry(w) \/ Crash(w)
    PROVE  OneChain' /\ ChainsOpen'
<1>1. Advances(w)
  BY LocalStorageSteps, StartRetryStorage, ReleaseStorage, MarkRetryStorage, CrashStorage DEF IInv
<1>2. UNCHANGED <<runs, retries>>
  BY DEF StartRetry, LoadCursor, Fetch, FetchedTooLate, FetchFails, PersistRefused, Unclassified,
         DatabaseFails, RecordRetry, Release, MarkRetry, Crash
<1>. QED BY <1>1, <1>2, ChainsAdvance, OpenUnchanged DEF Advances

LEMMA TakeTaskChains ==
    ASSUME IInv, NEW w \in Workers, NEW t \in Targets, TakeTask(w, t)
    PROVE  OneChain' /\ ChainsOpen'
<1>1. Advances(w) \/ UNCHANGED worker
  BY TakeTaskStorage DEF IInv
<1>2. UNCHANGED <<runs, retries>>
  BY DEF TakeTask
<1>. QED BY <1>1, <1>2, ChainsAdvance, ChainsKept, OpenUnchanged DEF Advances

LEMMA PersistChains ==
    ASSUME IInv, NEW w \in Workers, PersistCheckpoint(w)
    PROVE  OneChain' /\ ChainsOpen'
<1> DEFINE r == worker[w].run
           row == [runs[r] EXCEPT !.fetched = @ + Cardinality(Batch(w))]
<1>1. Advances(w) /\ TypeOK /\ r \in RunIds
  BY PersistStorage, PersistMoves DEF IInv, StorageInv, StoredOnceUpToCursor
<1>2. runs' = [runs EXCEPT ![r] = row] /\ UNCHANGED retries
  BY DEF PersistCheckpoint
<1>3. row.status = runs[r].status /\ row.recovered = runs[r].recovered
  BY <1>1 DEF TypeOK, Run
<1> HIDE DEF r, row
<1>4. \A q \in RunIds : Open(q) => Open(q)'
  BY <1>1, <1>2, <1>3 DEF Open, Absent, TypeOK
<1>. QED BY <1>1, <1>2, <1>4, ChainsAdvance DEF Advances

\* The judgement of a run whose chain ends with it.
LEMMA FinishChains ==
    ASSUME IInv, NEW w \in Workers, FinishSuccess(w) \/ FinishFailure(w)
    PROVE  OneChain' /\ ChainsOpen'
<1>1. Advances(w) /\ Drops(w) /\ TypeOK /\ Holds(w) /\ worker[w].run \in RunIds
  BY FinishStorage, FinishMoves
     DEF IInv, StorageInv, StoredOnceUpToCursor, FinishSuccess, FinishFailure, Holds, RunPCs
<1>2. UNCHANGED retries /\ \A q \in RunIds \ {worker[w].run} : runs'[q] = runs[q]
  BY <1>1 DEF FinishSuccess, FinishFailure, TypeOK
<1>3. \A q \in RunIds : Open(q) => Open(q)' \/ (Holds(w) /\ worker[w].run = q /\ Drops(w))
  BY <1>1, <1>2 DEF Open, Absent
<1>. QED BY <1>1, <1>2, <1>3, ChainsAdvance DEF Advances

LEMMA CreateRunChains ==
    ASSUME IInv, NEW w \in Workers, CreateRun(w)
    PROVE  OneChain' /\ ChainsOpen'
<1>1. TypeOK /\ WorkerOK(w)
  BY DEF IInv, StorageInv, StoredOnceUpToCursor
<1>2. PICK r \in RunIds :
          /\ \A q \in RunIds : runs[q].status = "absent" <=> q >= r
          /\ runs' = [runs EXCEPT ![r] = [NoRun EXCEPT !.target = worker[w].target, !.status = "running"]]
          /\ Goto(w, [At(w, "load") EXCEPT !.run = r])
  BY DEF CreateRun
<1>3. Moves(w) /\ worker'[w].run = r
  BY <1>1, <1>2, CreateMoves DEF CreateRun
<1>4. ~Open(r) /\ Open(r)' /\ \A q \in RunIds : Open(q) => Open(q)'
  <2>1. Absent(r)
    BY <1>2 DEF Absent, RunIds
  <2>2. runs'[r].status = "running" /\ \A q \in RunIds \ {r} : runs'[q] = runs[q]
    BY <1>1, <1>2 DEF TypeOK, NoRun
  <2>. QED BY <2>1, <2>2 DEF Open, Absent, Ended
<1>5. /\ \A v \in Workers : Holds(v) => worker[v].run \in RunIds /\ Open(worker[v].run)
      /\ \A q \in retries : q.run \in RunIds /\ Open(q.run)
  BY DEF IInv, ChainsOpen, StorageInv, WorkerOK, StoredOnceUpToCursor, TypeOK, Retry
<1>6. UNCHANGED retries /\ \A v \in Workers \ {w} : worker'[v] = worker[v] /\ (Holds(v)' <=> Holds(v))
  BY <1>3 DEF CreateRun, Moves, Holds
<1>7. OneChain'
  BY <1>3, <1>4, <1>5, <1>6 DEF IInv, OneChain
<1>8. ASSUME NEW v \in Workers, Holds(v)' PROVE Open(worker[v].run)'
  <2>1. CASE v = w
    BY <1>3, <1>4, <2>1
  <2>2. CASE v # w
    <3>1. worker'[v].run = worker[v].run /\ worker[v].run \in RunIds /\ Open(worker[v].run)
      BY <1>5, <1>6, <1>8, <2>2
    <3>. QED BY <1>4, <3>1
  <2>. QED BY <2>1, <2>2
<1>9. ASSUME NEW q \in retries' PROVE Open(q.run)'
  BY <1>4, <1>5, <1>6
<1>. QED BY <1>7, <1>8, <1>9 DEF ChainsOpen

LEMMA TakeRetryChains ==
    ASSUME IInv, NEW w \in Workers, NEW q \in retries, TakeRetry(w, q)
    PROVE  OneChain' /\ ChainsOpen'
<1>1. TypeOK
  BY DEF IInv, StorageInv, StoredOnceUpToCursor
<1>2. Moves(w) /\ worker'[w].run = q.run /\ q.run \in RunIds
  BY <1>1, TakeRetryMoves
<1>3. retries' = retries \ {q} /\ UNCHANGED runs
  BY DEF TakeRetry
<1>4. \A r \in RunIds : Open(r) => Open(r)'
  BY <1>3, OpenUnchanged
<1>5. /\ \A v \in Workers : Holds(v) => worker[v].run \in RunIds /\ Open(worker[v].run)
      /\ \A p \in retries : p.run \in RunIds /\ Open(p.run)
  BY DEF IInv, ChainsOpen, StorageInv, WorkerOK, StoredOnceUpToCursor, TypeOK, Retry
<1>6. \A v \in Workers \ {w} : worker'[v] = worker[v] /\ (Holds(v)' <=> Holds(v))
  BY <1>2 DEF Moves, Holds
<1>7. OneChain'
  BY <1>2, <1>3, <1>6 DEF IInv, OneChain
<1>8. ASSUME NEW v \in Workers, Holds(v)' PROVE Open(worker[v].run)'
  <2>1. CASE v = w
    BY <1>2, <1>4, <1>5, <2>1
  <2>2. CASE v # w
    <3>1. worker'[v].run = worker[v].run /\ worker[v].run \in RunIds /\ Open(worker[v].run)
      BY <1>5, <1>6, <1>8, <2>2
    <3>. QED BY <1>4, <3>1
  <2>. QED BY <2>1, <2>2
<1>9. ASSUME NEW p \in retries' PROVE Open(p.run)'
  BY <1>3, <1>4, <1>5
<1>. QED BY <1>7, <1>8, <1>9 DEF ChainsOpen

\* The run passes from the worker to the retry it sends.
LEMMA ResendChains ==
    ASSUME IInv, NEW w \in Workers, Resend(w)
    PROVE  OneChain' /\ ChainsOpen'
<1> DEFINE p == [target |-> worker[w].target, run |-> worker[w].run, attempt |-> worker[w].attempt + 1,
                 wait |-> worker[w].delay]
<1>1. Moves(w) /\ Drops(w) /\ Holds(w)
  BY ResendStorage DEF IInv, Advances, Resend, Holds, RunPCs
<1>2. retries' = retries \cup {p} /\ p.run = worker[w].run /\ UNCHANGED runs
  BY DEF Resend
<1> HIDE DEF p
<1>3. /\ \A v \in Workers : Holds(v) => worker[v].run \in RunIds /\ Open(worker[v].run)
      /\ \A q \in retries : q.run \in RunIds /\ Open(q.run)
  BY DEF IInv, ChainsOpen, StorageInv, WorkerOK, StoredOnceUpToCursor, TypeOK, Retry
<1>4. \A v \in Workers : Holds(v)' => v # w /\ Holds(v) /\ worker'[v] = worker[v]
  BY <1>1 DEF Moves, Holds, Drops
<1>5. \A r \in RunIds : Open(r) => Open(r)'
  BY <1>2, OpenUnchanged
<1>6. OneChain'
  <2>1. \A u, v \in Workers : Holds(u)' /\ Holds(v)' /\ worker'[u].run = worker'[v].run => u = v
    BY <1>4 DEF IInv, OneChain
  <2>2. \A q, s \in retries' : q.run = s.run => q = s
    BY <1>1, <1>2 DEF IInv, OneChain
  <2>3. \A v \in Workers, q \in retries' : Holds(v)' => worker'[v].run # q.run
    BY <1>1, <1>2, <1>4 DEF IInv, OneChain
  <2>. QED BY <2>1, <2>2, <2>3 DEF OneChain
<1>7. ASSUME NEW v \in Workers, Holds(v)' PROVE Open(worker[v].run)'
  <2>1. worker'[v].run = worker[v].run /\ worker[v].run \in RunIds /\ Open(worker[v].run)
    BY <1>3, <1>4, <1>7
  <2>. QED BY <1>5, <2>1
<1>8. ASSUME NEW q \in retries' PROVE Open(q.run)'
  BY <1>1, <1>2, <1>3, <1>5
<1>. QED BY <1>6, <1>7, <1>8 DEF ChainsOpen

LEMMA TickChains ==
    ASSUME IInv, Tick
    PROVE  OneChain' /\ ChainsOpen'
<1>1. TypeOK /\ UNCHANGED worker
  BY DEF IInv, StorageInv, StoredOnceUpToCursor, Tick
<1>2. \A p \in retries' : \E q \in retries : p = [q EXCEPT !.wait = Less(@)] /\ p.run = q.run
  BY <1>1, TickRetries
<1>3. \A r \in RunIds : Open(r) => Open(r)'
  BY <1>1, TickRuns DEF Open, Absent
<1>4. /\ \A v \in Workers : Holds(v) => worker[v].run \in RunIds /\ Open(worker[v].run)
      /\ \A q \in retries : q.run \in RunIds /\ Open(q.run)
  BY DEF IInv, ChainsOpen, StorageInv, WorkerOK, StoredOnceUpToCursor, TypeOK, Retry
<1>5. \A v \in Workers : Holds(v)' <=> Holds(v)
  BY <1>1 DEF Holds
<1>6. OneChain'
  BY <1>1, <1>2, <1>5 DEF IInv, OneChain
<1>7. ASSUME NEW v \in Workers, Holds(v)' PROVE Open(worker[v].run)'
  <2>1. worker'[v].run = worker[v].run /\ worker[v].run \in RunIds /\ Open(worker[v].run)
    BY <1>1, <1>4, <1>5, <1>7
  <2>. QED BY <1>3, <2>1
<1>8. ASSUME NEW q \in retries' PROVE Open(q.run)'
  BY <1>2, <1>3, <1>4
<1>. QED BY <1>6, <1>7, <1>8 DEF ChainsOpen

\* A recovered run stays with its chain, which may still judge it.
LEMMA RecoverChains ==
    ASSUME IInv, NEW r \in RunIds, RecoverStale(r)
    PROVE  OneChain' /\ ChainsOpen'
<1> DEFINE row == [runs[r] EXCEPT !.status = "failed", !.age = 0, !.recovered = TRUE]
<1>1. TypeOK /\ runs[r] \in Run
  BY DEF IInv, StorageInv, StoredOnceUpToCursor, TypeOK
<1>2. row.status = "failed" /\ row.recovered
  BY <1>1 DEF Run
<1>3. runs' = [runs EXCEPT ![r] = row] /\ UNCHANGED <<worker, retries>>
  BY DEF RecoverStale
<1> HIDE DEF row
<1>4. \A q \in RunIds : Open(q) => Open(q)'
  BY <1>1, <1>2, <1>3 DEF Open, Absent, TypeOK
<1>. QED BY <1>3, <1>4, ChainsKept

LEMMA IInvInit == Init => IInv
<1> SUFFICES ASSUME Init PROVE IInv
  OBVIOUS
<1>1. \A w \in Workers : ~Holds(w)
  BY DEF Init, Idle, Holds, RunPCs
<1>2. retries = {}
  BY DEF Init
<1>. QED BY <1>1, <1>2, StorageInit DEF IInv, OneChain, ChainsOpen

LEMMA IInvNext == IInv /\ [Next]_vars => IInv'
<1> SUFFICES ASSUME IInv, [Next]_vars PROVE OneChain' /\ ChainsOpen'
  BY StorageNext DEF IInv
<1>1. CASE Tick
  BY <1>1, TickChains
<1>2. ASSUME NEW t \in Targets, Dispatch(t) \/ DispatchDies(t) PROVE OneChain' /\ ChainsOpen'
  BY <1>2, ChainsKept, OpenUnchanged DEF Dispatch, DispatchDies
<1>3. ASSUME NEW w \in Workers, Take(w) PROVE OneChain' /\ ChainsOpen'
  BY <1>3, TakeTaskChains, TakeRetryChains DEF Take
<1>4. ASSUME NEW w \in Workers, WorkerStep(w) PROVE OneChain' /\ ChainsOpen'
  BY <1>4, QuietChains, CreateRunChains, PersistChains, FinishChains, ResendChains DEF WorkerStep
<1>5. ASSUME NEW w \in Workers, Renew(w) \/ Crash(w) PROVE OneChain' /\ ChainsOpen'
  <2>1. CASE Renew(w)
    BY <2>1, ChainsKept, OpenUnchanged DEF Renew
  <2>2. CASE Crash(w)
    BY <2>2, QuietChains
  <2>. QED BY <1>5, <2>1, <2>2
<1>6. ASSUME NEW r \in RunIds, RecoverStale(r) PROVE OneChain' /\ ChainsOpen'
  BY <1>6, RecoverChains
<1>7. CASE UNCHANGED vars
  BY <1>7, ChainsKept, OpenUnchanged DEF vars
<1>. QED BY <1>1, <1>2, <1>3, <1>4, <1>5, <1>6, <1>7 DEF Next

\* The storage is in order, a run is in the hands of one worker or one retry at most, and
\* one that ended without the recovery is in nobody's: the induction.
THEOREM Invariance == Spec => []IInv
  BY IInvInit, IInvNext, PTL DEF Spec

\* What a step does to a run that has ended.
EndedStays(r) ==
    runs[r].status \in Ended =>
        /\ runs'[r].fetched = runs[r].fetched
        /\ runs'[r].status # runs[r].status => runs[r].recovered

\* A run is judged by the worker that holds it, and it is open then.
LEMMA JudgedIsOpen ==
    ASSUME IInv, NEW w \in Workers, FinishSuccess(w) \/ FinishFailure(w), NEW r \in RunIds
    PROVE  EndedStays(r)
<1>1. TypeOK /\ Holds(w) /\ worker[w].run \in RunIds
  BY FinishMoves DEF IInv, StorageInv, StoredOnceUpToCursor, FinishSuccess, FinishFailure, Holds, RunPCs
<1>2. CASE r = worker[w].run
  <2>1. Open(r)
    BY <1>1, <1>2 DEF IInv, ChainsOpen
  <2>2. runs'[r].fetched = runs[r].fetched
    <3> DEFINE row == [runs[r] EXCEPT !.status = "succeeded", !.age = 0]
    <3>1. runs[r] \in Run
      BY <1>1 DEF TypeOK
    <3>2. row.fetched = runs[r].fetched /\ Judged(runs[r]).fetched = runs[r].fetched
      BY <3>1 DEF Run, Judged
    <3>3. runs'[r] = row \/ runs'[r] = Judged(runs[r])
      BY <1>1, <1>2 DEF FinishSuccess, FinishFailure, TypeOK
    <3>. QED BY <3>2, <3>3
  <2>. QED BY <2>1, <2>2 DEF EndedStays, Open
<1>3. CASE r # worker[w].run
  BY <1>1, <1>3 DEF EndedStays, FinishSuccess, FinishFailure, TypeOK
<1>. QED BY <1>2, <1>3

LEMMA EndedStay ==
    ASSUME IInv, [Next]_vars, NEW r \in RunIds
    PROVE  EndedStays(r)
<1>1. TypeOK
  BY DEF IInv, StorageInv, StoredOnceUpToCursor
<1>2. CASE Tick
  BY <1>1, <1>2, TickRuns DEF EndedStays
<1>3. ASSUME NEW t \in Targets, Dispatch(t) \/ DispatchDies(t) PROVE EndedStays(r)
  BY <1>3 DEF EndedStays, Dispatch, DispatchDies
<1>4. ASSUME NEW w \in Workers, Take(w) PROVE EndedStays(r)
  BY <1>4 DEF EndedStays, Take, TakeTask, TakeRetry
<1>5. ASSUME NEW w \in Workers, WorkerStep(w) PROVE EndedStays(r)
  <2>1. CASE CreateRun(w)
    <3>1. PICK q \in RunIds : Absent(q) /\ \A s \in RunIds \ {q} : runs'[s] = runs[s]
      BY <1>1, <2>1 DEF CreateRun, Absent, TypeOK, RunIds
    <3>. QED BY <3>1 DEF EndedStays, Ended, Absent
  <2>2. CASE PersistCheckpoint(w)
    <3>1. runs[worker[w].run].status = "running" /\ \A q \in RunIds \ {worker[w].run} : runs'[q] = runs[q]
      BY <1>1, <2>2 DEF PersistCheckpoint, Accepts, TypeOK
    <3>. QED BY <3>1 DEF EndedStays, Ended
  <2>3. CASE FinishSuccess(w) \/ FinishFailure(w)
    BY <2>3, JudgedIsOpen
  <2>4. CASE \/ StartRetry(w) \/ LoadCursor(w) \/ Fetch(w) \/ FetchedTooLate(w) \/ FetchFails(w)
             \/ PersistRefused(w) \/ Unclassified(w) \/ DatabaseFails(w) \/ RecordRetry(w)
             \/ Release(w) \/ MarkRetry(w) \/ Resend(w)
    <3>1. UNCHANGED runs
      BY <2>4 DEF StartRetry, LoadCursor, Fetch, FetchedTooLate, FetchFails, PersistRefused, Unclassified,
                  DatabaseFails, RecordRetry, Release, MarkRetry, Resend
    <3>. QED BY <3>1 DEF EndedStays
  <2>. QED BY <1>5, <2>1, <2>2, <2>3, <2>4 DEF WorkerStep
<1>6. ASSUME NEW w \in Workers, Renew(w) \/ Crash(w) PROVE EndedStays(r)
  BY <1>6 DEF EndedStays, Renew, Crash
<1>7. ASSUME NEW q \in RunIds, RecoverStale(q) PROVE EndedStays(r)
  <2>1. runs[q].status = "running" /\ \A s \in RunIds \ {q} : runs'[s] = runs[s]
    BY <1>1, <1>7 DEF RecoverStale, TypeOK
  <2>. QED BY <2>1 DEF EndedStays, Ended
<1>8. CASE UNCHANGED vars
  BY <1>8 DEF EndedStays, vars
<1>. QED BY <1>2, <1>3, <1>4, <1>5, <1>6, <1>7, <1>8 DEF Next

\* OnlyRecoveredRunsAreRejudged: a run that has ended stores nothing more, and is judged once
\* more only when the recovery had failed it, for any number of workers, retries and recoveries.
THEOREM RecoveredRunsOnly == Spec => OnlyRecoveredRunsAreRejudged
<1>1. IInv /\ [Next]_vars =>
          [\A r \in RunIds : runs[r].status \in Ended =>
             /\ runs'[r].fetched = runs[r].fetched
             /\ runs'[r].status # runs[r].status => runs[r].recovered]_vars
  BY EndedStay DEF EndedStays
<1>. QED BY <1>1, Invariance, PTL DEF Spec, OnlyRecoveredRunsAreRejudged

-----------------------------------------------------------------------------
(* The lock.                                                               *)

\* Workers in the middle of an execution whose lock ran out under them.
Orphans == {w \in Workers : Executing(w) /\ ~Owns(w)}

\* Each of them is counted when its lock runs out.
OrphansCounted == IsFiniteSet(Orphans) /\ Cardinality(Orphans) <= faults

\* A lock that has an owner is there, and its owner is executing its target.
LocksOwned ==
    \A t \in Targets : lock[t].owner # NoWorker =>
        LET w == lock[t].owner IN lock[t].left > 0 /\ Executing(w) /\ worker[w].target = t

LocksInv == LocksOwned /\ OrphansCounted

Executors(t) == {w \in Workers : Executing(w) /\ worker[w].target = t}

\* One worker executes an account, and one more for every lock that ran out under a live
\* worker or worker that died.
OverlapsAreFaults ==
    \A t \in Targets : IsFiniteSet(Executors(t)) /\ Cardinality(Executors(t)) <= 1 + faults

LEMMA OwnersTyped ==
    ASSUME TypeOK, NEW t \in Targets
    PROVE  lock[t] \in Lock /\ lock[t].owner \in Workers \cup {NoWorker} /\ lock[t].left \in Nat
  BY DEF TypeOK, Lock

LEMMA NoOwner ==
    ASSUME NEW w \in Workers
    PROVE  w # NoWorker
  BY LegacyAssumption

LEMMA UnionBound ==
    ASSUME NEW A, NEW B, IsFiniteSet(A), IsFiniteSet(B)
    PROVE  IsFiniteSet(A \cup B) /\ Cardinality(A \cup B) <= Cardinality(A) + Cardinality(B)
<1>1. /\ IsFiniteSet(A \cup B) /\ IsFiniteSet(A \cap B)
      /\ Cardinality(A \cup B) = Cardinality(A) + Cardinality(B) - Cardinality(A \cap B)
  BY FS_Union, FS_Intersection
<1>2. Cardinality(A) \in Nat /\ Cardinality(B) \in Nat /\ Cardinality(A \cap B) \in Nat
  BY <1>1, FS_CardinalityType
<1>. QED BY <1>1, <1>2

\* No worker becomes an orphan.
NoNewOrphan == \A w \in Workers : Executing(w)' /\ ~Owns(w)' => Executing(w) /\ ~Owns(w)

LEMMA OrphansKept ==
    ASSUME OrphansCounted, TypeOK, TypeOK', faults <= faults', NoNewOrphan
    PROVE  OrphansCounted'
<1>1. Orphans' \subseteq Orphans
  BY DEF Orphans, NoNewOrphan
<1>2. IsFiniteSet(Orphans') /\ Cardinality(Orphans') <= Cardinality(Orphans)
  BY <1>1, FS_Subset DEF OrphansCounted
<1>3. Cardinality(Orphans) \in Nat /\ Cardinality(Orphans') \in Nat
  BY <1>2, FS_CardinalityType DEF OrphansCounted
<1>4. faults \in Nat /\ faults' \in Nat
  BY DEF TypeOK
<1>. QED BY <1>2, <1>3, <1>4 DEF OrphansCounted

\* Who owns the lock of its execution keeps it, unless the lock runs out.
LocksKept ==
    \A w \in Workers : Executing(w) /\ Owns(w) /\ Executing(w)' =>
        Owns(w)' \/ lock[worker[w].target].left = 1

\* A worker moves without the lock: it goes on with its execution, or is and stays outside one.
LEMMA LocksUntouched ==
    ASSUME StorageInv, LocksInv, TypeOK', NEW w \in Workers, Moves(w), UNCHANGED <<lock, faults>>,
           (Executing(w) /\ Stays(w)) \/ (~Executing(w) /\ ~Executing(w)')
    PROVE  LocksInv' /\ NoNewOrphan
<1>1. TypeOK
  BY DEF StorageInv, StoredOnceUpToCursor
<1>2. \A v \in Workers : Executing(v)' <=> Executing(v)
  BY DEF Moves, Executing, Stays
<1>3. \A v \in Workers : Executing(v) => worker'[v].target = worker[v].target
  BY DEF Moves, Stays
<1>4. \A t \in Targets : lock[t].owner \in Workers \cup {NoWorker}
  BY <1>1, OwnersTyped
<1>5. LocksOwned'
  BY <1>2, <1>3, <1>4 DEF LocksOwned, LocksInv
<1>6. NoNewOrphan
  BY <1>2, <1>3 DEF NoNewOrphan, Owns
<1>7. faults <= faults'
  BY <1>1 DEF TypeOK
<1>. QED BY <1>1, <1>5, <1>6, <1>7, OrphansKept DEF LocksInv

\* Nobody moves and no lock changes.
LEMMA LocksIdle ==
    ASSUME StorageInv, LocksInv, TypeOK', UNCHANGED <<lock, worker>>, faults <= faults'
    PROVE  LocksInv' /\ NoNewOrphan
<1>1. TypeOK
  BY DEF StorageInv, StoredOnceUpToCursor
<1>2. LocksOwned'
  BY DEF LocksOwned, LocksInv, Executing
<1>3. NoNewOrphan
  BY DEF NoNewOrphan, Executing, Owns
<1>. QED BY <1>1, <1>2, <1>3, OrphansKept DEF LocksInv

\* A worker outside an execution takes a lock that is not there, and begins one.
LEMMA AcquireLocks ==
    ASSUME StorageInv, LocksInv, TypeOK', NEW w \in Workers, NEW t \in Targets, Acquire(w, t), Moves(w),
           ~Executing(w), Executing(w)', worker'[w].target = t, UNCHANGED faults
    PROVE  LocksInv' /\ NoNewOrphan
<1>1. TypeOK /\ LockTtl > 0
  BY LegacyAssumption DEF StorageInv, StoredOnceUpToCursor
<1>2. lock[t].owner = NoWorker
  BY <1>1, OwnersTyped DEF Acquire, LocksInv, LocksOwned
<1>3. lock'[t].owner = w /\ lock'[t].left = LockTtl /\ \A u \in Targets \ {t} : lock'[u] = lock[u]
  BY <1>1 DEF Acquire, TypeOK
<1>4. \A v \in Workers \ {w} : (Executing(v)' <=> Executing(v)) /\ worker'[v].target = worker[v].target
  BY DEF Moves, Executing
<1>5. \A u \in Targets : lock[u].owner \in Workers \cup {NoWorker}
  BY <1>1, OwnersTyped
<1>6. \A u \in Targets : lock[u].owner # w
  BY NoOwner DEF LocksInv, LocksOwned
<1>7. LocksOwned'
  BY <1>1, <1>3, <1>4, <1>5, <1>6 DEF LocksOwned, LocksInv
<1>8. ASSUME NEW v \in Workers, Executing(v)', ~Owns(v)'
      PROVE  Executing(v) /\ ~Owns(v)
  <2>1. v # w
    BY <1>3, <1>8 DEF Owns
  <2>2. Executing(v) /\ worker[v].target \in Targets
    BY <1>4, <1>8, <2>1 DEF StorageInv, WorkerOK, Executing
  <2>3. lock'[worker[v].target].owner # v
    BY <1>4, <1>8, <2>1 DEF Owns
  <2>4. lock[worker[v].target].owner # v
    BY <1>2, <1>3, <2>2, <2>3, NoOwner
  <2>. QED BY <2>2, <2>4 DEF Owns
<1>9. faults <= faults'
  BY <1>1 DEF TypeOK
<1>. QED BY <1>1, <1>7, <1>8, <1>9, OrphansKept DEF LocksInv, NoNewOrphan

\* A worker ends its execution: of its lock nothing is left to own.
LEMMA EndLocks ==
    ASSUME StorageInv, LocksInv, TypeOK', NEW w \in Workers, Moves(w), Executing(w), ~Executing(w)',
           \A t \in Targets : IF t = worker[w].target /\ Owns(w) THEN lock'[t].owner = NoWorker
                                                                ELSE lock'[t] = lock[t],
           faults <= faults'
    PROVE  LocksInv' /\ NoNewOrphan
<1>1. TypeOK
  BY DEF StorageInv, StoredOnceUpToCursor
<1>2. \A v \in Workers \ {w} : (Executing(v)' <=> Executing(v)) /\ worker'[v].target = worker[v].target
  BY DEF Moves, Executing
<1>3. \A t \in Targets : lock[t].owner \in Workers \cup {NoWorker}
  BY <1>1, OwnersTyped
<1>4. \A t \in Targets : lock'[t].owner # w
  <2>1. SUFFICES ASSUME NEW t \in Targets, lock'[t].owner = w PROVE FALSE
    OBVIOUS
  <2>2. lock[t].owner = w /\ ~(t = worker[w].target /\ Owns(w))
    BY <2>1, NoOwner
  <2>3. worker[w].target = t
    BY <2>2, NoOwner DEF LocksInv, LocksOwned
  <2>. QED BY <2>2, <2>3 DEF Owns
<1>5. LocksOwned'
  <2>1. ASSUME NEW t \in Targets, lock'[t].owner # NoWorker
        PROVE  /\ lock'[t].left > 0
               /\ worker'[lock'[t].owner].pc \notin {"idle", "acquire", "mark", "resend"}
               /\ worker'[lock'[t].owner].target = t
    <3>1. lock'[t] = lock[t] /\ lock[t].owner \in Workers \ {w}
      BY <1>3, <1>4, <2>1
    <3>2. PICK v \in Workers \ {w} : v = lock[t].owner
      BY <3>1
    <3>3. lock[t].left > 0 /\ Executing(v) /\ worker[v].target = t
      BY <2>1, <3>1, <3>2 DEF LocksInv, LocksOwned
    <3>4. Executing(v)' /\ worker'[v].target = t
      BY <1>2, <3>2, <3>3
    <3>. QED BY <3>1, <3>2, <3>3, <3>4 DEF Executing
  <2>. QED BY <2>1 DEF LocksOwned, Executing
<1>6. ASSUME NEW v \in Workers, Executing(v)', ~Owns(v)'
      PROVE  Executing(v) /\ ~Owns(v)
  <2>1. v # w /\ Executing(v)
    BY <1>2, <1>6
  <2>2. worker[v].target \in Targets /\ lock'[worker[v].target].owner # v
    BY <1>2, <1>6, <2>1 DEF StorageInv, WorkerOK, Executing, Owns
  <2>3. lock[worker[v].target].owner # v
    BY <2>1, <2>2 DEF Owns
  <2>. QED BY <2>1, <2>3 DEF Owns
<1>. QED BY <1>1, <1>5, <1>6, OrphansKept DEF LocksInv, NoNewOrphan

\* The steps of a worker that leave its execution where it is, or outside of one.
LEMMA LocalLocks ==
    ASSUME StorageInv, LocksInv, TypeOK', NEW w \in Workers,
           \/ LoadCursor(w) \/ Fetch(w) \/ FetchedTooLate(w) \/ FetchFails(w) \/ PersistRefused(w)
           \/ Unclassified(w) \/ DatabaseFails(w) \/ RecordRetry(w)
           \/ CreateRun(w) \/ PersistCheckpoint(w) \/ FinishSuccess(w) \/ FinishFailure(w)
    PROVE  LocksInv' /\ NoNewOrphan
<1>1. TypeOK /\ WorkerOK(w)
  BY DEF StorageInv, StoredOnceUpToCursor
<1>2. Moves(w) /\ Stays(w)
  <2>1. ASSUME CreateRun(w) PROVE Moves(w) /\ Stays(w)
    <3>1. PICK r \in RunIds : Goto(w, [At(w, "load") EXCEPT !.run = r])
      BY <2>1 DEF CreateRun
    <3>. QED BY <1>1, <2>1, <3>1, CreateMoves DEF CreateRun
  <2>. QED BY <1>1, <2>1, LocalStorageSteps, PersistMoves, FinishMoves DEF Advances
<1>3. Executing(w)
  BY DEF LoadCursor, Fetch, FetchedTooLate, FetchFails, PersistRefused, Unclassified, DatabaseFails,
         RecordRetry, CreateRun, PersistCheckpoint, FinishSuccess, FinishFailure, Executing
<1>4. UNCHANGED <<lock, faults>>
  BY DEF LoadCursor, Fetch, FetchedTooLate, FetchFails, PersistRefused, Unclassified, DatabaseFails,
         RecordRetry, CreateRun, PersistCheckpoint, FinishSuccess, FinishFailure
<1>. QED BY <1>2, <1>3, <1>4, LocksUntouched

LEMMA OutsideLocks ==
    ASSUME StorageInv, LocksInv, TypeOK', NEW w \in Workers,
           MarkRetry(w) \/ Resend(w) \/ (\E q \in retries : TakeRetry(w, q))
    PROVE  LocksInv' /\ NoNewOrphan
<1>1. TypeOK /\ WorkerOK(w) /\ UNCHANGED <<lock, faults>>
  BY DEF StorageInv, StoredOnceUpToCursor, MarkRetry, Resend, TakeRetry
<1>2. CASE MarkRetry(w)
  <2>1. Goto(w, At(w, "resend")) /\ "resend" \in PCs /\ ~Executing(w)
    BY <1>2 DEF MarkRetry, PCs, Executing
  <2>2. Moves(w) /\ worker'[w].pc = "resend"
    BY <1>1, <2>1, GotoAt
  <2>. QED BY <1>1, <2>1, <2>2, LocksUntouched DEF Executing
<1>3. CASE Resend(w)
  <2>1. Moves(w) /\ worker'[w] = Idle
    BY <1>1, <1>3, GotoIdle DEF Resend
  <2>. QED BY <1>1, <1>3, <2>1, LocksUntouched DEF Executing, Resend, Idle
<1>4. ASSUME NEW q \in retries, TakeRetry(w, q) PROVE LocksInv' /\ NoNewOrphan
  <2>1. Moves(w) /\ worker'[w].pc = "acquire"
    BY <1>1, <1>4, TakeRetryMoves
  <2>. QED BY <1>1, <1>4, <2>1, LocksUntouched DEF Executing, TakeRetry
<1>. QED BY <1>2, <1>3, <1>4

LEMMA TakeTaskLocks ==
    ASSUME StorageInv, LocksInv, TypeOK', NEW w \in Workers, NEW t \in Targets, TakeTask(w, t)
    PROVE  LocksInv' /\ NoNewOrphan
<1>1. TypeOK /\ UNCHANGED faults
  BY DEF StorageInv, StoredOnceUpToCursor, TakeTask
<1>2. CASE UNCHANGED <<lock, worker>>
  <2>1. faults <= faults'
    BY <1>1 DEF TypeOK
  <2>. QED BY <1>2, <2>1, LocksIdle
<1>3. CASE Acquire(w, t) /\ Goto(w, [Idle EXCEPT !.pc = "create", !.target = t])
  <2>1. Moves(w) /\ worker'[w].pc = "create" /\ worker'[w].target = t
    BY <1>1, <1>3, TakeTaskMoves DEF Advances
  <2>. QED BY <1>1, <1>3, <2>1, AcquireLocks DEF Executing, TakeTask
<1>. QED BY <1>2, <1>3 DEF TakeTask

LEMMA StartRetryLocks ==
    ASSUME StorageInv, LocksInv, TypeOK', NEW w \in Workers, StartRetry(w)
    PROVE  LocksInv' /\ NoNewOrphan
<1>1. TypeOK /\ UNCHANGED faults /\ ~Executing(w) /\ worker[w].target \in Targets
  BY DEF StorageInv, StoredOnceUpToCursor, StartRetry, Executing, WorkerOK
<1>2. CASE Goto(w, Idle) /\ UNCHANGED lock
  <2>1. Moves(w) /\ worker'[w] = Idle
    BY <1>1, <1>2, GotoIdle
  <2>. QED BY <1>1, <1>2, <2>1, LocksUntouched DEF Executing, Idle
<1>3. CASE Acquire(w, worker[w].target) /\ Goto(w, At(w, "load"))
  <2>1. "load" \in PCs
    BY DEF PCs
  <2>2. Moves(w) /\ Same(w) /\ worker'[w].pc = "load"
    BY <1>1, <1>3, <2>1, GotoAt
  <2>. QED BY <1>1, <1>3, <2>2, AcquireLocks DEF Executing, Same
<1>. QED BY <1>2, <1>3 DEF StartRetry

\* The finally clause gives the lock back, if it is still the worker's.
LEMMA ReleaseLocks ==
    ASSUME StorageInv, LocksInv, TypeOK', NEW w \in Workers, Release(w)
    PROVE  LocksInv' /\ NoNewOrphan
<1>1. TypeOK /\ faults <= faults' /\ Executing(w)
  BY DEF StorageInv, StoredOnceUpToCursor, TypeOK, Release, Executing
<1>2. Moves(w) /\ worker'[w].pc \in {"idle", "mark"}
  BY <1>1, ReleaseMoves DEF StorageInv, Advances
<1>3. \A t \in Targets : IF t = worker[w].target /\ Owns(w) THEN lock'[t].owner = NoWorker
                                                          ELSE lock'[t] = lock[t]
  BY <1>1 DEF Release, TypeOK, FreeLock
<1>. QED BY <1>1, <1>2, <1>3, EndLocks DEF Executing

LEMMA CrashLocks ==
    ASSUME StorageInv, LocksInv, TypeOK', NEW w \in Workers, Crash(w)
    PROVE  LocksInv' /\ NoNewOrphan
<1>1. TypeOK /\ faults <= faults' /\ faults' = faults + 1 /\ faults \in Nat
  BY DEF StorageInv, StoredOnceUpToCursor, TypeOK, Crash
<1>2. Moves(w) /\ worker'[w] = Idle
  BY <1>1, GotoIdle DEF Crash
<1>3. ~Executing(w)'
  BY <1>2 DEF Executing, Idle
<1>4. CASE Executing(w)
  <2>1. worker[w].target \in Targets
    BY DEF StorageInv, WorkerOK, Crash
  <2>2. \A t \in Targets : IF t = worker[w].target /\ Owns(w) THEN lock'[t].owner = NoWorker
                                                            ELSE lock'[t] = lock[t]
    BY <1>1, <1>4, <2>1, OwnersTyped DEF Crash, TypeOK, Lock
  <2>. QED BY <1>1, <1>2, <1>3, <1>4, <2>2, EndLocks
<1>5. CASE ~Executing(w)
  <2>1. UNCHANGED lock
    BY <1>5 DEF Crash
  <2>2. \A v \in Workers : Executing(v)' => Executing(v) /\ worker'[v] = worker[v]
    BY <1>2, <1>3 DEF Moves, Executing
  <2>3. \A v \in Workers : Executing(v) => worker'[v] = worker[v]
    BY <1>2, <1>5 DEF Moves
  <2>4. \A t \in Targets : lock[t].owner \in Workers \cup {NoWorker}
    BY <1>1, OwnersTyped
  <2>5. LocksOwned'
    BY <2>1, <2>3, <2>4 DEF LocksInv, LocksOwned, Executing
  <2>6. NoNewOrphan
    BY <2>1, <2>2 DEF NoNewOrphan, Owns
  <2>. QED BY <1>1, <2>5, <2>6, OrphansKept DEF LocksInv
<1>. QED BY <1>4, <1>5

LEMMA RenewLocks ==
    ASSUME StorageInv, LocksInv, TypeOK', NEW w \in Workers, Renew(w)
    PROVE  LocksInv' /\ NoNewOrphan
<1>1. TypeOK /\ faults <= faults' /\ LockTtl > 0 /\ worker[w].target \in Targets /\ UNCHANGED worker
  BY LegacyAssumption DEF StorageInv, StoredOnceUpToCursor, TypeOK, Renew, Executing, WorkerOK
<1>2. \A t \in Targets : lock'[t].owner = lock[t].owner /\ (lock'[t].left = lock[t].left \/ lock'[t].left = LockTtl)
  BY <1>1, OwnersTyped DEF Renew, TypeOK, Lock
<1>3. LocksOwned'
  BY <1>1, <1>2 DEF LocksInv, LocksOwned, Executing
<1>4. NoNewOrphan
  BY <1>1, <1>2 DEF NoNewOrphan, Executing, Owns, StorageInv, WorkerOK
<1>. QED BY <1>1, <1>3, <1>4, OrphansKept DEF LocksInv

\* The locks that run out under live workers make them orphans, and each is counted.
LEMMA TickLocks ==
    ASSUME StorageInv, LocksInv, TypeOK', Tick
    PROVE  LocksInv' /\ LocksKept
<1>1. TypeOK /\ UNCHANGED worker
  BY DEF StorageInv, StoredOnceUpToCursor, Tick
<1>2. \A t \in Targets : lock'[t] = IF lock[t].left <= 1 THEN FreeLock ELSE [lock[t] EXCEPT !.left = @ - 1]
  BY DEF Tick
<1>3. \A t \in Targets : /\ lock[t].left <= 1 => lock'[t].owner = NoWorker
                         /\ ~(lock[t].left <= 1) => lock'[t].owner = lock[t].owner /\ lock'[t].left > 0
  <2>1. SUFFICES ASSUME NEW t \in Targets
                 PROVE  /\ lock[t].left <= 1 => lock'[t].owner = NoWorker
                        /\ ~(lock[t].left <= 1) => lock'[t].owner = lock[t].owner /\ lock'[t].left > 0
    OBVIOUS
  <2>2. lock[t] \in Lock /\ lock[t].left \in Nat
    BY <1>1, OwnersTyped
  <2>3. CASE lock[t].left <= 1
    <3>1. lock'[t] = FreeLock
      BY <1>2, <2>3
    <3>. QED BY <2>3, <3>1 DEF FreeLock
  <2>4. CASE ~(lock[t].left <= 1)
    <3>1. lock'[t] = [lock[t] EXCEPT !.left = lock[t].left - 1]
      BY <1>2, <2>4
    <3>. QED BY <2>2, <2>4, <3>1 DEF Lock
  <2>. QED BY <2>3, <2>4
<1>4. LocksOwned'
  BY <1>1, <1>3 DEF LocksInv, LocksOwned, Executing
<1> DEFINE f == [t \in Stalled |-> lock[t].owner]
           S == {f[t] : t \in Stalled}
<1>5. IsFiniteSet(Stalled) /\ Cardinality(Stalled) \in Nat
  BY LegacyAssumption, FS_Subset, FS_CardinalityType DEF Stalled
<1>6. IsFiniteSet(S) /\ Cardinality(S) <= Cardinality(Stalled)
  <2>1. f \in Surjection(Stalled, S)
    BY DEF Surjection
  <2>. QED BY <1>5, <2>1, FS_Surjection
<1>7. ASSUME NEW w \in Workers, Executing(w)', ~Owns(w)', Owns(w)
      PROVE  worker[w].target \in Stalled /\ lock[worker[w].target].owner = w
  <2>1. worker[w].target \in Targets /\ lock[worker[w].target].owner = w
    BY <1>1, <1>7 DEF Executing, Owns, StorageInv, WorkerOK
  <2>2. lock'[worker[w].target].owner # w
    BY <1>1, <1>7 DEF Owns
  <2>3. lock[worker[w].target].left <= 1 /\ lock[worker[w].target].left > 0
    BY <1>3, <2>1, <2>2, NoOwner DEF LocksInv, LocksOwned
  <2>. QED BY <1>1, <2>1, <2>3, OwnersTyped, NoOwner DEF Stalled
<1>8. LocksKept
  BY <1>1, <1>7 DEF LocksKept, Stalled
<1>9. Orphans' \subseteq Orphans \cup S
  BY <1>1, <1>7 DEF Orphans, Executing
<1> HIDE DEF S
<1>10. /\ IsFiniteSet(Orphans) /\ IsFiniteSet(Orphans \cup S)
      /\ Cardinality(Orphans \cup S) <= Cardinality(Orphans) + Cardinality(S)
  BY <1>6, UnionBound DEF LocksInv, OrphansCounted
<1>11. IsFiniteSet(Orphans') /\ Cardinality(Orphans') <= Cardinality(Orphans \cup S)
  BY <1>9, <1>10, FS_Subset
<1>12. /\ Cardinality(Orphans) \in Nat /\ Cardinality(Orphans') \in Nat /\ Cardinality(S) \in Nat
       /\ Cardinality(Orphans \cup S) \in Nat
  BY <1>6, <1>10, <1>11, FS_CardinalityType
<1>13. faults' = faults + Cardinality(Stalled) /\ faults \in Nat /\ Cardinality(Orphans) <= faults
  BY <1>1 DEF Tick, TypeOK, LocksInv, OrphansCounted
<1>14. Cardinality(Orphans') <= faults'
  BY <1>5, <1>6, <1>10, <1>11, <1>12, <1>13
<1>. QED BY <1>4, <1>8, <1>11, <1>14 DEF LocksInv, OrphansCounted

LEMMA LocksInit == Init => LocksInv
<1> SUFFICES ASSUME Init PROVE LocksInv
  OBVIOUS
<1>1. LocksOwned
  BY DEF Init, LocksOwned, FreeLock
<1>2. Orphans = {}
  BY DEF Init, Orphans, Executing, Idle
<1>. QED BY <1>1, <1>2, FS_EmptySet DEF Init, LocksInv, OrphansCounted

LEMMA LocksNext == StorageInv /\ LocksInv /\ [Next]_vars => LocksInv' /\ LocksKept
<1> SUFFICES ASSUME StorageInv, LocksInv, [Next]_vars PROVE LocksInv' /\ LocksKept
  OBVIOUS
<1>1. TypeOK /\ TypeOK' /\ faults \in Nat
  BY StorageNext DEF StorageInv, StoredOnceUpToCursor, TypeOK
<1>2. NoNewOrphan => LocksKept
  BY DEF NoNewOrphan, LocksKept
<1>3. CASE Tick
  BY <1>1, <1>3, TickLocks
<1>4. ASSUME NEW t \in Targets, Dispatch(t) \/ DispatchDies(t) PROVE LocksInv' /\ LocksKept
  BY <1>1, <1>2, <1>4, LocksIdle DEF Dispatch, DispatchDies
<1>5. ASSUME NEW w \in Workers, Take(w) PROVE LocksInv' /\ LocksKept
  BY <1>1, <1>2, <1>5, TakeTaskLocks, OutsideLocks DEF Take
<1>6. ASSUME NEW w \in Workers, WorkerStep(w) PROVE LocksInv' /\ LocksKept
  BY <1>1, <1>2, <1>6, LocalLocks, OutsideLocks, StartRetryLocks, ReleaseLocks DEF WorkerStep
<1>7. ASSUME NEW w \in Workers, Renew(w) \/ Crash(w) PROVE LocksInv' /\ LocksKept
  BY <1>1, <1>2, <1>7, RenewLocks, CrashLocks
<1>8. ASSUME NEW r \in RunIds, RecoverStale(r) PROVE LocksInv' /\ LocksKept
  BY <1>1, <1>2, <1>8, LocksIdle DEF RecoverStale
<1>9. CASE UNCHANGED vars
  BY <1>1, <1>2, <1>9, LocksIdle DEF vars
<1>. QED BY <1>3, <1>4, <1>5, <1>6, <1>7, <1>8, <1>9 DEF Next

\* The executions of an account are those of its lock's owner and of orphans.
LEMMA ExecutionsBounded ==
    ASSUME StorageInv, LocksInv
    PROVE  OverlapsAreFaults
<1> SUFFICES ASSUME NEW t \in Targets
             PROVE  IsFiniteSet(Executors(t)) /\ Cardinality(Executors(t)) <= 1 + faults
  BY DEF OverlapsAreFaults
<1> DEFINE S == {lock[t].owner}
<1>1. Executors(t) \subseteq Orphans \cup S
  BY DEF Executors, Orphans, Owns
<1>2. IsFiniteSet(S) /\ Cardinality(S) = 1
  BY FS_Singleton
<1> HIDE DEF S
<1>3. /\ IsFiniteSet(Orphans) /\ IsFiniteSet(Orphans \cup S)
      /\ Cardinality(Orphans \cup S) <= Cardinality(Orphans) + Cardinality(S)
  BY <1>2, UnionBound DEF LocksInv, OrphansCounted
<1>4. IsFiniteSet(Executors(t)) /\ Cardinality(Executors(t)) <= Cardinality(Orphans \cup S)
  BY <1>1, <1>3, FS_Subset
<1>5. /\ Cardinality(Orphans) \in Nat /\ Cardinality(Executors(t)) \in Nat
      /\ Cardinality(Orphans \cup S) \in Nat /\ faults \in Nat /\ Cardinality(Orphans) <= faults
  BY <1>3, <1>4, FS_CardinalityType DEF LocksInv, OrphansCounted, StorageInv, StoredOnceUpToCursor, TypeOK
<1>. QED BY <1>2, <1>3, <1>4, <1>5

\* TargetLock: an account is executed by one worker at a time, and by one more for every
\* lock that ran out under a live worker or worker that died, never more: with neither, the
\* executions of an account exclude each other.
THEOREM ExecutionsExclude == Spec => []OverlapsAreFaults
<1>1. StorageInv /\ LocksInv => OverlapsAreFaults
  BY ExecutionsBounded
<1>. QED BY <1>1, StorageInvariance, StorageNext, LocksInit, LocksNext, PTL DEF Spec

\* LockKeptToTheEnd: whoever has the lock of the account it executes loses it to time only,
\* for any number of accounts, workers and deaths, and however late they release or renew.
THEOREM LocksEndWithTime == Spec => LockKeptToTheEnd
<1>1. StorageInv /\ LocksInv /\ [Next]_vars =>
          [\A w \in Workers : Executing(w) /\ Owns(w) /\ Executing(w)' =>
             Owns(w)' \/ lock[worker[w].target].left = 1]_vars
  BY LocksNext DEF LocksKept
<1>. QED BY <1>1, StorageInvariance, StorageNext, LocksInit, LocksNext, PTL DEF Spec, LockKeptToTheEnd

=============================================================================
