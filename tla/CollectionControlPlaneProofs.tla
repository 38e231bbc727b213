-------------------- MODULE CollectionControlPlaneProofs --------------------
(***************************************************************************)
(* Proofs about the collection control plane, for every set of targets and *)
(* workers, every budget and delay, and workers that stall for any time:   *)
(* its tables first, then the executions of runs, that is the request      *)
(* budget, which survives workers that stall, and what the target lock     *)
(* gives while its holder renews it in time.                               *)
(***************************************************************************)
EXTENDS CollectionControlPlane, FiniteSetTheorems, TLAPS

\* The steps of a worker that has a run.
RunPCs == {"resolve", "load_page", "budget", "fetch", "check_lock", "persist",
           "finish_error", "finish_lock_lost"}

\* A busy worker has a dispatch.  Past _start_run it has a run of that dispatch's
\* target and revision, whoever created it.  Past _resolved_run_config the run's
\* window is frozen.
WorkerOK(w) ==
    /\ pc[w] # "idle" => job[w].d \in Dispatch
    /\ pc[w] \in RunPCs =>
          /\ job[w].run \in RunIds
          /\ runs[job[w].run].status # "absent"
          /\ runs[job[w].run].d.target = job[w].d.target
          /\ runs[job[w].run].d.rev = job[w].d.rev
    /\ pc[w] \in {"resolve", "load_page", "budget"} => job[w].d.target \in PagedTargets
    /\ /\ pc[w] \in {"load_page", "budget", "fetch", "check_lock", "persist"}
       /\ job[w].d.target \in PagedTargets
       => runs[job[w].run].window # NULL

\* A run that exists was created by a dispatch, and a frozen window comes with the
\* config of that dispatch's revision.
RunsOK ==
    \A r \in RunIds : runs[r].status # "absent" =>
        /\ runs[r].d \in Dispatch
        /\ runs[r].window # NULL => runs[r].cfg = runs[r].d.rev

TableOK == RunsOK /\ OneRunningPerTarget /\ RunningIsCurrent /\ ContinuationBound

\* The inductive invariant: the properties of the tables, with what each worker's
\* local state still says of them.
Inv == TypeOK /\ TableOK /\ (\A w \in Workers : WorkerOK(w))

-----------------------------------------------------------------------------
(* What the updates of rows and worker-local records return.               *)

LEMMA RunUpdate ==
    ASSUME NEW x \in Run, NEW n \in Nat, NEW m \in Nat, NEW s \in RunStatus
    PROVE  /\ [x EXCEPT !.status = s] \in Run
           /\ [x EXCEPT !.requests = n] \in Run
           /\ [x EXCEPT !.status = s, !.pages = n] \in Run
           /\ [x EXCEPT !.status = s, !.retries = n] \in Run
           /\ [x EXCEPT !.window = n, !.cfg = m] \in Run
  BY DEF Run

LEMMA JobUpdate ==
    ASSUME NEW j \in Job, NEW r \in RunIds \cup {NULL}
    PROVE  /\ [j EXCEPT !.run = r] \in Job
           /\ [j EXCEPT !.run = r].d = j.d
           /\ [j EXCEPT !.run = r].run = r
  BY DEF Job

LEMMA NothingTyped ==
    /\ NoJob \in Job /\ NoRequest \in Request /\ NoResult \in Result
    /\ NoRun \in Run /\ NoContinuation \in Continuation /\ FreeLock \in Lock
<1>1. NoDispatch \in Dispatch \cup {NoDispatch}
  OBVIOUS
<1>2. NoJob \in Job
  BY <1>1 DEF NoJob, Job, NULL
<1>3. NoRequest \in Request /\ NoResult \in Result
  BY DEF NoRequest, Request, NoResult, Result, NULL
<1>4. NoRun \in Run
  BY <1>1 DEF NoRun, Run, RunStatus, NULL
<1>5. NoContinuation \in Continuation /\ FreeLock \in Lock
  BY DEF NoContinuation, Continuation, FreeLock, Lock, NULL
<1> QED BY <1>2, <1>3, <1>4, <1>5

\* How a step of worker w leaves the workers' program counters and jobs.
OthersKeep(w) == \A v \in Workers \ {w} : pc'[v] = pc[v] /\ job'[v] = job[v]

LEMMA GotoTyped ==
    ASSUME TypeOK, NEW w \in Workers, NEW s \in PCs, Goto(w, s)
    PROVE  /\ pc' \in [Workers -> PCs]
           /\ pc'[w] = s
           /\ \A v \in Workers \ {w} : pc'[v] = pc[v]
  BY DEF TypeOK, Goto

LEMMA FailTyped ==
    ASSUME TypeOK, NEW w \in Workers, NEW b \in BOOLEAN, NEW c \in BOOLEAN, Fail(w, b, c)
    PROVE  /\ pc' \in [Workers -> PCs]
           /\ res' \in [Workers -> Result]
           /\ pc'[w] = "finish_error"
           /\ \A v \in Workers \ {w} : pc'[v] = pc[v]
<1>1. [NoResult EXCEPT !.retryable = b, !.caught = c] \in Result
  BY DEF NoResult, Result, NULL
<1> QED BY <1>1 DEF TypeOK, Fail, Goto, PCs

LEMMA ReturnTyped ==
    ASSUME TypeOK, NEW w \in Workers, Return(w)
    PROVE  /\ pc' \in [Workers -> PCs]
           /\ job' \in [Workers -> Job]
           /\ req' \in [Workers -> Request]
           /\ res' \in [Workers -> Result]
           /\ pc'[w] = "release"
           /\ job'[w].d = job[w].d
           /\ OthersKeep(w)
<1>1. [job[w] EXCEPT !.run = NULL] \in Job /\ [job[w] EXCEPT !.run = NULL].d = job[w].d
  BY JobUpdate DEF TypeOK
<1>2. job' = [job EXCEPT ![w] = [job[w] EXCEPT !.run = NULL]]
  BY DEF Return
<1> QED BY <1>1, <1>2, NothingTyped DEF TypeOK, Return, Goto, PCs, OthersKeep

LEMMA ForgetTyped ==
    ASSUME TypeOK, NEW w \in Workers, Forget(w)
    PROVE  /\ pc' \in [Workers -> PCs]
           /\ job' \in [Workers -> Job]
           /\ req' \in [Workers -> Request]
           /\ res' \in [Workers -> Result]
           /\ pc'[w] = "idle"
           /\ OthersKeep(w)
  BY NothingTyped DEF TypeOK, Forget, Goto, PCs, OthersKeep

\* What no step does to the runs that exist.
RunsKeep ==
    \A r \in RunIds : runs[r].status # "absent" =>
        /\ runs'[r].status # "absent"
        /\ runs'[r].d = runs[r].d
        /\ runs[r].window # NULL => runs'[r].window # NULL

LEMMA OthersStayOK ==
    ASSUME TypeOK, NEW w \in Workers, RunsKeep, OthersKeep(w),
           \A v \in Workers : WorkerOK(v), WorkerOK(w)'
    PROVE  \A v \in Workers : WorkerOK(v)'
<1> SUFFICES ASSUME NEW v \in Workers \ {w} PROVE WorkerOK(v)'
  OBVIOUS
<1>1. pc'[v] = pc[v] /\ job'[v] = job[v] /\ WorkerOK(v)
  BY DEF OthersKeep
<1> QED BY <1>1 DEF WorkerOK, RunsKeep, RunPCs

LEMMA AllStayOK ==
    ASSUME TypeOK, RunsKeep, UNCHANGED <<pc, job>>, \A v \in Workers : WorkerOK(v)
    PROVE  \A v \in Workers : WorkerOK(v)'
  BY DEF WorkerOK, RunsKeep, RunPCs

LEMMA TablesUnchanged ==
    ASSUME TableOK, UNCHANGED <<target, runs, cursor>>
    PROVE  TableOK' /\ RunsKeep
  BY DEF TableOK, RunsOK, OneRunningPerTarget, RunningIsCurrent, ContinuationBound, RunsKeep

LEMMA InvInit == Init => Inv
<1> SUFFICES ASSUME Init PROVE Inv
  OBVIOUS
<1> USE DEF Init
<1>1. [rev |-> 1, status |-> "active", due |-> 1, retry |-> NULL] \in TargetRow
  BY DEF TargetRow, TargetStatus, NULL
<1>2. [row |-> FALSE, value |-> NULL, cont |-> NoContinuation] \in CursorRow
  BY NothingTyped DEF CursorRow, NULL
<1>3. TypeOK
  BY <1>1, <1>2, NothingTyped DEF TypeOK, PCs, NULL
<1>4. TableOK
  BY TargetsAssumption DEF TableOK, RunsOK, OneRunningPerTarget, RunningIsCurrent,
     ContinuationBound, NoRun, NoContinuation
<1>5. \A w \in Workers : WorkerOK(w)
  BY DEF WorkerOK, RunPCs
<1> QED BY <1>3, <1>4, <1>5 DEF Inv

-----------------------------------------------------------------------------
(* Steps that write no table.                                              *)

LEMMA ClockSteps ==
    ASSUME Inv, Tick PROVE Inv'
<1>1. \A t \in Targets : Expired(t) \in Lock
  BY NothingTyped DEF Inv, TypeOK, Expired
<1>2. TypeOK'
  BY <1>1 DEF Inv, TypeOK, Tick, NULL
<1> QED BY <1>2, TablesUnchanged, AllStayOK DEF Inv, Tick

LEMMA SchedulerSteps ==
    ASSUME Inv, SchedulerStep PROVE Inv'
<1>1. UNCHANGED <<target, runs, cursor, pc, job>>
  BY DEF SchedulerStep, DuePage, ClaimDue, Enqueue, EnqueueFails, SchedulerCrash
<1>2. TypeOK'
  <2>1. CASE DuePage
    <3>1. \A t \in Targets : target[t].retry \in Nat /\ now \in Nat
      BY DEF Inv, TypeOK, TargetRow
    <3>2. \A t \in Targets :
              [target |-> t, retry |-> target[t].retry # NULL,
               at |-> IF target[t].retry # NULL THEN target[t].retry ELSE now] \in DueTarget
      BY <3>1 DEF DueTarget
    <3>3. due' \subseteq DueTarget
      BY <2>1, <3>2 DEF DuePage
    <3> QED BY <2>1, <3>3 DEF DuePage, Inv, TypeOK
  <2>2. ASSUME NEW e \in due, ClaimDue(e) PROVE TypeOK'
    <3>1. DispatchOf(e) \in Dispatch /\ now + MarkerTtl \in Nat
      BY BoundsAssumption DEF Inv, TypeOK, DispatchOf, DueTarget, Dispatch, TargetRow
    <3> QED BY <2>2, <3>1 DEF ClaimDue, Inv, TypeOK
  <2>3. ASSUME NEW d \in claimed, Enqueue(d) \/ EnqueueFails(d) PROVE TypeOK'
    BY <2>3 DEF Enqueue, EnqueueFails, Inv, TypeOK
  <2>4. CASE SchedulerCrash
    BY <2>4 DEF SchedulerCrash, Inv, TypeOK
  <2> QED BY <2>1, <2>2, <2>3, <2>4 DEF SchedulerStep
<1> QED BY <1>1, <1>2, TablesUnchanged, AllStayOK DEF Inv

\* Starting, giving up and ending a task.
LEMMA TaskSteps ==
    ASSUME Inv, NEW w \in Workers,
           \/ \E d \in queue : TakeTask(w, d)
           \/ AcquireLock(w) \/ RenewLock(w) \/ Release(w) \/ WorkerCrash(w)
    PROVE  Inv'
<1> USE DEF Inv
<1>1. UNCHANGED <<target, runs, cursor>>
  BY DEF TakeTask, AcquireLock, RenewLock, Release, WorkerCrash
<1>2. TableOK' /\ RunsKeep
  BY <1>1, TablesUnchanged
<1> SUFFICES TypeOK' /\ OthersKeep(w) /\ WorkerOK(w)'
  BY <1>2, OthersStayOK
<1>3. pc[w] # "idle" => job[w].d.target \in Targets
  BY DEF WorkerOK, Dispatch
<1>4. ASSUME NEW d \in queue, TakeTask(w, d)
      PROVE  TypeOK' /\ OthersKeep(w) /\ WorkerOK(w)'
  <2>1. [d |-> d, run |-> NULL] \in Job /\ [d |-> d, run |-> NULL].d \in Dispatch
    BY DEF TypeOK, Job
  <2> QED BY <1>4, <2>1 DEF TakeTask, Goto, TypeOK, OthersKeep, WorkerOK, RunPCs, PCs
<1>5. CASE AcquireLock(w)
  <2>1. CASE Forget(w) /\ UNCHANGED lock
    BY <1>5, <2>1, ForgetTyped DEF AcquireLock, TypeOK, WorkerOK, RunPCs
  <2>2. CASE ~Held(job[w].d.target)
    <3>1. [owner |-> w, until |-> now + LockTtl] \in Lock
      BY BoundsAssumption DEF TypeOK, Lock
    <3>2. Goto(w, "prepare") /\ UNCHANGED <<job, req, res>>
      BY <1>5, <2>2 DEF AcquireLock
    <3> QED BY <1>3, <1>5, <2>2, <3>1, <3>2
            DEF AcquireLock, Goto, TypeOK, OthersKeep, WorkerOK, RunPCs, PCs
  <2> QED BY <1>5, <2>1, <2>2 DEF AcquireLock
<1>6. CASE RenewLock(w)
  <2>1. [lock[job[w].d.target] EXCEPT !.until = now + LockTtl] \in Lock
    BY <1>3, <1>6, BoundsAssumption DEF RenewLock, TypeOK, Lock
  <2> QED BY <1>1, <1>3, <1>6, <2>1 DEF RenewLock, TypeOK, OthersKeep, WorkerOK, RunPCs
<1>7. CASE Release(w) \/ WorkerCrash(w)
  <2>1. Forget(w) /\ UNCHANGED <<now, markers, cooldown, due, claimed, queue>>
    BY <1>7 DEF Release, WorkerCrash
  <2>2. pc[w] # "idle"
    BY <1>7 DEF Release, WorkerCrash
  <2>3. [lock[job[w].d.target] EXCEPT !.owner = NoWorker] \in Lock
    BY <1>3, <2>2 DEF TypeOK, Lock
  <2>4. lock' \in [Targets -> Lock]
    BY <1>3, <1>7, <2>2, <2>3, NothingTyped DEF Release, WorkerCrash, TypeOK
  <2> QED BY <1>1, <2>1, <2>4, ForgetTyped DEF TypeOK, WorkerOK, RunPCs
<1> QED BY <1>4, <1>5, <1>6, <1>7

-----------------------------------------------------------------------------
(* The three ways a step of an execution ends, whatever it wrote.          *)

\* The part of TypeOK about the state the processes share.
SharedTypeOK ==
    /\ now \in Nat
    /\ target \in [Targets -> TargetRow]
    /\ runs \in [RunIds -> Run]
    /\ cursor \in [Targets -> CursorRow]
    /\ lock \in [Targets -> Lock]
    /\ markers \subseteq [id : Dispatch, until : Nat]
    /\ cooldown \in Nat
    /\ due \subseteq DueTarget
    /\ claimed \subseteq Dispatch
    /\ queue \subseteq Dispatch

LEMMA AfterReturn ==
    ASSUME Inv, NEW w \in Workers, Return(w), pc[w] # "idle",
           SharedTypeOK', TableOK', RunsKeep
    PROVE  Inv'
<1>1. TypeOK'
  BY ReturnTyped DEF Inv, TypeOK, SharedTypeOK
<1>2. OthersKeep(w) /\ WorkerOK(w)'
  BY ReturnTyped DEF Inv, WorkerOK, RunPCs
<1> QED BY <1>1, <1>2, OthersStayOK DEF Inv

LEMMA AfterFail ==
    ASSUME Inv, NEW w \in Workers, NEW b \in BOOLEAN, NEW c \in BOOLEAN, Fail(w, b, c),
           UNCHANGED <<job, req>>, pc[w] \in RunPCs, SharedTypeOK', TableOK', RunsKeep
    PROVE  Inv'
<1>1. TypeOK'
  BY FailTyped DEF Inv, TypeOK, SharedTypeOK
<1>2. OthersKeep(w)
  BY FailTyped DEF Inv, OthersKeep
<1>3. WorkerOK(w)'
  BY FailTyped DEF Inv, WorkerOK, RunPCs, RunsKeep
<1> QED BY <1>1, <1>2, <1>3, OthersStayOK DEF Inv

LEMMA AfterGoto ==
    ASSUME Inv, NEW w \in Workers, NEW s \in PCs, Goto(w, s), UNCHANGED job,
           req' \in [Workers -> Request], res' \in [Workers -> Result],
           SharedTypeOK', TableOK', RunsKeep, WorkerOK(w)'
    PROVE  Inv'
<1>1. TypeOK'
  BY GotoTyped DEF Inv, TypeOK, SharedTypeOK
<1>2. OthersKeep(w)
  BY GotoTyped DEF Inv, OthersKeep
<1> QED BY <1>1, <1>2, OthersStayOK DEF Inv

LEMMA SharedUnchanged ==
    ASSUME Inv, UNCHANGED <<now, target, runs, cursor, lock, markers, cooldown, due, claimed, queue>>
    PROVE  SharedTypeOK' /\ TableOK' /\ RunsKeep
  BY TablesUnchanged DEF Inv, TypeOK, SharedTypeOK

-----------------------------------------------------------------------------
(* Steps of an execution that read the tables and write none.              *)

LEMMA StartRunStaleStep ==
    ASSUME Inv, NEW w \in Workers, StartRunStale(w) PROVE Inv'
  BY SharedUnchanged, AfterReturn DEF StartRunStale

LEMMA StartRunAdoptStep ==
    ASSUME Inv, NEW w \in Workers, StartRunAdopt(w) PROVE Inv'
<1>1. SharedTypeOK' /\ TableOK' /\ RunsKeep
  BY SharedUnchanged DEF StartRunAdopt
<1>2. PICK r \in RunningRuns(job[w].d.target) : Started(w, r)
  BY DEF StartRunAdopt
<1>3. job[w].d \in Dispatch /\ job[w].d.target \in Targets /\ job[w] \in Job
  BY DEF StartRunAdopt, Inv, WorkerOK, TypeOK, Dispatch
<1>4. [job[w] EXCEPT !.run = r] \in Job /\ [job[w] EXCEPT !.run = r].d = job[w].d
      /\ [job[w] EXCEPT !.run = r].run = r
  BY <1>3, JobUpdate DEF RunningRuns
<1>5. job' = [job EXCEPT ![w] = [job[w] EXCEPT !.run = r]]
  BY <1>2 DEF Started
<1> DEFINE t == job[w].d.target
           q == [NoRequest EXCEPT !.row = cursor[t].row, !.snap = cursor[t].value,
                                  !.cur = cursor[t].value]
<1>6. q \in Request
  BY <1>3 DEF Inv, TypeOK, CursorRow, Request, NoRequest, NULL
<1>7. req' = [req EXCEPT ![w] = q]
  BY <1>2 DEF Started
<1>8. TypeOK'
  <2> HIDE DEF q
  <2> QED BY SMTT(60), <1>1, <1>2, <1>4, <1>5, <1>6, <1>7
          DEF Inv, TypeOK, SharedTypeOK, Started, StartRunAdopt, Goto, PCs
<1>9. OthersKeep(w)
  BY <1>2, <1>5 DEF Inv, TypeOK, Started, Goto, OthersKeep
<1>10. WorkerOK(w)'
  <2>1. runs[r].d.target = job[w].d.target /\ runs[r].status = "running" /\ r \in RunIds
    BY <1>2 DEF RunningRuns
  <2>2. runs[r].d.rev = job[w].d.rev
    BY <2>1 DEF Inv, TableOK, RunningIsCurrent, StartRunAdopt
  <2>3. UNCHANGED runs /\ job'[w].d = job[w].d /\ job'[w].run = r
    BY <1>4, <1>5 DEF StartRunAdopt, Inv, TypeOK
  <2>4. pc'[w] \in {"resolve", "fetch"} /\ (pc'[w] = "resolve" <=> t \in PagedTargets)
    BY <1>2 DEF Started, Goto, Inv, TypeOK
  <2> QED BY <1>3, <2>1, <2>2, <2>3, <2>4 DEF WorkerOK, RunPCs
<1> QED BY <1>1, <1>8, <1>9, <1>10, OthersStayOK DEF Inv

LEMMA LoadPageStep ==
    ASSUME Inv, NEW w \in Workers, LoadPage(w) PROVE Inv'
<1>1. SharedTypeOK' /\ TableOK' /\ RunsKeep /\ UNCHANGED <<runs, job>> /\ pc[w] = "load_page"
  BY SharedUnchanged DEF LoadPage
<1>2. CASE ~LoadOk(job[w].d.target, job[w].d.rev)
  BY <1>1, <1>2, AfterFail DEF LoadPage, Raise, RunPCs
<1>3. CASE LoadOk(job[w].d.target, job[w].d.rev)
  <2> DEFINE t == job[w].d.target
             q == [req[w] EXCEPT !.row = cursor[t].row, !.snap = cursor[t].value]
  <2>1. t \in Targets
    BY <1>1 DEF Inv, WorkerOK, Dispatch
  <2>2. q \in Request
    BY <2>1 DEF Inv, TypeOK, CursorRow, Request
  <2>3. req' = req \/ req' = [req EXCEPT ![w] = q]
    BY <1>3 DEF LoadPage
  <2>4. req' \in [Workers -> Request] /\ res' \in [Workers -> Result]
    <3> HIDE DEF q
    <3> QED BY <1>3, <2>2, <2>3 DEF LoadPage, Inv, TypeOK
  <2>5. Goto(w, "budget") /\ "budget" \in PCs
    BY <1>3 DEF LoadPage, PCs
  <2>6. WorkerOK(w)'
    BY <1>1, <2>5 DEF Inv, TypeOK, Goto, WorkerOK, RunPCs
  <2> QED BY <1>1, <2>4, <2>5, <2>6, AfterGoto
<1> QED BY <1>2, <1>3

\* The steps between sending a request and the transaction that persists its answer.
LEMMA FetchSteps ==
    ASSUME Inv, NEW w \in Workers,
           FetchResult(w) \/ FetchLockLost(w) \/ CheckLockLost(w) \/ CheckLockOwned(w)
    PROVE  Inv'
<1>1. SharedTypeOK' /\ TableOK' /\ RunsKeep /\ UNCHANGED <<runs, job, req>>
  BY SharedUnchanged DEF FetchResult, FetchLockLost, CheckLockLost, CheckLockOwned
<1>2. pc[w] \in {"fetch", "check_lock"} /\ pc[w] \in RunPCs
  BY DEF FetchResult, FetchLockLost, CheckLockLost, CheckLockOwned, RunPCs
<1>3. ASSUME NEW s \in {"check_lock", "persist", "finish_lock_lost"}, Goto(w, s),
             res' \in [Workers -> Result]
      PROVE  Inv'
  <2>1. WorkerOK(w)'
    BY <1>1, <1>2, <1>3 DEF Inv, TypeOK, Goto, WorkerOK, RunPCs
  <2>2. req' \in [Workers -> Request] /\ s \in PCs
    BY <1>1 DEF Inv, TypeOK, PCs
  <2> QED BY <1>1, <1>3, <2>1, <2>2, AfterGoto
<1>4. CASE FetchResult(w)
  <2>1. PICK x \in Results(w) : res' = [res EXCEPT ![w] = x]
    BY <1>4 DEF FetchResult
  <2>2. x \in [next : Positions, more : BOOLEAN, incomplete : BOOLEAN, retryable : {FALSE},
              caught : {FALSE}]
    BY <2>1 DEF Results
  <2>3. Positions \subseteq Nat
    BY DEF Positions
  <2>4. x \in Result
    BY <2>2, <2>3 DEF Result
  <2> QED BY <1>3, <1>4, <2>1, <2>4 DEF FetchResult, Inv, TypeOK
<1>5. CASE FetchLockLost(w) \/ CheckLockLost(w)
  <2>1. PICK c \in BOOLEAN : LoseLock(w, c)
    BY <1>5 DEF FetchLockLost, CheckLockLost
  <2>2. [NoResult EXCEPT !.caught = c] \in Result
    BY DEF NoResult, Result, NULL
  <2> QED BY <1>3, <2>1, <2>2 DEF LoseLock, Inv, TypeOK
<1>6. ASSUME CheckLockOwned(w), NEW c \in BOOLEAN, Fail(w, FALSE, c) PROVE Inv'
  BY <1>1, <1>2, <1>6, AfterFail
<1>7. CASE CheckLockOwned(w) /\ \A c \in BOOLEAN : ~Fail(w, FALSE, c)
  <2>1. Goto(w, "persist") /\ res' = res
    BY <1>7 DEF CheckLockOwned
  <2> QED BY <1>3, <2>1 DEF Inv, TypeOK
<1> QED BY <1>4, <1>5, <1>6, <1>7

LEMMA FailingSteps ==
    ASSUME Inv, NEW w \in Workers,
           \/ FetchFails(w) \/ AnswerInvalid(w) \/ PersistRefused(w)
           \/ DatabaseFails(w)
    PROVE  Inv'
<1>1. CASE FetchFails(w)
  <2>1. cooldown' \in Nat
    <3>1. UNCHANGED cooldown \/ \E delay \in RetryDelays : cooldown' = now + delay
      BY <1>1 DEF FetchFails
    <3>2. RetryDelays \subseteq Nat
      BY BoundsAssumption
    <3>3. now \in Nat /\ cooldown \in Nat
      BY DEF Inv, TypeOK
    <3> QED BY <3>1, <3>2, <3>3
  <2>2. SharedTypeOK' /\ TableOK' /\ RunsKeep /\ UNCHANGED <<job, req>>
    BY <1>1, <2>1, TablesUnchanged DEF FetchFails, Inv, TypeOK, SharedTypeOK
  <2>3. PICK b \in BOOLEAN : Fail(w, b, TRUE)
    BY <1>1 DEF FetchFails
  <2> QED BY <1>1, <2>2, <2>3, AfterFail DEF FetchFails, RunPCs
<1>2. CASE AnswerInvalid(w) \/ PersistRefused(w)
  <2>1. SharedTypeOK' /\ TableOK' /\ RunsKeep /\ UNCHANGED <<job, req>> /\ pc[w] \in RunPCs
    BY <1>2, SharedUnchanged DEF AnswerInvalid, PersistRefused, RunPCs
  <2> QED BY <1>2, <2>1, AfterFail DEF AnswerInvalid, PersistRefused, Raise
<1>3. CASE DatabaseFails(w)
  <2>1. SharedTypeOK' /\ TableOK' /\ RunsKeep
    BY <1>3, SharedUnchanged DEF DatabaseFails
  <2>2. CASE Return(w)
    BY <1>3, <2>1, <2>2, AfterReturn DEF DatabaseFails
  <2>3. CASE ~Return(w)
    <3>1. Raise(w, TRUE) /\ UNCHANGED <<job, req>> /\ pc[w] \in RunPCs
      BY <1>3, <2>3 DEF DatabaseFails, CaughtWithRun, RunPCs
    <3> QED BY <2>1, <3>1, AfterFail DEF Raise
  <2> QED BY <2>2, <2>3
<1> QED BY <1>1, <1>2, <1>3

-----------------------------------------------------------------------------
(* What a write of one run or one target row does to the tables.           *)

\* Every write of a target row other than revise keeps its revision.
RevisionsKeep == \A t \in Targets : target'[t].rev = target[t].rev

LEMMA CadenceWritten ==
    ASSUME Inv, NEW t \in Targets, target' = [target EXCEPT ![t] = NextCadence(t)]
    PROVE  target' \in [Targets -> TargetRow] /\ RevisionsKeep
<1>1. now + Cadence \in Nat /\ target[t] \in TargetRow
  BY BoundsAssumption DEF Inv, TypeOK
<1>2. NextCadence(t) \in TargetRow /\ NextCadence(t).rev = target[t].rev
  BY <1>1 DEF NextCadence, TargetRow, NULL
<1> QED BY <1>2 DEF Inv, TypeOK, RevisionsKeep

LEMMA RetryWritten ==
    ASSUME Inv, NEW t \in Targets, NEW delay \in RetryDelays,
           target' = [target EXCEPT ![t].retry = now + delay]
    PROVE  target' \in [Targets -> TargetRow] /\ RevisionsKeep
<1> DEFINE x == [target[t] EXCEPT !.retry = now + delay]
<1>1. now + delay \in Nat /\ target[t] \in TargetRow
  BY BoundsAssumption DEF Inv, TypeOK
<1>2. x \in TargetRow /\ x.rev = target[t].rev
  BY <1>1 DEF TargetRow
<1>3. target' = [target EXCEPT ![t] = x]
  OBVIOUS
<1> HIDE DEF x
<1> QED BY <1>2, <1>3 DEF Inv, TypeOK, RevisionsKeep

\* Row x replaces an existing run r.  It may say "running" only for the current
\* revision and only where the partial unique index allows it.
RunWrite(r, x) ==
    /\ runs[r].status # "absent"
    /\ x \in Run
    /\ x.d = runs[r].d
    /\ x.status # "absent"
    /\ runs[r].window # NULL => x.window # NULL
    /\ x.window # NULL => x.cfg = x.d.rev
    /\ x.status = "running" =>
          /\ x.d.rev = target[x.d.target].rev
          /\ RunningRuns(x.d.target) \subseteq {r}
    /\ runs' = [runs EXCEPT ![r] = x]

LEMMA RunWritten ==
    ASSUME Inv, NEW r \in RunIds, NEW x, RunWrite(r, x), RevisionsKeep
    PROVE  /\ runs' \in [RunIds -> Run]
           /\ runs'[r] = x
           /\ \A q \in RunIds \ {r} : runs'[q] = runs[q]
           /\ RunsOK' /\ OneRunningPerTarget' /\ RunningIsCurrent' /\ RunsKeep
<1>1. /\ runs' \in [RunIds -> Run]
      /\ runs'[r] = x
      /\ \A q \in RunIds \ {r} : runs'[q] = runs[q]
  BY DEF RunWrite, Inv, TypeOK
<1>2. RunsOK' /\ RunsKeep
  BY <1>1 DEF RunWrite, Inv, TableOK, RunsOK, RunsKeep
<1>3. OneRunningPerTarget'
  BY <1>1 DEF RunWrite, Inv, TableOK, OneRunningPerTarget, RunningRuns
<1>4. \A q \in RunIds : runs[q].status # "absent" => runs[q].d.target \in Targets
  BY DEF Inv, TableOK, RunsOK, Dispatch
<1>5. RunningIsCurrent'
  BY <1>1, <1>4 DEF RunWrite, Inv, TableOK, RunningIsCurrent, RevisionsKeep
<1> QED BY <1>1, <1>2, <1>3, <1>5

\* A run whose window is left alone and that does not succeed keeps its continuation.
LEMMA ContinuationKept ==
    ASSUME Inv, NEW r \in RunIds, NEW x, RunWrite(r, x), RevisionsKeep, UNCHANGED cursor,
           x.window = runs[r].window, x.cfg = runs[r].cfg,
           x.status \in {"running", "partial", "failed"}
    PROVE  TableOK' /\ RunsKeep /\ runs' \in [RunIds -> Run]
<1>1. ContinuationBound'
  <2>1. \A t \in PagedTargets : t \in Targets
    BY TargetsAssumption
  <2> QED BY SMTT(60), <2>1, RunWritten DEF RunWrite, Inv, TableOK, ContinuationBound, RevisionsKeep
<1> QED BY <1>1, RunWritten DEF TableOK

\* Failing a run, or counting on it, never needs more than that it exists.
LEMMA RunFails ==
    ASSUME Inv, NEW r \in RunIds, runs[r].status # "absent", runs' = RunFailed(r),
           RevisionsKeep, UNCHANGED cursor
    PROVE  TableOK' /\ RunsKeep /\ runs' \in [RunIds -> Run]
<1> DEFINE x == [runs[r] EXCEPT !.status = "failed"]
<1>1. runs[r] \in Run /\ "failed" \in RunStatus
  BY DEF Inv, TypeOK, RunStatus
<1>2. /\ x \in Run /\ x.status = "failed" /\ x.d = runs[r].d
      /\ x.window = runs[r].window /\ x.cfg = runs[r].cfg
  BY <1>1 DEF Run
<1>3. runs' = [runs EXCEPT ![r] = x]
  BY DEF RunFailed
<1> HIDE DEF x
<1>4. RunWrite(r, x)
  BY <1>2, <1>3 DEF RunWrite, Inv, TableOK, RunsOK
<1> QED BY <1>2, <1>4, ContinuationKept

-----------------------------------------------------------------------------
(* Steps that end a run.                                                   *)

LEMMA FinishLockLostStep ==
    ASSUME Inv, NEW w \in Workers, FinishLockLost(w) PROVE Inv'
<1> DEFINE r == job[w].run
           t == job[w].d.target
<1>1. r \in RunIds /\ runs[r].status # "absent" /\ t \in Targets
  BY DEF FinishLockLost, Inv, WorkerOK, RunPCs, Dispatch
<1>2. target' \in [Targets -> TargetRow] /\ RevisionsKeep
  <2>1. UNCHANGED target \/ \E delay \in RetryDelays : target' = [target EXCEPT ![t].retry = now + delay]
    BY DEF FinishLockLost
  <2> QED BY <1>1, <2>1, RetryWritten DEF Inv, TypeOK, RevisionsKeep
<1>3. TableOK' /\ RunsKeep /\ runs' \in [RunIds -> Run]
  BY <1>1, <1>2, RunFails DEF FinishLockLost
<1>4. SharedTypeOK'
  BY <1>2, <1>3 DEF FinishLockLost, Inv, TypeOK, SharedTypeOK
<1> QED BY <1>3, <1>4, AfterReturn DEF FinishLockLost

LEMMA RecoverStaleStep ==
    ASSUME Inv, NEW r \in RunIds, RecoverStale(r) PROVE Inv'
<1> DEFINE t == runs[r].d.target
<1>1. runs[r].status # "absent" /\ t \in Targets
  BY DEF RecoverStale, Inv, TableOK, RunsOK, Dispatch
<1>2. target' \in [Targets -> TargetRow] /\ RevisionsKeep
  <2>1. PICK delay \in RetryDelays : target' = [target EXCEPT ![t].retry = now + delay]
    BY DEF RecoverStale
  <2> QED BY <1>1, <2>1, RetryWritten
<1>3. TableOK' /\ RunsKeep /\ runs' \in [RunIds -> Run]
  BY <1>1, <1>2, RunFails DEF RecoverStale
<1>4. TypeOK'
  BY <1>2, <1>3 DEF RecoverStale, Inv, TypeOK
<1> QED BY <1>3, <1>4, AllStayOK DEF RecoverStale, Inv

LEMMA FinishErrorStep ==
    ASSUME Inv, NEW w \in Workers, FinishError(w) PROVE Inv'
<1> DEFINE r == job[w].run
           t == job[w].d.target
           x == [runs[r] EXCEPT !.status = "running", !.retries = @ + 1]
<1>1. /\ r \in RunIds /\ runs[r].status # "absent" /\ t \in Targets
      /\ runs[r].d.target = t /\ runs[r].d.rev = job[w].d.rev
  BY DEF FinishError, Inv, WorkerOK, RunPCs, Dispatch
<1>2. target' \in [Targets -> TargetRow] /\ RevisionsKeep
  <2>1. \/ UNCHANGED target
        \/ target' = [target EXCEPT ![t] = NextCadence(t)]
        \/ \E delay \in RetryDelays : target' = [target EXCEPT ![t].retry = now + delay]
    BY DEF FinishError
  <2> QED BY <1>1, <2>1, RetryWritten, CadenceWritten DEF Inv, TypeOK, RevisionsKeep
<1>3. TableOK' /\ RunsKeep /\ runs' \in [RunIds -> Run]
  <2>1. CASE runs' = RunFailed(r)
    BY <1>1, <1>2, <2>1, RunFails DEF FinishError
  <2>2. CASE runs' # RunFailed(r)
    <3>1. runs' = [runs EXCEPT ![r] = x] /\ target[t].rev = job[w].d.rev
          /\ UniqueRunning(r, t, "running") /\ UNCHANGED cursor
      BY <2>2 DEF FinishError
    <3>2. runs[r] \in Run /\ runs[r].retries + 1 \in Nat /\ "running" \in RunStatus
      BY <1>1 DEF Inv, TypeOK, Run, RunStatus
    <3>3. /\ x \in Run /\ x.status = "running" /\ x.d = runs[r].d
          /\ x.window = runs[r].window /\ x.cfg = runs[r].cfg
      BY <3>2 DEF Run
    <3> HIDE DEF x
    <3>4. RunWrite(r, x)
      BY <1>1, <3>1, <3>3 DEF RunWrite, UniqueRunning, Inv, TableOK, RunsOK
    <3> QED BY <1>1, <1>2, <3>1, <3>3, <3>4, ContinuationKept
  <2> QED BY <2>1, <2>2
<1>4. SharedTypeOK'
  BY <1>2, <1>3 DEF FinishError, Inv, TypeOK, SharedTypeOK
<1> QED BY <1>3, <1>4, AfterReturn DEF FinishError

\* The operator's steps write one target row or clear one continuation.
LEMMA OperatorSteps ==
    ASSUME Inv, OperatorStep PROVE Inv'
<1>1. UNCHANGED <<now, runs, lock, markers, cooldown, due, claimed, queue, pc, job, req, res>>
  BY DEF OperatorStep, Revise, PauseForContinuationAbandon, AbandonPendingContinuations
<1>2. RunsKeep /\ RunsOK' /\ OneRunningPerTarget'
  BY <1>1 DEF Inv, TableOK, RunsOK, OneRunningPerTarget, RunsKeep
<1> SUFFICES /\ target' \in [Targets -> TargetRow] /\ cursor' \in [Targets -> CursorRow]
             /\ RunningIsCurrent' /\ ContinuationBound'
  BY <1>1, <1>2, AllStayOK DEF Inv, TypeOK, TableOK
<1>3. \A q \in RunIds : runs[q].status # "absent" => runs[q].d.target \in Targets
  BY DEF Inv, TableOK, RunsOK, Dispatch
<1>4. \A t \in PagedTargets : t \in Targets
  BY TargetsAssumption
<1>5. ASSUME NEW t \in Targets, NEW status \in TargetStatus, Revise(t, status)
      PROVE  /\ target' \in [Targets -> TargetRow] /\ cursor' \in [Targets -> CursorRow]
             /\ RunningIsCurrent' /\ ContinuationBound'
  <2> DEFINE x == [rev |-> target[t].rev + 1, status |-> status, due |-> now, retry |-> NULL]
  <2>1. x \in TargetRow
    BY DEF Inv, TypeOK, TargetRow, NULL
  <2>2. target' = [target EXCEPT ![t] = x] /\ UNCHANGED <<runs, cursor>>
    BY <1>5 DEF Revise
  <2> HIDE DEF x
  <2>3. target' \in [Targets -> TargetRow] /\ cursor' \in [Targets -> CursorRow]
        /\ \A u \in Targets \ {t} : target'[u] = target[u]
    BY <2>1, <2>2 DEF Inv, TypeOK
  <2>4. RunningIsCurrent'
    BY <1>3, <1>5, <2>2, <2>3 DEF Revise, RunningRuns, Inv, TableOK, RunningIsCurrent
  <2>5. ContinuationBound'
    BY <1>4, <1>5, <2>2, <2>3 DEF Revise, Inv, TableOK, ContinuationBound
  <2> QED BY <2>3, <2>4, <2>5
<1>6. ASSUME NEW t \in Targets, PauseForContinuationAbandon(t)
      PROVE  /\ target' \in [Targets -> TargetRow] /\ cursor' \in [Targets -> CursorRow]
             /\ RunningIsCurrent' /\ ContinuationBound'
  <2> DEFINE x == [target[t] EXCEPT !.status = "paused", !.retry = NULL]
  <2>1. x \in TargetRow /\ x.rev = target[t].rev
    BY DEF Inv, TypeOK, TargetRow, TargetStatus, NULL
  <2>2. target' = [target EXCEPT ![t] = x] /\ UNCHANGED <<runs, cursor>>
    BY <1>6 DEF PauseForContinuationAbandon
  <2> HIDE DEF x
  <2>3. /\ target' \in [Targets -> TargetRow] /\ cursor' \in [Targets -> CursorRow]
        /\ RevisionsKeep
    BY <2>1, <2>2 DEF Inv, TypeOK, RevisionsKeep
  <2>4. RunningIsCurrent' /\ ContinuationBound'
    BY <1>3, <1>4, <2>2, <2>3
       DEF Inv, TableOK, RunningIsCurrent, ContinuationBound, RevisionsKeep
  <2> QED BY <2>3, <2>4
<1>7. ASSUME NEW t \in Targets, AbandonPendingContinuations(t)
      PROVE  /\ target' \in [Targets -> TargetRow] /\ cursor' \in [Targets -> CursorRow]
             /\ RunningIsCurrent' /\ ContinuationBound'
  <2> DEFINE x == [cursor[t] EXCEPT !.cont = NoContinuation]
  <2>1. x \in CursorRow /\ x.cont = NoContinuation /\ ~NoContinuation.pending
    BY NothingTyped DEF Inv, TypeOK, CursorRow, NoContinuation
  <2>2. cursor' = [cursor EXCEPT ![t] = x] /\ UNCHANGED <<runs, target>>
    BY <1>7 DEF AbandonPendingContinuations
  <2> HIDE DEF x
  <2>3. /\ target' \in [Targets -> TargetRow] /\ cursor' \in [Targets -> CursorRow]
        /\ cursor'[t].cont = NoContinuation
        /\ \A u \in Targets \ {t} : cursor'[u] = cursor[u]
    BY <2>1, <2>2 DEF Inv, TypeOK
  <2>4. RunningIsCurrent' /\ ContinuationBound'
    BY <1>4, <2>1, <2>2, <2>3 DEF Inv, TableOK, RunningIsCurrent, ContinuationBound
  <2> QED BY <2>3, <2>4
<1> QED BY <1>5, <1>6, <1>7 DEF OperatorStep

-----------------------------------------------------------------------------
(* Steps of an execution that write the tables.                            *)

LEMMA PrepareStep ==
    ASSUME Inv, NEW w \in Workers, Prepare(w) PROVE Inv'
<1> DEFINE t == job[w].d.target
<1>1. t \in Targets /\ pc[w] = "prepare"
  BY DEF Prepare, Inv, WorkerOK, Dispatch
<1>2. target' \in [Targets -> TargetRow] /\ RevisionsKeep
  <2>1. UNCHANGED target \/ target' = [target EXCEPT ![t] = NextCadence(t)]
    BY DEF Prepare
  <2> QED BY <1>1, <2>1, CadenceWritten DEF Inv, TypeOK, RevisionsKeep
<1>3. SharedTypeOK' /\ RunsKeep
  BY <1>2 DEF Prepare, Inv, TypeOK, SharedTypeOK, RunsKeep
<1>4. TableOK'
  <2>1. \A q \in RunIds : runs[q].status # "absent" => runs[q].d.target \in Targets
    BY DEF Inv, TableOK, RunsOK, Dispatch
  <2>2. \A u \in PagedTargets : u \in Targets
    BY TargetsAssumption
  <2> QED BY SMTT(60), <1>2, <2>1, <2>2 DEF Prepare, Inv, TableOK, RunsOK, OneRunningPerTarget,
          RunningIsCurrent, ContinuationBound, RevisionsKeep
<1>5. CASE Return(w)
  BY <1>1, <1>3, <1>4, <1>5, AfterReturn
<1>6. CASE ~Return(w)
  <2>1. Goto(w, "start") /\ UNCHANGED <<job, req, res>> /\ "start" \in PCs
    BY <1>6 DEF Prepare, PCs
  <2>2. WorkerOK(w)'
    BY <1>1, <2>1 DEF Inv, TypeOK, Goto, WorkerOK, RunPCs
  <2> QED BY <1>3, <1>4, <2>1, <2>2, AfterGoto DEF Inv, TypeOK
<1> QED BY <1>5, <1>6

LEMMA StartRunCreateStep ==
    ASSUME Inv, NEW w \in Workers, StartRunCreate(w) PROVE Inv'
<1> DEFINE t == job[w].d.target
           x == [NoRun EXCEPT !.d = job[w].d, !.status = "running", !.started = now]
           q == [NoRequest EXCEPT !.row = cursor[t].row, !.snap = cursor[t].value,
                                  !.cur = cursor[t].value]
<1>1. PICK r \in RunIds : /\ \A p \in RunIds : runs[p].status = "absent" <=> p >= r
                          /\ runs' = [runs EXCEPT ![r] = x]
                          /\ Started(w, r)
  BY DEF StartRunCreate
<1>2. job[w].d \in Dispatch /\ t \in Targets /\ job[w] \in Job /\ now \in Nat
  BY DEF StartRunCreate, Inv, WorkerOK, TypeOK, Dispatch
<1>3. /\ x \in Run /\ x.d = job[w].d /\ x.status = "running" /\ x.window = NULL
  BY <1>2 DEF NoRun, Run, RunStatus, NULL
<1> HIDE DEF x
<1>4. /\ runs' \in [RunIds -> Run]
      /\ runs'[r] = x
      /\ \A p \in RunIds \ {r} : runs'[p] = runs[p]
  BY <1>1, <1>3 DEF Inv, TypeOK
<1>5. runs[r].status = "absent"
  BY <1>1 DEF RunIds
<1>6. TableOK' /\ RunsKeep
  <2>1. RunsOK' /\ RunsKeep
    BY <1>2, <1>3, <1>4, <1>5 DEF Inv, TableOK, RunsOK, RunsKeep
  <2>2. OneRunningPerTarget'
    BY <1>3, <1>4 DEF StartRunCreate, RunningRuns, Inv, TableOK, OneRunningPerTarget
  <2>3. RunningIsCurrent'
    BY <1>3, <1>4 DEF StartRunCreate, Inv, TableOK, RunningIsCurrent
  <2>4. ContinuationBound'
    <3>1. UNCHANGED <<cursor, target>>
      BY DEF StartRunCreate
    <3>2. \A u \in PagedTargets : cursor[u].cont.pending =>
              /\ cursor[u].cont.run \in RunIds
              /\ cursor[u].cont.run # r
      BY <1>5 DEF Inv, TableOK, ContinuationBound
    <3> QED BY <1>4, <3>1, <3>2 DEF Inv, TableOK, ContinuationBound
  <2> QED BY <2>1, <2>2, <2>3, <2>4 DEF TableOK
<1>7. [job[w] EXCEPT !.run = r] \in Job /\ [job[w] EXCEPT !.run = r].d = job[w].d
      /\ [job[w] EXCEPT !.run = r].run = r
  BY <1>2, JobUpdate
<1>8. job' = [job EXCEPT ![w] = [job[w] EXCEPT !.run = r]] /\ req' = [req EXCEPT ![w] = q]
  BY <1>1 DEF Started
<1>9. q \in Request
  BY <1>2 DEF Inv, TypeOK, CursorRow, Request, NoRequest, NULL
<1>10. TypeOK'
  <2> HIDE DEF q
  <2> QED BY SMTT(60), <1>1, <1>4, <1>7, <1>8, <1>9 DEF Inv, TypeOK, Started, StartRunCreate, Goto, PCs
<1>11. OthersKeep(w)
  BY <1>1, <1>8 DEF Inv, TypeOK, Started, Goto, OthersKeep
<1>12. WorkerOK(w)'
  <2>1. job'[w].d = job[w].d /\ job'[w].run = r
    BY <1>7, <1>8 DEF Inv, TypeOK
  <2>2. pc'[w] \in {"resolve", "fetch"} /\ (pc'[w] = "resolve" <=> t \in PagedTargets)
    BY <1>1 DEF Started, Goto, Inv, TypeOK
  <2> QED BY <1>2, <1>3, <1>4, <2>1, <2>2 DEF WorkerOK, RunPCs
<1> QED BY <1>6, <1>10, <1>11, <1>12, OthersStayOK DEF Inv

LEMMA BudgetStep ==
    ASSUME Inv, NEW w \in Workers, Budget(w) PROVE Inv'
<1> DEFINE r == job[w].run
           t == job[w].d.target
<1>1. r \in RunIds /\ runs[r].status # "absent" /\ t \in Targets /\ pc[w] = "budget"
  BY DEF Budget, Inv, WorkerOK, RunPCs, Dispatch
<1>2. runs[r] \in Run /\ runs[r].requests + 1 \in Nat /\ "partial" \in RunStatus
  BY <1>1 DEF Inv, TypeOK, Run, RunStatus
<1>3. CASE BudgetSpent(r)
  <2> DEFINE x == [runs[r] EXCEPT !.status = "partial"]
  <2>1. target' = [target EXCEPT ![t] = NextCadence(t)] /\ runs' = [runs EXCEPT ![r] = x]
        /\ Return(w) /\ UNCHANGED cursor
    BY <1>3 DEF Budget
  <2>2. target' \in [Targets -> TargetRow] /\ RevisionsKeep
    BY <1>1, <2>1, CadenceWritten
  <2>3. /\ x \in Run /\ x.status = "partial" /\ x.d = runs[r].d
        /\ x.window = runs[r].window /\ x.cfg = runs[r].cfg
    BY <1>2 DEF Run
  <2> HIDE DEF x
  <2>4. RunWrite(r, x)
    BY <1>1, <2>1, <2>3 DEF RunWrite, Inv, TableOK, RunsOK
  <2>5. TableOK' /\ RunsKeep /\ runs' \in [RunIds -> Run]
    BY <1>1, <2>1, <2>2, <2>3, <2>4, ContinuationKept
  <2>6. SharedTypeOK'
    BY <2>2, <2>5 DEF Budget, Inv, TypeOK, SharedTypeOK
  <2> QED BY <1>1, <2>1, <2>5, <2>6, AfterReturn
<1>4. CASE ~BudgetSpent(r)
  <2> DEFINE x == [runs[r] EXCEPT !.requests = @ + 1]
  <2>1. UNCHANGED <<target, cursor, job, req>> /\ runs' = [runs EXCEPT ![r] = x]
    BY <1>4 DEF Budget
  <2>2. /\ x \in Run /\ x.status = runs[r].status /\ x.d = runs[r].d
        /\ x.window = runs[r].window /\ x.cfg = runs[r].cfg
    BY <1>2 DEF Run
  <2> HIDE DEF x
  <2>3. runs' \in [RunIds -> Run]
        /\ runs'[r] = x
        /\ \A p \in RunIds \ {r} : runs'[p] = runs[p]
    BY <1>1, <2>1, <2>2 DEF Inv, TypeOK
  <2>4. RunsOK' /\ RunsKeep
    BY <1>1, <2>2, <2>3 DEF Inv, TableOK, RunsOK, RunsKeep
  <2>5. OneRunningPerTarget'
    BY <1>1, <2>2, <2>3 DEF Inv, TableOK, OneRunningPerTarget
  <2>6. RunningIsCurrent'
    BY <1>1, <2>1, <2>2, <2>3 DEF Inv, TableOK, RunningIsCurrent
  <2>7. ContinuationBound'
    BY <1>1, <2>1, <2>2, <2>3 DEF Inv, TableOK, ContinuationBound
  <2>8. SharedTypeOK' /\ TableOK'
    BY <2>1, <2>3, <2>4, <2>5, <2>6, <2>7 DEF Budget, Inv, TypeOK, SharedTypeOK, TableOK
  <2>9. CASE Fail(w, FALSE, TRUE)
    BY <1>1, <2>1, <2>4, <2>8, <2>9, AfterFail DEF RunPCs
  <2>10. CASE ~Fail(w, FALSE, TRUE)
    <3>1. Goto(w, "fetch") /\ UNCHANGED res /\ "fetch" \in PCs
      BY <1>4, <2>10 DEF Budget, PCs
    <3>2. WorkerOK(w)'
      BY <1>1, <2>1, <2>2, <2>3, <3>1 DEF Inv, TypeOK, Goto, WorkerOK, RunPCs
    <3> QED BY <2>1, <2>4, <2>8, <3>1, <3>2, AfterGoto DEF Inv, TypeOK
  <2> QED BY <2>9, <2>10
<1> QED BY <1>3, <1>4

LEMMA ResolvedRunConfigStep ==
    ASSUME Inv, NEW w \in Workers, ResolvedRunConfig(w) PROVE Inv'
<1> DEFINE r == job[w].run
           t == job[w].d.target
           c == Bound(w, r, t)
           x == [runs[r] EXCEPT !.window = WindowOf(r, t), !.cfg = job[w].d.rev]
           y == [cursor[t] EXCEPT !.row = TRUE, !.cont = c]
           z == [req[w] EXCEPT !.page = c.page]
<1>1. /\ r \in RunIds /\ runs[r].status # "absent" /\ pc[w] = "resolve"
      /\ t \in Targets /\ t \in PagedTargets /\ job[w].d.rev \in Nat
      /\ runs[r].d.target = t /\ runs[r].d.rev = job[w].d.rev
  BY DEF ResolvedRunConfig, Inv, WorkerOK, RunPCs, Dispatch
<1>2. CASE UNCHANGED <<runs, cursor, req>> /\ \E b \in BOOLEAN : Raise(w, b)
  <2>1. SharedTypeOK' /\ TableOK' /\ RunsKeep /\ UNCHANGED <<job, req>>
    BY <1>2, SharedUnchanged DEF ResolvedRunConfig
  <2> QED BY <1>1, <1>2, <2>1, AfterFail DEF Raise, RunPCs
<1>3. CASE ~(UNCHANGED <<runs, cursor, req>> /\ \E b \in BOOLEAN : Raise(w, b))
  <2>1. /\ DecodeOk(w, r, t)
        /\ c # cursor[t].cont => ContinuationGuard(t, c.rev, runs[r].status)
        /\ runs' = [runs EXCEPT ![r] = x]
        /\ cursor' = [cursor EXCEPT ![t] = y]
        /\ req' = [req EXCEPT ![w] = z]
        /\ Goto(w, "load_page")
        /\ UNCHANGED <<res, now, target, lock, markers, cooldown, due, claimed, queue, job>>
    BY <1>3 DEF ResolvedRunConfig
  <2>2. /\ runs[r] \in Run /\ cursor[t] \in CursorRow /\ req[w] \in Request
        /\ cursor[t].cont \in Continuation
    BY <1>1 DEF Inv, TypeOK, CursorRow
  \* The window is never NULL: ContinuationBound says so of a pending one's.
  <2>3. WindowOf(r, t) \in Nat /\ WindowOf(r, t) # NULL
    <3>1. r \in Nat /\ r # NULL
      BY <1>1 DEF RunIds, NULL
    <3>2. runs[r].window \in Nat /\ cursor[t].cont.window \in Nat
      BY <2>2 DEF Run, Continuation
    <3>3. cursor[t].cont.pending => cursor[t].cont.window # NULL
      BY <1>1 DEF Inv, TableOK, ContinuationBound
    <3> QED BY <3>1, <3>2, <3>3 DEF WindowOf
  <2>4. /\ c \in Continuation /\ c.pending /\ c.run = r /\ c.rev = job[w].d.rev
        /\ c.window = WindowOf(r, t)
    <3>1. r \in Nat
      BY <1>1 DEF RunIds
    <3>2. CASE cursor[t].cont.pending
      <4>1. c = [cursor[t].cont EXCEPT !.run = r]
        BY <3>2 DEF Bound
      <4>2. /\ cursor[t].cont.rev = job[w].d.rev
            /\ cursor[t].cont.window = WindowOf(r, t)
        BY <2>1, <3>2 DEF DecodeOk
      <4> HIDE DEF c, r, t
      <4> QED BY <2>2, <3>1, <3>2, <4>1, <4>2 DEF Continuation
    <3>3. CASE ~cursor[t].cont.pending
      <4>1. c = [pending |-> TRUE, run |-> r, rev |-> job[w].d.rev, window |-> WindowOf(r, t),
                 page |-> 0]
        BY <3>3 DEF Bound
      <4> HIDE DEF c, r, t
      <4> QED BY <1>1, <2>3, <3>1, <4>1 DEF Continuation
    <3> QED BY <3>2, <3>3
  <2>5. /\ c.rev = target[t].rev
        /\ runs[r].status \in {"running", "partial", "failed"}
    <3>1. CASE c = cursor[t].cont
      <4> HIDE DEF c, r, t
      <4>1. cursor[t].cont.pending /\ cursor[t].cont.run = r
        BY <2>4, <3>1
      <4>2. ContinuationBound
        BY <1>1 DEF Inv, TableOK
      <4>3. /\ cursor[t].cont.rev = target[t].rev
            /\ runs[r].status \in {"running", "partial", "failed"}
        BY <1>1, <4>1, <4>2 DEF ContinuationBound
      <4> QED BY <3>1, <4>3
    <3>2. CASE c # cursor[t].cont
      BY <2>1, <3>2 DEF ContinuationGuard
    <3> QED BY <3>1, <3>2
  <2> HIDE DEF c
  <2>6. x \in Run /\ x.status = runs[r].status /\ x.d = runs[r].d
        /\ x.window = WindowOf(r, t) /\ x.cfg = job[w].d.rev
    BY <1>1, <2>2, <2>3 DEF Run
  <2>7. y \in CursorRow /\ y.cont = c
    BY <2>2, <2>4 DEF CursorRow
  <2>8. z \in Request
    BY <2>2, <2>4 DEF Request, Continuation
  <2> HIDE DEF x, y, z
  <2>9. RunWrite(r, x) /\ RevisionsKeep
    <3>1. x.status = "running" => RunningRuns(t) \subseteq {r}
      BY <1>1, <2>6 DEF RunningRuns, Inv, TableOK, OneRunningPerTarget
    <3>2. x.status = "running" => x.d.rev = target[t].rev
      BY <1>1, <2>6 DEF Inv, TableOK, RunningIsCurrent
    <3> QED BY <1>1, <2>1, <2>3, <2>6, <3>1, <3>2 DEF RunWrite, RevisionsKeep
  <2>10. /\ cursor' \in [Targets -> CursorRow] /\ cursor'[t] = y
         /\ \A u \in Targets \ {t} : cursor'[u] = cursor[u]
    BY <1>1, <2>1, <2>7 DEF Inv, TypeOK
  <2>11. ContinuationBound'
    <3> SUFFICES ASSUME NEW u \in PagedTargets, cursor'[u].cont.pending
                 PROVE  /\ cursor'[u].cont.run \in RunIds
                        /\ runs'[cursor'[u].cont.run].d.target = u
                        /\ runs'[cursor'[u].cont.run].window # NULL
                        /\ runs'[cursor'[u].cont.run].window = cursor'[u].cont.window
                        /\ runs'[cursor'[u].cont.run].cfg = cursor'[u].cont.rev
                        /\ runs'[cursor'[u].cont.run].status \in {"running", "partial", "failed"}
                        /\ cursor'[u].cont.rev = target'[u].rev
      BY DEF ContinuationBound
    <3>1. CASE u = t
      BY <1>1, <2>1, <2>3, <2>4, <2>5, <2>6, <2>7, <2>9, <2>10, <3>1, RunWritten
    <3>2. CASE u # t
      <4>1. u \in Targets /\ cursor'[u] = cursor[u]
        BY <2>10, <3>2, TargetsAssumption
      <4>2. cursor[u].cont.run \in RunIds /\ cursor[u].cont.run # r
        BY <1>1, <3>2, <4>1 DEF Inv, TableOK, ContinuationBound
      <4>3. runs'[cursor[u].cont.run] = runs[cursor[u].cont.run] /\ UNCHANGED target
        BY <1>1, <2>1, <2>9, <4>2, RunWritten
      <4> QED BY <4>1, <4>2, <4>3 DEF Inv, TableOK, ContinuationBound
    <3> QED BY <3>1, <3>2
  <2>12. TableOK' /\ RunsKeep /\ runs' \in [RunIds -> Run] /\ runs'[r] = x
    BY <1>1, <2>9, <2>11, RunWritten DEF TableOK
  <2>13. SharedTypeOK' /\ req' \in [Workers -> Request] /\ res' \in [Workers -> Result]
    BY <2>1, <2>8, <2>10, <2>12 DEF Inv, TypeOK, SharedTypeOK
  <2>14. WorkerOK(w)'
    BY <1>1, <2>1, <2>3, <2>6, <2>12 DEF Inv, TypeOK, Goto, WorkerOK, RunPCs
  <2>15. "load_page" \in PCs
    BY DEF PCs
  <2> QED BY <2>1, <2>12, <2>13, <2>14, <2>15, AfterGoto
<1> QED BY <1>2, <1>3

LEMMA PersistResultStep ==
    ASSUME Inv, NEW w \in Workers, PersistResult(w) PROVE Inv'
<1> DEFINE r == job[w].run
           t == job[w].d.target
           x == [runs[r] EXCEPT !.status = PersistStatus(w),
                                !.pages = IF t \in PagedTargets THEN @ + 1 ELSE @]
           y == NextCursor(w)
           k == NextContinuation(w)
<1>1. /\ r \in RunIds /\ runs[r].status # "absent" /\ pc[w] = "persist"
      /\ t \in Targets /\ job[w].d.rev \in Nat
      /\ runs[r].d.target = t /\ runs[r].d.rev = job[w].d.rev
      /\ t \in PagedTargets => runs[r].window # NULL
  BY DEF PersistResult, Inv, WorkerOK, RunPCs, Dispatch
<1>2. /\ target[t].rev = job[w].d.rev
      /\ UniqueRunning(r, t, PersistStatus(w))
      /\ runs' = [runs EXCEPT ![r] = x]
      /\ target' = [target EXCEPT ![t] = NextCadence(t)]
      /\ cursor' = [cursor EXCEPT ![t] = y]
      /\ UNCHANGED <<now, lock, markers, cooldown, due, claimed, queue>>
  BY DEF PersistResult, Persisted
<1>3. /\ runs[r] \in Run /\ cursor[t] \in CursorRow /\ req[w] \in Request /\ res[w] \in Result
      /\ cursor[t].cont \in Continuation
  BY <1>1 DEF Inv, TypeOK, CursorRow
<1>4. PersistStatus(w) \in {"running", "partial", "succeeded"}
  BY DEF PersistStatus
<1>5. /\ x \in Run /\ x.status = PersistStatus(w) /\ x.d = runs[r].d
      /\ x.window = runs[r].window /\ x.cfg = runs[r].cfg
  <2>1. (IF t \in PagedTargets THEN runs[r].pages + 1 ELSE runs[r].pages) \in Nat
    BY <1>3 DEF Run
  <2>2. PersistStatus(w) \in RunStatus
    BY <1>4 DEF RunStatus
  <2> QED BY <1>3, <2>1, <2>2 DEF Run
<1> HIDE DEF x
<1>6. target' \in [Targets -> TargetRow] /\ RevisionsKeep
  BY <1>1, <1>2, CadenceWritten
<1>7. RunWrite(r, x)
  <2>1. x.status = "running" => RunningRuns(t) \subseteq {r}
    BY <1>2, <1>5 DEF UniqueRunning
  <2>2. x.window # NULL => x.cfg = x.d.rev
    BY <1>1, <1>5 DEF Inv, TableOK, RunsOK
  <2>3. x.status # "absent"
    BY <1>4, <1>5
  <2> QED BY <1>1, <1>2, <1>5, <2>1, <2>2, <2>3 DEF RunWrite
<1>8. k \in Continuation
  <2>1. r \in Nat /\ runs[r].window \in Nat /\ req[w].page + 1 \in Nat
    BY <1>1, <1>3 DEF RunIds, Run, Request
  <2>2. [NoContinuation EXCEPT !.pending = TRUE] \in Continuation
    BY DEF NoContinuation, Continuation, NULL
  <2>3. [pending |-> TRUE, run |-> r, rev |-> job[w].d.rev, window |-> runs[r].window,
         page |-> req[w].page + 1] \in Continuation
    BY <1>1, <2>1 DEF Continuation
  <2> QED BY <2>2, <2>3, NothingTyped DEF NextContinuation
<1>9. y \in CursorRow
  <2>1. res[w].next \in Nat /\ cursor[t].value \in Nat
    BY <1>3 DEF Result, CursorRow
  <2> DEFINE v == IF WritesValue(w) THEN res[w].next ELSE cursor[t].value
  <2>2. v \in Nat
    BY <2>1
  <2>3. y = IF ~WritesCursor(w) THEN cursor[t] ELSE [row |-> TRUE, value |-> v, cont |-> k]
    BY DEF NextCursor
  <2> HIDE DEF k, v, y
  <2>4. [row |-> TRUE, value |-> v, cont |-> k] \in CursorRow
    BY <1>8, <2>2 DEF CursorRow
  <2> QED BY <1>3, <2>3, <2>4
<1>10. t \in PagedTargets => y.cont = k
  BY DEF NextCursor, WritesCursor
<1>11. /\ cursor' \in [Targets -> CursorRow] /\ cursor'[t] = y
       /\ \A u \in Targets \ {t} : cursor'[u] = cursor[u]
  <2> HIDE DEF y
  <2> QED BY <1>1, <1>2, <1>9 DEF Inv, TypeOK
<1>12. ContinuationBound'
  <2> SUFFICES ASSUME NEW u \in PagedTargets, cursor'[u].cont.pending
               PROVE  /\ cursor'[u].cont.run \in RunIds
                      /\ runs'[cursor'[u].cont.run].d.target = u
                      /\ runs'[cursor'[u].cont.run].window # NULL
                      /\ runs'[cursor'[u].cont.run].window = cursor'[u].cont.window
                      /\ runs'[cursor'[u].cont.run].cfg = cursor'[u].cont.rev
                      /\ runs'[cursor'[u].cont.run].status \in {"running", "partial", "failed"}
                      /\ cursor'[u].cont.rev = target'[u].rev
    BY DEF ContinuationBound
  <2>1. CASE u = t
    <3>1. k.pending
      BY <1>10, <1>11, <2>1
    \* Only an answer that has more leaves a continuation, and its run is open.
    <3>2. res[w].more
      BY <3>1 DEF NextContinuation, NoContinuation
    <3>3. /\ k.run = r /\ k.rev = job[w].d.rev /\ k.window = runs[r].window
      BY <2>1, <3>2 DEF NextContinuation
    <3>4. PersistStatus(w) \in {"running", "partial"}
      BY <3>2 DEF PersistStatus
    <3>5. runs[r].cfg = job[w].d.rev
      BY <1>1, <2>1 DEF Inv, TableOK, RunsOK
    <3>6. runs'[r] = x
      BY <1>1, <1>6, <1>7, RunWritten
    <3>7. cursor'[u].cont = k
      BY <1>10, <1>11, <2>1
    <3>8. target'[u].rev = job[w].d.rev
      BY <1>1, <1>2, <1>6, <2>1 DEF RevisionsKeep
    <3>9. /\ x.d.target = u /\ x.window = runs[r].window /\ runs[r].window # NULL
          /\ x.cfg = job[w].d.rev /\ x.status \in {"running", "partial", "failed"}
      BY <1>1, <1>5, <2>1, <3>4, <3>5
    <3> HIDE DEF k, y
    <3> QED BY <1>1, <3>3, <3>6, <3>7, <3>8, <3>9
  <2>2. CASE u # t
    <3>1. u \in Targets /\ cursor'[u] = cursor[u]
      BY <1>11, <2>2, TargetsAssumption
    <3>2. cursor[u].cont.run \in RunIds /\ cursor[u].cont.run # r
      BY <1>1, <2>2, <3>1 DEF Inv, TableOK, ContinuationBound
    <3>3. /\ runs'[cursor[u].cont.run] = runs[cursor[u].cont.run]
          /\ target'[u].rev = target[u].rev
      BY <1>1, <1>6, <1>7, <3>1, <3>2, RunWritten DEF RevisionsKeep
    <3> QED BY <3>1, <3>2, <3>3 DEF Inv, TableOK, ContinuationBound
  <2> QED BY <2>1, <2>2
<1>13. TableOK' /\ RunsKeep /\ runs' \in [RunIds -> Run] /\ runs'[r] = x
  BY <1>1, <1>6, <1>7, <1>12, RunWritten DEF TableOK
<1>14. SharedTypeOK'
  BY <1>2, <1>6, <1>11, <1>13 DEF Inv, TypeOK, SharedTypeOK
<1>15. CASE Final(w)
  BY <1>1, <1>13, <1>14, <1>15, AfterReturn DEF PersistResult
<1>16. CASE ~Final(w)
  <2> DEFINE z == [req[w] EXCEPT !.cur = res[w].next, !.page = @ + 1, !.index = @ + 1]
  <2>1. Goto(w, "load_page") /\ req' = [req EXCEPT ![w] = z]
        /\ res' = [res EXCEPT ![w] = NoResult] /\ UNCHANGED job
    BY <1>16 DEF PersistResult
  <2>2. req[w].page + 1 \in Nat /\ req[w].index + 1 \in Nat /\ res[w].next \in Nat
    BY <1>3 DEF Request, Result
  <2>3. z \in Request
    BY <1>3, <2>2 DEF Request
  <2> HIDE DEF z
  <2>4. req' \in [Workers -> Request] /\ res' \in [Workers -> Result]
    BY <2>1, <2>3, NothingTyped DEF Inv, TypeOK
  <2>5. t \in PagedTargets /\ "load_page" \in PCs
    BY <1>16 DEF Final, PCs
  <2>6. WorkerOK(w)'
    <3>1. pc'[w] = "load_page" /\ job'[w] = job[w] /\ job[w].d \in Dispatch
      BY <1>1, <2>1 DEF Goto, Inv, TypeOK, WorkerOK
    <3> QED BY <1>1, <1>5, <1>7, <1>13, <2>5, <3>1 DEF WorkerOK, RunPCs, RunWrite
  <2> QED BY <1>13, <1>14, <2>1, <2>4, <2>5, <2>6, AfterGoto
<1> QED BY <1>15, <1>16

-----------------------------------------------------------------------------
(* The theorems.                                                           *)

LEMMA InvNext == Inv /\ [Next]_vars => Inv'
<1> SUFFICES ASSUME Inv, [Next]_vars PROVE Inv'
  OBVIOUS
<1>1. CASE UNCHANGED vars
  BY <1>1, TablesUnchanged, AllStayOK DEF Inv, TypeOK, vars
<1>2. ASSUME NEW w \in Workers, WorkerStep(w) PROVE Inv'
  BY <1>2, TaskSteps, PrepareStep, StartRunStaleStep, StartRunAdoptStep, StartRunCreateStep,
     ResolvedRunConfigStep, LoadPageStep, BudgetStep, FetchSteps, FailingSteps,
     PersistResultStep, FinishErrorStep, FinishLockLostStep
     DEF WorkerStep
<1> QED BY <1>1, <1>2, ClockSteps, SchedulerSteps, RecoverStaleStep, OperatorSteps
        DEF Next, Horizon

THEOREM Invariance == Spec => []Inv
  BY InvInit, InvNext, PTL DEF Spec

\* TypeOK holds in every reachable state: no step of the scheduler, of a worker, of
\* the recovery or of the operator writes a value outside its column's type.
THEOREM TypeCorrect == Spec => []TypeOK
<1>1. Inv => TypeOK
  BY DEF Inv
<1> QED BY <1>1, Invariance, PTL

\* OneRunningPerTarget holds for every number of workers, however late: adoption in
\* _start_run and the partial unique index leave one RUNNING run per target.
THEOREM AtMostOneRunning == Spec => []OneRunningPerTarget
<1>1. Inv => OneRunningPerTarget
  BY DEF Inv, TableOK
<1> QED BY <1>1, Invariance, PTL

\* RunningIsCurrent: revise's refusal and the revision checks of _start_run,
\* _persist_result and _finish_error keep every RUNNING run at its target's revision.
THEOREM RunningRunsAreCurrent == Spec => []RunningIsCurrent
<1>1. Inv => RunningIsCurrent
  BY DEF Inv, TableOK
<1> QED BY <1>1, Invariance, PTL

\* ContinuationBound: the continuation a paged target has pending can always be
\* resumed, in the window its run froze and under the current revision.
THEOREM PendingContinuationsAreBound == Spec => []ContinuationBound
<1>1. Inv => ContinuationBound
  BY DEF Inv, TableOK
<1> QED BY <1>1, Invariance, PTL

-----------------------------------------------------------------------------
(* The request budget.                                                     *)

\* The budget of a run, with the finiteness of what is in flight.
BudgetOK(r) ==
    runs[r].d.target \in PagedTargets =>
        /\ IsFiniteSet(InFlight(r))
        /\ runs[r].requests <= MaxRequests
        /\ runs[r].pages + Cardinality(InFlight(r)) <= runs[r].requests

BudgetInv == \A r \in RunIds : BudgetOK(r)

-----------------------------------------------------------------------------
(* What a step of a worker leaves alone.                                   *)

\* The local state of the other workers.
OnlyMine(w) ==
    \A v \in Workers \ {w} :
        pc'[v] = pc[v] /\ job'[v] = job[v] /\ req'[v] = req[v] /\ res'[v] = res[v]

LEMMA GotoMine ==
    ASSUME TypeOK, NEW w \in Workers, NEW s, Goto(w, s), UNCHANGED job,
           \A v \in Workers \ {w} : req'[v] = req[v] /\ res'[v] = res[v]
    PROVE  OnlyMine(w) /\ pc'[w] = s
  BY DEF TypeOK, Goto, OnlyMine

LEMMA FailMine ==
    ASSUME TypeOK, NEW w \in Workers, NEW b, NEW c, Fail(w, b, c), UNCHANGED <<job, req>>
    PROVE  OnlyMine(w) /\ pc'[w] = "finish_error"
  BY DEF TypeOK, Fail, Goto, OnlyMine

LEMMA ReturnMine ==
    ASSUME TypeOK, NEW w \in Workers, Return(w)
    PROVE  OnlyMine(w) /\ pc'[w] = "release" /\ job'[w].run = NULL /\ job'[w].d = job[w].d
<1>1. [job[w] EXCEPT !.run = NULL].run = NULL /\ [job[w] EXCEPT !.run = NULL].d = job[w].d
  BY JobUpdate DEF TypeOK
<1>2. job' = [job EXCEPT ![w] = [job[w] EXCEPT !.run = NULL]]
  BY DEF Return
<1> QED BY <1>1, <1>2 DEF TypeOK, Return, Goto, OnlyMine

LEMMA ForgetMine ==
    ASSUME TypeOK, NEW w \in Workers, Forget(w)
    PROVE  OnlyMine(w) /\ pc'[w] = "idle" /\ job'[w] = NoJob
  BY DEF TypeOK, Forget, Goto, OnlyMine

LEMMA StartedMine ==
    ASSUME TypeOK, NEW w \in Workers, NEW r \in RunIds, Started(w, r), UNCHANGED res
    PROVE  /\ OnlyMine(w)
           /\ job'[w].run = r /\ job'[w].d = job[w].d
           /\ pc'[w] = IF job[w].d.target \in PagedTargets THEN "resolve" ELSE "fetch"
           /\ req'[w].cur = cursor[job[w].d.target].value
<1> DEFINE t == job[w].d.target
           q == [NoRequest EXCEPT !.row = cursor[t].row, !.snap = cursor[t].value,
                                  !.cur = cursor[t].value]
<1>1. [job[w] EXCEPT !.run = r].run = r /\ [job[w] EXCEPT !.run = r].d = job[w].d
  BY JobUpdate DEF TypeOK
<1>2. job' = [job EXCEPT ![w] = [job[w] EXCEPT !.run = r]]
  BY DEF Started
<1>3. req' = [req EXCEPT ![w] = q] /\ q.cur = cursor[t].value
  BY DEF Started, NoRequest
<1> HIDE DEF q
<1> QED BY <1>1, <1>2, <1>3 DEF TypeOK, Started, Goto, OnlyMine

LEMMA OthersApart ==
    ASSUME TypeOK, NEW w \in Workers, WorkerStep(w)
    PROVE  OnlyMine(w)
<1>1. ASSUME NEW d \in queue, TakeTask(w, d) PROVE OnlyMine(w)
  BY <1>1 DEF TypeOK, TakeTask, Goto, OnlyMine
<1>2. ASSUME AcquireLock(w) PROVE OnlyMine(w)
  BY <1>2, ForgetMine, GotoMine DEF AcquireLock
<1>3. ASSUME RenewLock(w) PROVE OnlyMine(w)
  BY <1>3 DEF RenewLock, OnlyMine
<1>4. ASSUME Prepare(w) PROVE OnlyMine(w)
  BY <1>4, ReturnMine, GotoMine DEF Prepare
<1>5. ASSUME StartRunStale(w) PROVE OnlyMine(w)
  BY <1>5, ReturnMine DEF StartRunStale
<1>6. ASSUME StartRunAdopt(w) PROVE OnlyMine(w)
  BY <1>6, StartedMine DEF StartRunAdopt, RunningRuns
<1>7. ASSUME StartRunCreate(w) PROVE OnlyMine(w)
  BY <1>7, StartedMine DEF StartRunCreate
<1>8. ASSUME ResolvedRunConfig(w) PROVE OnlyMine(w)
  BY <1>8, FailMine DEF ResolvedRunConfig, Raise, Goto, OnlyMine, TypeOK
<1>9. ASSUME LoadPage(w) PROVE OnlyMine(w)
  <2>1. CASE LoadOk(job[w].d.target, job[w].d.rev)
    <3>1. \A v \in Workers \ {w} : req'[v] = req[v]
      BY <1>9, <2>1 DEF LoadPage, TypeOK
    <3> QED BY <1>9, <2>1, <3>1, GotoMine DEF LoadPage
  <2>2. CASE ~LoadOk(job[w].d.target, job[w].d.rev)
    BY <1>9, <2>2, FailMine DEF LoadPage, Raise
  <2> QED BY <2>1, <2>2
<1>10. ASSUME Budget(w) PROVE OnlyMine(w)
  BY <1>10, ReturnMine, FailMine, GotoMine DEF Budget
<1>11. ASSUME FetchResult(w) PROVE OnlyMine(w)
  BY <1>11, GotoMine DEF FetchResult, TypeOK
<1>12. ASSUME FetchFails(w) \/ AnswerInvalid(w) \/ PersistRefused(w) PROVE OnlyMine(w)
  BY <1>12, FailMine DEF FetchFails, AnswerInvalid, PersistRefused, Raise
<1>13. ASSUME FetchLockLost(w) \/ CheckLockLost(w) PROVE OnlyMine(w)
  BY <1>13, GotoMine DEF FetchLockLost, CheckLockLost, LoseLock, TypeOK
<1>14. ASSUME CheckLockOwned(w) PROVE OnlyMine(w)
  BY <1>14, GotoMine, FailMine DEF CheckLockOwned
<1>15. ASSUME PersistResult(w) PROVE OnlyMine(w)
  <2>1. CASE Final(w)
    BY <1>15, <2>1, ReturnMine DEF PersistResult
  <2>2. CASE ~Final(w)
    BY <1>15, <2>2 DEF PersistResult, Goto, OnlyMine, TypeOK
  <2> QED BY <2>1, <2>2
<1>16. ASSUME FinishError(w) \/ FinishLockLost(w) PROVE OnlyMine(w)
  BY <1>16, ReturnMine DEF FinishError, FinishLockLost
<1>17. ASSUME DatabaseFails(w) PROVE OnlyMine(w)
  BY <1>17, ReturnMine, FailMine DEF DatabaseFails, Raise
<1>18. ASSUME Release(w) \/ WorkerCrash(w) PROVE OnlyMine(w)
  BY <1>18, ForgetMine DEF Release, WorkerCrash
<1> QED BY <1>1, <1>2, <1>3, <1>4, <1>5, <1>6, <1>7, <1>8, <1>9, <1>10, <1>11, <1>12, <1>13,
           <1>14, <1>15, <1>16, <1>17, <1>18 DEF WorkerStep

-----------------------------------------------------------------------------
(* The request budget survives every step.                                 *)

\* What the budget of a run is counted from.
CountsKept(r) ==
    runs'[r].d = runs[r].d /\ runs'[r].requests = runs[r].requests /\ runs'[r].pages = runs[r].pages

LEMMA BudgetKept ==
    ASSUME Inv, NEW r \in RunIds, BudgetOK(r), CountsKept(r),
           runs[r].d.target \in PagedTargets => InFlight(r)' \subseteq InFlight(r)
    PROVE  BudgetOK(r)'
<1> SUFFICES ASSUME runs[r].d.target \in PagedTargets PROVE BudgetOK(r)'
  BY DEF BudgetOK, CountsKept
<1> DEFINE old == InFlight(r)
           new == InFlight(r)'
<1>1. IsFiniteSet(old) /\ new \subseteq old
  BY DEF BudgetOK
<1> HIDE DEF old, new
<1>2. IsFiniteSet(new) /\ Cardinality(new) <= Cardinality(old)
  BY <1>1, FS_Subset
<1>3. Cardinality(new) \in Nat /\ Cardinality(old) \in Nat
  BY <1>1, <1>2, FS_CardinalityType
<1>4. runs[r].pages \in Nat /\ runs[r].requests \in Nat
  BY DEF Inv, TypeOK, Run
<1>5. runs[r].pages + Cardinality(old) <= runs[r].requests
  BY DEF BudgetOK, old
<1>6. runs[r].pages + Cardinality(new) <= runs[r].requests
  BY <1>2, <1>3, <1>4, <1>5
<1> QED BY <1>2, <1>6 DEF BudgetOK, CountsKept, new

\* Where a step of a worker leaves what is in flight.
LEMMA InFlightOf ==
    ASSUME NEW w \in Workers, OnlyMine(w), NEW r \in RunIds
    PROVE  /\ InFlight(r)' \subseteq InFlight(r) \cup {w}
           /\ w \notin InFlight(r)' \/ w \in InFlight(r) => InFlight(r)' \subseteq InFlight(r)
  BY DEF OnlyMine, InFlight

\* A step that changes nobody's counters and sends no request.
LEMMA QuietBudget ==
    ASSUME Inv, BudgetInv, NEW w \in Workers, OnlyMine(w),
           \A r \in RunIds : CountsKept(r),
           \A r \in RunIds : runs[r].d.target \in PagedTargets /\ w \in InFlight(r)' => w \in InFlight(r)
    PROVE  BudgetInv'
<1> SUFFICES ASSUME NEW r \in RunIds PROVE BudgetOK(r)'
  BY DEF BudgetInv
<1>1. runs[r].d.target \in PagedTargets => InFlight(r)' \subseteq InFlight(r)
  BY InFlightOf
<1> QED BY <1>1, BudgetKept DEF BudgetInv

\* The steps before a request and after the last answer: nothing is in flight then.
LEMMA ParkedBudget ==
    ASSUME Inv, BudgetInv, NEW w \in Workers, OnlyMine(w), \A r \in RunIds : CountsKept(r),
           pc'[w] \notin {"fetch", "check_lock", "persist"}
    PROVE  BudgetInv'
<1>1. \A r \in RunIds : w \notin InFlight(r)'
  BY DEF InFlight
<1> QED BY <1>1, QuietBudget

\* Steps that write the rows of no run keep the counts of all of them.
LEMMA SameCounts ==
    ASSUME UNCHANGED runs PROVE \A r \in RunIds : CountsKept(r)
  BY DEF CountsKept

\* As do those that write other columns.
LEMMA StatusCounts ==
    ASSUME Inv, NEW r \in RunIds, NEW s, NEW n,
           \/ runs' = [runs EXCEPT ![r].status = s]
           \/ runs' = [runs EXCEPT ![r].status = s, ![r].retries = n]
           \/ runs' = [runs EXCEPT ![r].window = s, ![r].cfg = n]
    PROVE  \A q \in RunIds : CountsKept(q)
  BY DEF Inv, TypeOK, Run, CountsKept

LEMMA CreateBudget ==
    ASSUME Inv, BudgetInv, NEW w \in Workers, StartRunCreate(w)
    PROVE  BudgetInv'
<1>1. PICK r \in RunIds :
         /\ \A q \in RunIds : runs[q].status = "absent" <=> q >= r
         /\ runs' = [runs EXCEPT ![r] = [NoRun EXCEPT !.d = job[w].d, !.status = "running",
                                                      !.started = now]]
         /\ Started(w, r)
  BY DEF StartRunCreate
<1>2. /\ OnlyMine(w) /\ job'[w].run = r
      /\ pc'[w] = IF job[w].d.target \in PagedTargets THEN "resolve" ELSE "fetch"
  BY <1>1, StartedMine DEF StartRunCreate, Inv
<1> SUFFICES ASSUME NEW q \in RunIds PROVE BudgetOK(q)'
  BY DEF BudgetInv
<1>3. CASE q # r
  <2>1. CountsKept(q)
    BY <1>1, <1>3 DEF CountsKept
  <2>2. w \notin InFlight(q)'
    BY <1>2, <1>3 DEF InFlight
  <2> QED BY <1>2, <2>1, <2>2, InFlightOf, BudgetKept DEF BudgetInv
\* Nobody executes a run that does not exist.
<1>4. CASE q = r
  <2>1. runs[r].status = "absent"
    BY <1>1 DEF RunIds
  <2>2. \A v \in Workers : v \notin InFlight(r)
    BY <2>1 DEF InFlight, Inv, WorkerOK, RunPCs
  <2>3. /\ runs'[r].d = job[w].d /\ runs'[r].requests = 0 /\ runs'[r].pages = 0
    BY <1>1 DEF Inv, TypeOK, NoRun, NULL
  <2> SUFFICES ASSUME job[w].d.target \in PagedTargets PROVE BudgetOK(r)'
    BY <1>4, <2>3 DEF BudgetOK
  <2>4. w \notin InFlight(r)' /\ w \notin InFlight(r)
    BY <1>2, <2>2 DEF InFlight
  <2>5. InFlight(r)' = {}
    BY <1>2, <2>2, <2>4, InFlightOf DEF InFlight
  <2>6. MaxRequests \in Nat
    BY BoundsAssumption
  <2>7. IsFiniteSet({}) /\ Cardinality({}) = 0
    BY FS_EmptySet
  <2> QED BY <2>3, <2>5, <2>6, <2>7 DEF BudgetOK
<1> QED BY <1>3, <1>4

\* A request is counted in the transaction before it is sent.
LEMMA RequestBudgeted ==
    ASSUME Inv, BudgetInv, NEW w \in Workers, Budget(w)
    PROVE  BudgetInv'
<1> DEFINE me == job[w].run
<1>1. /\ OnlyMine(w) /\ me \in RunIds /\ pc[w] = "budget"
      /\ runs[me].requests \in Nat /\ runs[me].pages \in Nat
  BY OthersApart DEF WorkerStep, Budget, Inv, WorkerOK, RunPCs, TypeOK, Run
<1>2. CASE BudgetSpent(me)
  <2>1. runs' = [runs EXCEPT ![me].status = "partial"] /\ Return(w)
    BY <1>2 DEF Budget
  <2>2. pc'[w] = "release"
    BY <2>1, ReturnMine DEF Inv
  <2> HIDE DEF me
  <2>3. \A r \in RunIds : CountsKept(r)
    BY <1>1, <2>1, StatusCounts
  <2> QED BY <1>1, <2>2, <2>3, ParkedBudget
<1>3. CASE ~BudgetSpent(me)
  <2>1. runs' = [runs EXCEPT ![me].requests = @ + 1] /\ UNCHANGED job
    BY <1>3 DEF Budget
  <2> SUFFICES ASSUME NEW r \in RunIds PROVE BudgetOK(r)'
    BY DEF BudgetInv
  <2>2. CASE r # me
    <3>1. CountsKept(r)
      BY <1>1, <2>1, <2>2 DEF CountsKept
    <3>2. w \notin InFlight(r)'
      BY <2>1, <2>2 DEF InFlight
    <3> QED BY <1>1, <3>1, <3>2, InFlightOf, BudgetKept DEF BudgetInv
  <2>3. CASE r = me
    <3> DEFINE old == InFlight(r)
               new == InFlight(r)'
    <3> HIDE DEF me
    <3>1. /\ runs'[r].d = runs[r].d /\ runs'[r].pages = runs[r].pages
          /\ runs'[r].requests = runs[r].requests + 1
      BY <1>1, <2>1, <2>3 DEF Inv, TypeOK, Run
    <3> SUFFICES ASSUME runs[r].d.target \in PagedTargets PROVE BudgetOK(r)'
      BY <3>1 DEF BudgetOK
    <3>2. /\ IsFiniteSet(old) /\ runs[r].pages + Cardinality(old) <= runs[r].requests
          /\ new \subseteq old \cup {w}
      BY <1>1, InFlightOf DEF BudgetInv, BudgetOK
    <3> HIDE DEF old, new
    <3>3. IsFiniteSet(old \cup {w}) /\ Cardinality(old \cup {w}) <= Cardinality(old) + 1
      <4>1. Cardinality(old) \in Nat
        BY <3>2, FS_CardinalityType
      <4>2. /\ IsFiniteSet(old \cup {w})
            /\ Cardinality(old \cup {w}) = IF w \in old THEN Cardinality(old) ELSE Cardinality(old) + 1
        BY <3>2, FS_AddElement
      <4> QED BY <4>1, <4>2
    <3>4. IsFiniteSet(new) /\ Cardinality(new) <= Cardinality(old \cup {w})
      BY <3>2, <3>3, FS_Subset
    <3>5. Cardinality(old) \in Nat /\ Cardinality(new) \in Nat /\ Cardinality(old \cup {w}) \in Nat
      BY <3>2, <3>3, <3>4, FS_CardinalityType
    <3>6. runs[r].pages + Cardinality(new) <= runs[r].requests + 1
      BY <1>1, <2>3, <3>2, <3>3, <3>4, <3>5
    <3>7. runs[r].requests + 1 <= MaxRequests
      BY <1>1, <1>3, <2>3, BoundsAssumption DEF BudgetSpent
    <3> QED BY <3>1, <3>4, <3>6, <3>7 DEF BudgetOK, new
  <2> QED BY <2>2, <2>3
<1> QED BY <1>2, <1>3

\* A persisted page was in flight.
LEMMA PageBudgeted ==
    ASSUME Inv, BudgetInv, NEW w \in Workers, PersistResult(w)
    PROVE  BudgetInv'
<1> DEFINE me == job[w].run
           t == job[w].d.target
<1>1. /\ OnlyMine(w) /\ me \in RunIds /\ pc[w] = "persist" /\ runs[me].d.target = t
      /\ runs[me].requests \in Nat /\ runs[me].pages \in Nat
  BY OthersApart DEF WorkerStep, PersistResult, Inv, WorkerOK, RunPCs, TypeOK, Run
<1>2. pc'[w] \in {"release", "load_page"}
  <2>1. CASE Final(w)
    BY <2>1, ReturnMine DEF PersistResult, Inv
  <2>2. CASE ~Final(w)
    BY <2>2 DEF PersistResult, Goto, Inv, TypeOK
  <2> QED BY <2>1, <2>2
<1>3. runs' = [runs EXCEPT ![me].status = PersistStatus(w),
                           ![me].pages = IF t \in PagedTargets THEN @ + 1 ELSE @]
  BY DEF PersistResult, Persisted
<1> HIDE DEF me
<1> SUFFICES ASSUME NEW r \in RunIds PROVE BudgetOK(r)'
  BY DEF BudgetInv
<1>4. w \notin InFlight(r)'
  BY <1>2 DEF InFlight
<1>5. CASE r # me
  <2>1. CountsKept(r)
    BY <1>1, <1>3, <1>5 DEF CountsKept, Inv, TypeOK
  <2> QED BY <1>1, <1>4, <2>1, InFlightOf, BudgetKept DEF BudgetInv
<1>6. CASE r = me
  <2> DEFINE old == InFlight(r)
             new == InFlight(r)'
  <2>1. /\ runs'[r].d = runs[r].d /\ runs'[r].requests = runs[r].requests
        /\ t \in PagedTargets => runs'[r].pages = runs[r].pages + 1
    BY <1>1, <1>3, <1>6 DEF Inv, TypeOK, Run
  <2> SUFFICES ASSUME t \in PagedTargets PROVE BudgetOK(r)'
    BY <1>1, <1>6, <2>1 DEF BudgetOK
  <2>2. /\ IsFiniteSet(old) /\ runs[r].pages + Cardinality(old) <= runs[r].requests
        /\ runs[r].requests <= MaxRequests
    BY <1>1, <1>6 DEF BudgetInv, BudgetOK
  <2>3. new \subseteq old \ {w} /\ w \in old
    BY <1>1, <1>4, <1>6, InFlightOf DEF InFlight, me
  <2> HIDE DEF old, new
  <2>4. IsFiniteSet(old \ {w}) /\ Cardinality(old \ {w}) = Cardinality(old) - 1
    BY <2>2, <2>3, FS_RemoveElement
  <2>5. IsFiniteSet(new) /\ Cardinality(new) <= Cardinality(old \ {w})
    BY <2>3, <2>4, FS_Subset
  <2>6. Cardinality(old) \in Nat /\ Cardinality(new) \in Nat
    BY <2>2, <2>5, FS_CardinalityType
  <2>7. runs[r].pages + 1 + Cardinality(new) <= runs[r].requests
    BY <1>1, <1>6, <2>2, <2>4, <2>5, <2>6
  <2> QED BY <1>1, <1>6, <2>1, <2>2, <2>5, <2>7 DEF BudgetOK, new
<1> QED BY <1>5, <1>6

LEMMA BudgetInit == Init => BudgetInv
  BY TargetsAssumption DEF Init, BudgetInv, BudgetOK, NoRun, NoDispatch

LEMMA BudgetNext == Inv /\ BudgetInv /\ [Next]_vars => BudgetInv'
<1> SUFFICES ASSUME Inv, BudgetInv, [Next]_vars PROVE BudgetInv'
  OBVIOUS
<1>1. ASSUME UNCHANGED <<pc, job>>, \A r \in RunIds : CountsKept(r) PROVE BudgetInv'
  <2> SUFFICES ASSUME NEW r \in RunIds PROVE BudgetOK(r)'
    BY DEF BudgetInv
  <2>1. InFlight(r)' = InFlight(r)
    BY <1>1 DEF InFlight
  <2> QED BY <1>1, <2>1, BudgetKept DEF BudgetInv
<1>2. ASSUME NEW r \in RunIds, RecoverStale(r) PROVE BudgetInv'
  BY <1>1, <1>2, StatusCounts DEF RecoverStale, RunFailed
<1>3. CASE Tick \/ SchedulerStep \/ OperatorStep \/ UNCHANGED vars
  <2>1. UNCHANGED <<runs, pc, job>>
    BY <1>3 DEF Tick, SchedulerStep, DuePage, ClaimDue, Enqueue, EnqueueFails, SchedulerCrash,
       OperatorStep, Revise, PauseForContinuationAbandon, AbandonPendingContinuations, vars
  <2> QED BY <1>1, <2>1, SameCounts
<1>4. ASSUME NEW w \in Workers, WorkerStep(w) PROVE BudgetInv'
  <2>1. OnlyMine(w) /\ TypeOK
    BY <1>4, OthersApart DEF Inv
  \* The steps that are not in flight afterwards.
  <2>2. ASSUME UNCHANGED runs,
               \/ \E d \in queue : TakeTask(w, d)
               \/ AcquireLock(w) \/ Prepare(w) \/ StartRunStale(w) \/ LoadPage(w) \/ FetchFails(w)
               \/ FetchLockLost(w) \/ CheckLockLost(w) \/ AnswerInvalid(w) \/ PersistRefused(w)
               \/ DatabaseFails(w) \/ Release(w) \/ WorkerCrash(w)
        PROVE  BudgetInv'
    <3>1. pc'[w] \notin {"fetch", "check_lock", "persist"}
      BY <2>1, <2>2, ReturnMine, FailMine, ForgetMine
         DEF TakeTask, AcquireLock, Prepare, StartRunStale, LoadPage, FetchFails, FetchLockLost,
             CheckLockLost, AnswerInvalid, PersistRefused, DatabaseFails, Release, WorkerCrash,
             Raise, LoseLock, Goto, TypeOK
    <3> QED BY <2>1, <2>2, <3>1, SameCounts, ParkedBudget
  <2>3. ASSUME FetchResult(w) \/ CheckLockOwned(w) \/ RenewLock(w) PROVE BudgetInv'
    <3>1. UNCHANGED <<runs, job>>
      BY <2>3 DEF FetchResult, CheckLockOwned, RenewLock
    <3>2. \A r \in RunIds : w \in InFlight(r)' => w \in InFlight(r)
      BY <2>1, <2>3, <3>1, FailMine
         DEF FetchResult, CheckLockOwned, RenewLock, InFlight, Goto, TypeOK
    <3> QED BY <2>1, <3>1, <3>2, SameCounts, QuietBudget
  <2>4. ASSUME StartRunAdopt(w) PROVE BudgetInv'
    <3>1. PICK r \in RunningRuns(job[w].d.target) : Started(w, r)
      BY <2>4 DEF StartRunAdopt
    <3>2. /\ r \in RunIds /\ runs[r].d.target = job[w].d.target
          /\ job'[w].run = r
          /\ job[w].d.target \in PagedTargets => pc'[w] = "resolve"
      BY <2>1, <2>4, <3>1, StartedMine DEF RunningRuns, StartRunAdopt
    <3>3. \A q \in RunIds : runs[q].d.target \in PagedTargets => w \notin InFlight(q)'
      BY <3>2 DEF InFlight
    <3> QED BY <2>1, <2>4, <3>3, SameCounts, QuietBudget DEF StartRunAdopt
  <2>5. ASSUME ResolvedRunConfig(w) PROVE BudgetInv'
    <3>1. pc'[w] \in {"load_page", "finish_error"}
      BY <2>1, <2>5, FailMine DEF ResolvedRunConfig, Raise, Goto, TypeOK
    <3>2. job[w].run \in RunIds
      BY <2>5 DEF ResolvedRunConfig, Inv, WorkerOK, RunPCs
    <3>3. \A r \in RunIds : CountsKept(r)
      <4> DEFINE r == job[w].run
                 x == WindowOf(r, job[w].d.target)
                 y == job[w].d.rev
      <4>1. \/ UNCHANGED runs
            \/ runs' = [runs EXCEPT ![r].window = x, ![r].cfg = y]
        BY <2>5 DEF ResolvedRunConfig
      <4> HIDE DEF r, x, y
      <4>2. r \in RunIds
        BY <3>2 DEF r
      <4> QED BY <4>1, <4>2, StatusCounts, SameCounts
    <3> QED BY <2>1, <3>1, <3>3, ParkedBudget
  <2>6. ASSUME FinishError(w) \/ FinishLockLost(w) PROVE BudgetInv'
    <3>1. pc'[w] = "release"
      BY <2>1, <2>6, ReturnMine DEF FinishError, FinishLockLost
    <3>2. job[w].run \in RunIds
      BY <2>6 DEF FinishError, FinishLockLost, Inv, WorkerOK, RunPCs
    <3>3. \A r \in RunIds : CountsKept(r)
      <4>1. CASE runs' = RunFailed(job[w].run)
        BY <3>2, <4>1, StatusCounts DEF RunFailed
      <4>2. CASE runs' = [runs EXCEPT ![job[w].run].status = "running", ![job[w].run].retries = @ + 1]
        BY <3>2, <4>2 DEF CountsKept, Inv, TypeOK, Run
      <4> QED BY <2>6, <4>1, <4>2 DEF FinishError, FinishLockLost
    <3> QED BY <2>1, <3>1, <3>3, ParkedBudget
  <2>7. \/ UNCHANGED runs /\ \/ \E d \in queue : TakeTask(w, d)
                             \/ AcquireLock(w) \/ Prepare(w) \/ StartRunStale(w) \/ LoadPage(w)
                             \/ FetchFails(w) \/ FetchLockLost(w) \/ CheckLockLost(w)
                             \/ AnswerInvalid(w) \/ PersistRefused(w)
                             \/ DatabaseFails(w) \/ Release(w) \/ WorkerCrash(w)
        \/ FetchResult(w) \/ CheckLockOwned(w) \/ RenewLock(w)
        \/ StartRunAdopt(w) \/ StartRunCreate(w) \/ ResolvedRunConfig(w)
        \/ Budget(w) \/ PersistResult(w) \/ FinishError(w) \/ FinishLockLost(w)
    BY <1>4 DEF WorkerStep, TakeTask, AcquireLock, Prepare, StartRunStale, LoadPage, FetchFails,
       FetchLockLost, CheckLockLost, AnswerInvalid, PersistRefused, DatabaseFails, Release, WorkerCrash
  <2> QED BY <2>2, <2>3, <2>4, <2>5, <2>6, <2>7, CreateBudget, RequestBudgeted, PageBudgeted
<1> QED BY <1>2, <1>3, <1>4 DEF Next, Horizon

\* RequestBudget holds for every number of workers, however late they are: Budget counts
\* a request in the transaction before it is sent, so that what is persisted and what is
\* in flight never exceeds what was counted.
THEOREM RequestsAreBudgeted == Spec => []RequestBudget
<1>1. BudgetInv => RequestBudget
  BY DEF BudgetInv, BudgetOK, RequestBudget
<1>2. Spec => []BudgetInv
  BY Invariance, BudgetInit, BudgetNext, PTL DEF Spec
<1> QED BY <1>1, <1>2, PTL

-----------------------------------------------------------------------------
(* The target lock.                                                        *)

\* The steps under the lock, and those of them in the page loop.
UnderLock(w) == pc[w] \notin {"idle", "lock"}

Paging == {"load_page", "budget", "fetch", "check_lock", "persist"}

\* A worker past the lock owns it.
LockHeld(w) == UnderLock(w) => lock[job[w].d.target].owner = w

\* Whose run is RUNNING for as long as it has one.
RunHeld(w) ==
    /\ job[w].run # NULL => pc[w] \in RunPCs
    /\ pc[w] \in RunPCs => runs[job[w].run].status = "running"

\* Its request is what the cursor row says, and its continuation is bound to its run.
CursorHeld(w) ==
    LET c == cursor[job[w].d.target] IN
    job[w].d.target \in PagedTargets =>
        /\ pc[w] \in Paging \cup {"resolve"} => req[w].cur = c.value
        /\ pc[w] \in Paging => /\ c.cont.pending
                               /\ c.cont.window = runs[job[w].run].window
                               /\ c.cont.page = req[w].page
        /\ pc[w] \in {"check_lock", "persist"} => res[w].next >= req[w].cur

Holds(w) == LockHeld(w) /\ RunHeld(w) /\ CursorHeld(w)

\* A lock with an owner has not run out.
LocksLive == \A t \in Targets : lock[t].owner # NoWorker => lock[t].until > now

\* A single fetch binds no window and no page.
UnpagedBare ==
    \A t \in Targets \ PagedTargets : cursor[t].cont.window = NULL /\ cursor[t].cont.page = 0

TimelyInv == LocksLive /\ UnpagedBare /\ (\A w \in Workers : Holds(w))

-----------------------------------------------------------------------------
(* The holder of a lock keeps the others away from its target.             *)

\* What a step of a worker under the lock can write.
Confined(w) ==
    LET t == job[w].d.target IN
    /\ OnlyMine(w)
    /\ now' = now
    /\ \A u \in Targets \ {t} : cursor'[u] = cursor[u] /\ lock'[u] = lock[u]
    /\ \A r \in RunIds : runs[r].status # "absent" /\ r # job[w].run => runs'[r] = runs[r]

LEMMA StepsAreConfined ==
    ASSUME Inv, NEW w \in Workers, WorkerStep(w), UnderLock(w)
    PROVE  Confined(w)
<1> DEFINE t == job[w].d.target
           me == job[w].run
<1>1. OnlyMine(w) /\ now' = now
  <2>1. now' = now
    BY DEF WorkerStep, TakeTask, AcquireLock, RenewLock, Prepare, StartRunStale, StartRunAdopt,
       StartRunCreate, ResolvedRunConfig, LoadPage, Budget, FetchResult, FetchFails, FetchLockLost,
       CheckLockLost, CheckLockOwned, AnswerInvalid, PersistResult, PersistRefused, FinishError,
       FinishLockLost, DatabaseFails, Release, WorkerCrash
  <2> QED BY <2>1, OthersApart DEF Inv
<1>2. \A u \in Targets \ {t} : lock'[u] = lock[u]
  BY DEF UnderLock, Inv, TypeOK, WorkerStep, TakeTask, AcquireLock, RenewLock, Prepare,
     StartRunStale, StartRunAdopt, StartRunCreate, ResolvedRunConfig, LoadPage, Budget,
     FetchResult, FetchFails, FetchLockLost, CheckLockLost, CheckLockOwned, AnswerInvalid,
     PersistResult, PersistRefused, FinishError, FinishLockLost, DatabaseFails, Release, WorkerCrash
<1>3. \A u \in Targets \ {t} : cursor'[u] = cursor[u]
  <2>1. CASE ResolvedRunConfig(w)
    BY <2>1 DEF ResolvedRunConfig, Inv, TypeOK
  <2>2. CASE PersistResult(w)
    BY <2>2 DEF PersistResult, Persisted, Inv, TypeOK
  <2>3. CASE ~ResolvedRunConfig(w) /\ ~PersistResult(w)
    BY <2>3 DEF WorkerStep, TakeTask, AcquireLock, RenewLock, Prepare, StartRunStale, StartRunAdopt,
       StartRunCreate, LoadPage, Budget, FetchResult, FetchFails, FetchLockLost, CheckLockLost,
       CheckLockOwned, AnswerInvalid, PersistRefused, FinishError, FinishLockLost, DatabaseFails,
       Release, WorkerCrash
  <2> QED BY <2>1, <2>2, <2>3
<1>4. \A r \in RunIds : runs[r].status # "absent" /\ r # me => runs'[r] = runs[r]
  <2>1. CASE StartRunCreate(w)
    BY <2>1 DEF StartRunCreate, RunIds, Inv, TypeOK
  <2>2. CASE PersistResult(w)
    BY <2>2 DEF PersistResult, Persisted, Inv, TypeOK
  <2>3. CASE ResolvedRunConfig(w)
    BY <2>3 DEF ResolvedRunConfig, Inv, TypeOK
  <2>4. CASE Budget(w) \/ FinishError(w) \/ FinishLockLost(w)
    BY <2>4 DEF Budget, FinishError, FinishLockLost, RunFailed, Inv, TypeOK
  <2>5. CASE UNCHANGED runs
    BY <2>5
  <2> QED
    BY <2>1, <2>2, <2>3, <2>4, <2>5
       DEF WorkerStep, TakeTask, AcquireLock, RenewLock, Prepare, StartRunStale, StartRunAdopt,
       LoadPage, FetchResult, FetchFails, FetchLockLost, CheckLockLost, CheckLockOwned,
       AnswerInvalid, PersistRefused, DatabaseFails, Release, WorkerCrash
<1> QED BY <1>1, <1>2, <1>3, <1>4 DEF Confined

\* No two workers are under the lock of one target.
LEMMA LocksExclude ==
    ASSUME Inv, TimelyInv, NEW v \in Workers, NEW w \in Workers, UnderLock(v), UnderLock(w),
           job[v].d.target = job[w].d.target
    PROVE  v = w
  BY DEF TimelyInv, Holds, LockHeld

LEMMA OthersHold ==
    ASSUME Inv, TimelyInv, NEW w \in Workers, Confined(w), UnderLock(w)
    PROVE  \A v \in Workers \ {w} : Holds(v)'
<1> SUFFICES ASSUME NEW v \in Workers \ {w} PROVE Holds(v)'
  OBVIOUS
<1> DEFINE t == job[v].d.target
           r == job[v].run
<1>1. /\ pc'[v] = pc[v] /\ job'[v] = job[v] /\ req'[v] = req[v] /\ res'[v] = res[v]
      /\ LockHeld(v) /\ RunHeld(v) /\ CursorHeld(v) /\ WorkerOK(v)
  BY DEF Confined, OnlyMine, TimelyInv, Holds, Inv
<1>2. CASE ~UnderLock(v)
  BY <1>1, <1>2 DEF UnderLock, Holds, LockHeld, RunHeld, CursorHeld, RunPCs, Paging
<1>3. CASE UnderLock(v)
  <2>1. t \in Targets /\ t # job[w].d.target
    BY <1>1, <1>3, LocksExclude DEF UnderLock, WorkerOK, Dispatch
  <2>2. cursor'[t] = cursor[t] /\ lock'[t] = lock[t]
    BY <2>1 DEF Confined
  <2>3. pc[v] \in RunPCs => r \in RunIds /\ runs'[r] = runs[r]
    <3> SUFFICES ASSUME pc[v] \in RunPCs PROVE r \in RunIds /\ runs'[r] = runs[r]
      OBVIOUS
    <3>1. r \in RunIds /\ runs[r].status # "absent" /\ runs[r].d.target = t /\ r # NULL
      BY <1>1 DEF WorkerOK, RunIds, NULL
    <3>2. job[w].run = r => runs[r].d.target = job[w].d.target
      BY <3>1 DEF TimelyInv, Holds, RunHeld, Inv, WorkerOK
    <3> QED BY <2>1, <3>1, <3>2 DEF Confined
  <2>4. LockHeld(v)'
    BY <1>1, <2>2 DEF LockHeld, UnderLock
  <2>5. RunHeld(v)'
    BY <1>1, <2>3 DEF RunHeld
  <2>6. CursorHeld(v)'
    BY <1>1, <2>2, <2>3 DEF CursorHeld, Paging, RunPCs
  <2> QED BY <2>4, <2>5, <2>6 DEF Holds
<1> QED BY <1>2, <1>3

\* The three ways an execution ends.
LEMMA ReturnHolds ==
    ASSUME Inv, TimelyInv, NEW w \in Workers, UnderLock(w), Return(w), UNCHANGED lock
    PROVE  Holds(w)'
<1>1. pc'[w] = "release" /\ job'[w].run = NULL /\ job'[w].d = job[w].d
  BY ReturnMine DEF Inv
<1> QED BY <1>1 DEF TimelyInv, Holds, LockHeld, RunHeld, CursorHeld, RunPCs, Paging

LEMMA FailHolds ==
    ASSUME Inv, TimelyInv, NEW w \in Workers, NEW b \in BOOLEAN, NEW c \in BOOLEAN, Fail(w, b, c),
           UNCHANGED <<job, req, lock>>, pc[w] \in RunPCs, runs'[job[w].run].status = runs[job[w].run].status
    PROVE  Holds(w)'
<1>1. pc'[w] = "finish_error"
  BY FailMine DEF Inv
<1>2. UnderLock(w)
  BY DEF UnderLock, RunPCs
<1> QED BY <1>1, <1>2 DEF TimelyInv, Holds, LockHeld, RunHeld, CursorHeld, RunPCs, Paging

LEMMA ForgetHolds ==
    ASSUME Inv, NEW w \in Workers, Forget(w)
    PROVE  Holds(w)'
<1>1. pc'[w] = "idle" /\ job'[w].run = NULL
  BY ForgetMine DEF Inv, NoJob
<1> QED BY <1>1 DEF Holds, LockHeld, RunHeld, CursorHeld, UnderLock, RunPCs, Paging

LEMMA StartedHolds ==
    ASSUME Inv, TimelyInv, NEW w \in Workers, UnderLock(w), NEW r \in RunIds, Started(w, r),
           UNCHANGED <<lock, cursor, res>>, runs'[r].status = "running"
    PROVE  Holds(w)'
<1>1. /\ job'[w].run = r /\ job'[w].d = job[w].d
      /\ pc'[w] = IF job[w].d.target \in PagedTargets THEN "resolve" ELSE "fetch"
      /\ req'[w].cur = cursor[job[w].d.target].value
  BY StartedMine DEF Inv
<1>2. LockHeld(w)'
  BY <1>1 DEF TimelyInv, Holds, LockHeld
<1>3. RunHeld(w)'
  BY <1>1 DEF RunHeld, RunPCs
<1>4. CursorHeld(w)'
  BY <1>1 DEF CursorHeld, Paging
<1> QED BY <1>2, <1>3, <1>4 DEF Holds

\* The steps of the page loop keep the request, the cursor row and the run together.
LEMMA ResolvedHolds ==
    ASSUME Inv, TimelyInv, NEW w \in Workers, ResolvedRunConfig(w)
    PROVE  Holds(w)'
<1> DEFINE r == job[w].run
           t == job[w].d.target
           c == Bound(w, r, t)
<1>1. /\ r \in RunIds /\ t \in PagedTargets /\ t \in Targets /\ pc[w] = "resolve"
      /\ runs[r] \in Run /\ cursor[t] \in CursorRow /\ cursor[t].cont \in Continuation
      /\ req[w] \in Request /\ runs[r].status = "running"
      /\ req[w].cur = cursor[t].value /\ lock[t].owner = w
  BY DEF ResolvedRunConfig, Inv, WorkerOK, RunPCs, Dispatch, TypeOK, CursorRow, TimelyInv, Holds,
     RunHeld, LockHeld, CursorHeld, UnderLock
<1>2. CASE Raise(w, FALSE) \/ Raise(w, TRUE)
  <2>1. CASE UNCHANGED <<runs, req>>
    BY <1>1, <1>2, <2>1, FailHolds DEF ResolvedRunConfig, Raise, RunPCs
  <2>2. CASE ~UNCHANGED <<runs, req>>
    BY <1>1, <1>2, <2>2 DEF ResolvedRunConfig, Raise, Fail, Goto, Inv, TypeOK
  <2> QED BY <2>1, <2>2
<1>3. CASE ~(Raise(w, FALSE) \/ Raise(w, TRUE))
  <2> DEFINE x == [runs[r] EXCEPT !.window = WindowOf(r, t), !.cfg = job[w].d.rev]
             y == [cursor[t] EXCEPT !.row = TRUE, !.cont = c]
             z == [req[w] EXCEPT !.page = c.page]
  <2>1. /\ runs' = [runs EXCEPT ![r] = x]
        /\ cursor' = [cursor EXCEPT ![t] = y]
        /\ req' = [req EXCEPT ![w] = z]
        /\ Goto(w, "load_page") /\ UNCHANGED <<job, lock>>
        /\ DecodeOk(w, r, t)
    BY <1>3 DEF ResolvedRunConfig
  <2>2. c.pending /\ c.window = WindowOf(r, t)
    <3>1. CASE cursor[t].cont.pending
      <4>1. c = [cursor[t].cont EXCEPT !.run = r] /\ cursor[t].cont.window = WindowOf(r, t)
        BY <2>1, <3>1 DEF Bound, DecodeOk
      <4> HIDE DEF c
      <4> QED BY <1>1, <3>1, <4>1 DEF Continuation
    <3>2. CASE ~cursor[t].cont.pending
      BY <3>2 DEF Bound
    <3> QED BY <3>1, <3>2
  <2> HIDE DEF c
  <2>3. x.status = "running" /\ x.window = WindowOf(r, t)
    BY <1>1 DEF Run
  <2>4. y.value = cursor[t].value /\ y.cont = c
    BY <1>1 DEF CursorRow
  <2>5. z.cur = req[w].cur /\ z.page = c.page
    BY <1>1 DEF Request
  <2> HIDE DEF x, y, z
  <2>6. runs'[r] = x /\ cursor'[t] = y /\ req'[w] = z /\ pc'[w] = "load_page" /\ job'[w] = job[w]
    BY <1>1, <2>1 DEF Goto, Inv, TypeOK
  <2>7. LockHeld(w)' /\ RunHeld(w)'
    BY <1>1, <2>1, <2>3, <2>6 DEF LockHeld, RunHeld, RunPCs
  <2>8. CursorHeld(w)'
    BY <1>1, <2>2, <2>3, <2>4, <2>5, <2>6 DEF CursorHeld, Paging
  <2> QED BY <2>7, <2>8 DEF Holds
<1> QED BY <1>2, <1>3

LEMMA PersistHolds ==
    ASSUME Inv, TimelyInv, NEW w \in Workers, PersistResult(w)
    PROVE  Holds(w)'
<1> DEFINE r == job[w].run
           t == job[w].d.target
<1>1. /\ r \in RunIds /\ t \in Targets /\ pc[w] = "persist"
      /\ runs[r] \in Run /\ req[w] \in Request /\ lock[t].owner = w /\ UnderLock(w)
  BY DEF PersistResult, Inv, WorkerOK, RunPCs, Dispatch, TypeOK, TimelyInv, Holds, LockHeld, UnderLock
<1>2. CASE Final(w)
  BY <1>1, <1>2, ReturnHolds DEF PersistResult
<1>3. CASE ~Final(w)
  <2> DEFINE x == [runs[r] EXCEPT !.status = PersistStatus(w),
                                  !.pages = IF t \in PagedTargets THEN @ + 1 ELSE @]
             y == NextCursor(w)
             z == [req[w] EXCEPT !.cur = res[w].next, !.page = @ + 1, !.index = @ + 1]
  <2>1. /\ runs' = [runs EXCEPT ![r] = x]
        /\ cursor' = [cursor EXCEPT ![t] = y]
        /\ req' = [req EXCEPT ![w] = z]
        /\ Goto(w, "load_page") /\ UNCHANGED <<job, lock>>
    BY <1>3 DEF PersistResult, Persisted
  <2>2. t \in PagedTargets /\ res[w].more
    BY <1>3 DEF Final
  <2>3. /\ y.value = res[w].next /\ y.cont.pending /\ y.cont.window = runs[r].window
        /\ y.cont.page = req[w].page + 1
    BY <2>2 DEF NextCursor, WritesCursor, WritesValue, NextContinuation
  <2>4. x.status = "running" /\ x.window = runs[r].window
    BY <1>1, <1>3 DEF Run, PersistStatus
  <2>5. z.cur = res[w].next /\ z.page = req[w].page + 1
    BY <1>1 DEF Request
  <2> HIDE DEF x, y, z
  <2>6. runs'[r] = x /\ cursor'[t] = y /\ req'[w] = z /\ pc'[w] = "load_page" /\ job'[w] = job[w]
    BY <1>1, <2>1 DEF Goto, Inv, TypeOK
  <2>7. LockHeld(w)' /\ RunHeld(w)'
    BY <1>1, <2>1, <2>4, <2>6 DEF LockHeld, RunHeld, RunPCs
  <2>8. CursorHeld(w)'
    BY <2>3, <2>4, <2>5, <2>6 DEF CursorHeld, Paging
  <2> QED BY <2>7, <2>8 DEF Holds
<1> QED BY <1>2, <1>3

LEMMA BudgetHolds ==
    ASSUME Inv, TimelyInv, NEW w \in Workers, Budget(w)
    PROVE  Holds(w)'
<1> DEFINE r == job[w].run
           t == job[w].d.target
           x == [runs[r] EXCEPT !.requests = @ + 1]
<1>1. /\ r \in RunIds /\ pc[w] = "budget" /\ UnderLock(w)
      /\ runs[r] \in Run
  BY DEF Budget, Inv, WorkerOK, RunPCs, TypeOK, UnderLock
<1>2. CASE BudgetSpent(r)
  BY <1>1, <1>2, ReturnHolds DEF Budget
<1>3. CASE ~BudgetSpent(r)
  <2>1. runs' = [runs EXCEPT ![r] = x] /\ UNCHANGED <<job, req, lock, cursor>>
    BY <1>3 DEF Budget
  <2>2. x.status = runs[r].status /\ x.window = runs[r].window
    BY <1>1 DEF Run
  <2> HIDE DEF x
  <2>3. runs'[r] = x
    BY <1>1, <2>1 DEF Inv, TypeOK
  <2>4. CASE Fail(w, FALSE, TRUE)
    BY <1>1, <2>1, <2>2, <2>3, <2>4, FailHolds DEF RunPCs
  <2>5. CASE Goto(w, "fetch")
    <3>1. pc'[w] = "fetch"
      BY <2>5 DEF Goto, Inv, TypeOK
    <3> QED BY <1>1, <2>1, <2>2, <2>3, <3>1
            DEF TimelyInv, Holds, LockHeld, RunHeld, CursorHeld, RunPCs, Paging
  <2> QED BY <1>3, <2>4, <2>5 DEF Budget
<1> QED BY <1>2, <1>3

\* The other steps of a worker under the lock.
LEMMA StepHolds ==
    ASSUME Inv, TimelyInv, NEW w \in Workers, WorkerStep(w), UnderLock(w)
    PROVE  Holds(w)'
<1> DEFINE t == job[w].d.target
<1>1. LockHeld(w) /\ RunHeld(w) /\ CursorHeld(w) /\ WorkerOK(w) /\ TypeOK /\ t \in Targets
  BY DEF TimelyInv, Holds, Inv, UnderLock, WorkerOK, Dispatch
<1>2. ASSUME RenewLock(w) PROVE Holds(w)'
  <2>1. UNCHANGED <<runs, cursor, pc, job, req, res>>
    BY <1>2 DEF RenewLock
  <2>2. lock'[t].owner = lock[t].owner
    <3>1. lock' = [lock EXCEPT ![t] = [lock[t] EXCEPT !.until = now + LockTtl]]
      BY <1>2 DEF RenewLock
    <3> QED BY <1>1, <3>1 DEF TypeOK, Lock
  <2> QED BY <1>1, <2>1, <2>2 DEF Holds, LockHeld, RunHeld, CursorHeld, UnderLock
<1>3. ASSUME Prepare(w) PROVE Holds(w)'
  <2>1. CASE Return(w)
    BY <1>3, <2>1, ReturnHolds DEF Prepare
  <2>2. CASE Goto(w, "start") /\ UNCHANGED <<job, req, res>>
    <3>1. pc'[w] = "start" /\ pc[w] = "prepare"
      BY <1>1, <1>3, <2>2 DEF Prepare, Goto, TypeOK
    <3> QED BY <1>1, <1>3, <2>2, <3>1
            DEF Prepare, Holds, LockHeld, RunHeld, CursorHeld, UnderLock, RunPCs, Paging
  <2> QED BY <1>3, <2>1, <2>2 DEF Prepare
<1>4. ASSUME StartRunStale(w) PROVE Holds(w)'
  BY <1>4, ReturnHolds DEF StartRunStale
<1>5. ASSUME StartRunAdopt(w) PROVE Holds(w)'
  BY <1>5, StartedHolds DEF StartRunAdopt, RunningRuns
<1>6. ASSUME StartRunCreate(w) PROVE Holds(w)'
  <2>1. PICK r \in RunIds :
           /\ runs' = [runs EXCEPT ![r] = [NoRun EXCEPT !.d = job[w].d, !.status = "running",
                                                        !.started = now]]
           /\ Started(w, r)
    BY <1>6 DEF StartRunCreate
  <2>2. runs'[r].status = "running"
    BY <1>1, <2>1 DEF TypeOK, NoRun
  <2> QED BY <1>6, <2>1, <2>2, StartedHolds DEF StartRunCreate
<1>7. ASSUME LoadPage(w) PROVE Holds(w)'
  <2>1. CASE Raise(w, FALSE) /\ UNCHANGED req
    BY <1>7, <2>1, FailHolds DEF LoadPage, Raise, RunPCs
  <2>2. CASE LoadOk(t, job[w].d.rev)
    <3>1. pc'[w] = "budget" /\ pc[w] = "load_page" /\ UNCHANGED <<runs, cursor, lock, job, res>>
      BY <1>1, <1>7, <2>2 DEF LoadPage, Goto, TypeOK
    <3>2. req'[w].cur = req[w].cur /\ req'[w].page = req[w].page
      BY <1>1, <1>7, <2>2 DEF LoadPage, TypeOK, Request
    <3> QED BY <1>1, <3>1, <3>2 DEF Holds, LockHeld, RunHeld, CursorHeld, UnderLock, RunPCs, Paging
  <2> QED BY <1>7, <2>1, <2>2 DEF LoadPage
<1>8. ASSUME FetchResult(w) PROVE Holds(w)'
  <2>1. /\ pc'[w] = "check_lock" /\ pc[w] = "fetch" /\ UNCHANGED <<runs, cursor, lock, job, req>>
        /\ t \in PagedTargets => res'[w].next >= req[w].cur
    BY <1>1, <1>8 DEF FetchResult, Results, Goto, TypeOK
  <2> QED BY <1>1, <2>1 DEF Holds, LockHeld, RunHeld, CursorHeld, UnderLock, RunPCs, Paging
<1>9. ASSUME FetchFails(w) \/ AnswerInvalid(w) \/ PersistRefused(w) PROVE Holds(w)'
  BY <1>9, FailHolds DEF FetchFails, AnswerInvalid, PersistRefused, Raise, RunPCs
<1>10. ASSUME FetchLockLost(w) \/ CheckLockLost(w) PROVE Holds(w)'
  BY <1>1, <1>10 DEF FetchLockLost, CheckLockLost, LockHeld, UnderLock, Owns
<1>11. ASSUME CheckLockOwned(w) PROVE Holds(w)'
  <2>1. UNCHANGED <<runs, cursor, lock, job, req>> /\ pc[w] = "check_lock"
    BY <1>11 DEF CheckLockOwned
  <2>2. ASSUME NEW c \in BOOLEAN, Fail(w, FALSE, c) PROVE Holds(w)'
    BY <2>1, <2>2, FailHolds DEF RunPCs
  <2>3. CASE Goto(w, "persist") /\ UNCHANGED res
    <3>1. pc'[w] = "persist"
      BY <1>1, <2>3 DEF Goto, TypeOK
    <3> QED BY <1>1, <2>1, <2>3, <3>1
            DEF Holds, LockHeld, RunHeld, CursorHeld, UnderLock, RunPCs, Paging
  <2> QED BY <1>11, <2>2, <2>3 DEF CheckLockOwned
<1>12. ASSUME FinishError(w) \/ FinishLockLost(w) PROVE Holds(w)'
  BY <1>12, ReturnHolds DEF FinishError, FinishLockLost
<1>13. ASSUME DatabaseFails(w) PROVE Holds(w)'
  BY <1>13, ReturnHolds, FailHolds DEF DatabaseFails, CaughtWithRun, Raise, RunPCs
<1>14. ASSUME Release(w) \/ WorkerCrash(w) PROVE Holds(w)'
  BY <1>14, ForgetHolds DEF Release, WorkerCrash
<1>15. ~AcquireLock(w) /\ \A d \in queue : ~TakeTask(w, d)
  BY DEF UnderLock, AcquireLock, TakeTask
<1> QED BY <1>2, <1>3, <1>4, <1>5, <1>6, <1>7, <1>8, <1>9, <1>10, <1>11, <1>12, <1>13, <1>14, <1>15,
           ResolvedHolds, PersistHolds, BudgetHolds DEF WorkerStep

-----------------------------------------------------------------------------
(* Every step keeps the locks.                                             *)

\* A lock with a live owner is held.
LEMMA LiveIsHeld ==
    ASSUME Inv, TimelyInv, NEW w \in Workers, UnderLock(w)
    PROVE  /\ job[w].d.target \in Targets
           /\ lock[job[w].d.target].owner = w /\ w # NoWorker
           /\ Held(job[w].d.target)
<1> DEFINE t == job[w].d.target
<1>1. t \in Targets
  BY DEF Inv, UnderLock, WorkerOK, Dispatch
<1>2. lock[t].owner = w /\ w # NoWorker
  BY TargetsAssumption DEF TimelyInv, Holds, LockHeld
<1>3. lock[t].until > now /\ now \in Nat /\ lock[t].until \in Nat
  BY <1>1, <1>2 DEF TimelyInv, LocksLive, Inv, TypeOK, Lock
<1>4. Held(t)
  BY <1>3 DEF Held, NULL
<1> QED BY <1>1, <1>2, <1>4

\* What a worker relies on is not written.
LEMMA HoldsKept ==
    ASSUME Inv, TimelyInv, NEW v \in Workers,
           pc'[v] = pc[v], job'[v] = job[v], req'[v] = req[v], res'[v] = res[v],
           UnderLock(v) =>
             /\ lock'[job[v].d.target] = lock[job[v].d.target]
             /\ pc[v] \in RunPCs =>
                  cursor'[job[v].d.target] = cursor[job[v].d.target] /\ runs'[job[v].run] = runs[job[v].run]
    PROVE  Holds(v)'
<1>1. LockHeld(v) /\ RunHeld(v) /\ CursorHeld(v)
  BY DEF TimelyInv, Holds
<1>2. CASE ~UnderLock(v)
  BY <1>1, <1>2 DEF UnderLock, Holds, LockHeld, RunHeld, CursorHeld, RunPCs, Paging
<1>3. CASE UnderLock(v)
  BY <1>1, <1>3 DEF UnderLock, Holds, LockHeld, RunHeld, CursorHeld, RunPCs, Paging
<1> QED BY <1>2, <1>3

\* A task is taken and its lock acquired.
LEMMA LockingHolds ==
    ASSUME Inv, TimelyInv, NEW w \in Workers, WorkerStep(w), ~UnderLock(w)
    PROVE  TimelyInv'
<1>1. AcquireLock(w) \/ (\E d \in queue : TakeTask(w, d)) \/ WorkerCrash(w)
  <2>1. pc[w] \in {"idle", "lock"}
    BY DEF UnderLock
  <2>2. /\ ~RenewLock(w) /\ ~Prepare(w) /\ ~StartRunStale(w) /\ ~StartRunAdopt(w) /\ ~StartRunCreate(w)
        /\ ~ResolvedRunConfig(w) /\ ~LoadPage(w) /\ ~Budget(w) /\ ~FetchResult(w) /\ ~FetchFails(w)
    BY <2>1 DEF RenewLock, Prepare, StartRunStale, StartRunAdopt, StartRunCreate, ResolvedRunConfig,
       LoadPage, Budget, FetchResult, FetchFails
  <2>3. /\ ~FetchLockLost(w) /\ ~CheckLockLost(w) /\ ~CheckLockOwned(w) /\ ~AnswerInvalid(w)
        /\ ~PersistResult(w) /\ ~PersistRefused(w) /\ ~FinishError(w) /\ ~FinishLockLost(w)
        /\ ~DatabaseFails(w) /\ ~Release(w)
    BY <2>1 DEF FetchLockLost, CheckLockLost, CheckLockOwned, AnswerInvalid, PersistResult,
       PersistRefused, FinishError, FinishLockLost, DatabaseFails, Release
  <2> QED BY <2>2, <2>3 DEF WorkerStep
<1>2. OnlyMine(w) /\ TypeOK /\ UNCHANGED <<now, runs, cursor>>
  BY <1>1, OthersApart DEF Inv, AcquireLock, TakeTask, WorkerCrash
<1>3. job[w].run = NULL
  BY DEF UnderLock, TimelyInv, Holds, RunHeld, RunPCs
<1>4. UnpagedBare'
  BY <1>2 DEF TimelyInv, UnpagedBare
<1>5. ASSUME UNCHANGED lock, Holds(w)' PROVE TimelyInv'
  <2>1. \A v \in Workers \ {w} : Holds(v)'
    BY <1>2, <1>5, HoldsKept DEF OnlyMine
  <2>2. LocksLive'
    BY <1>2, <1>5 DEF TimelyInv, LocksLive
  <2> QED BY <1>4, <1>5, <2>1, <2>2 DEF TimelyInv
<1>6. CASE \E d \in queue : TakeTask(w, d)
  <2>1. UNCHANGED lock
    BY <1>6 DEF TakeTask
  <2>2. Holds(w)'
    <3>1. pc'[w] \in {"idle", "lock"} /\ job'[w].run = NULL
      BY <1>2, <1>3, <1>6 DEF TakeTask, Goto, TypeOK
    <3> QED BY <3>1 DEF Holds, LockHeld, RunHeld, CursorHeld, UnderLock, RunPCs, Paging
  <2> QED BY <1>5, <2>1, <2>2
<1>7. CASE AcquireLock(w)
  <2> DEFINE t == job[w].d.target
  <2>1. CASE Held(t)
    BY <1>5, <1>7, <2>1, ForgetHolds DEF AcquireLock
  <2>2. CASE ~Held(t)
    <3>1. /\ lock' = [lock EXCEPT ![t] = [owner |-> w, until |-> now + LockTtl]]
          /\ Goto(w, "prepare") /\ UNCHANGED <<job, req, res>> /\ t \in Targets
      BY <1>7, <2>2 DEF AcquireLock, Inv, WorkerOK, Dispatch
    <3>2. \A v \in Workers \ {w} : Holds(v)'
      BY <1>2, <2>2, <3>1, LiveIsHeld, HoldsKept DEF OnlyMine, TypeOK
    <3>3. lock'[t].owner = w /\ lock'[t].until = now + LockTtl /\ pc'[w] = "prepare"
      BY <1>2, <3>1 DEF TypeOK, Goto
    <3>4. Holds(w)'
      BY <1>3, <3>1, <3>3 DEF Holds, LockHeld, RunHeld, CursorHeld, RunPCs, Paging
    <3>5. LocksLive'
      <4> SUFFICES ASSUME NEW u \in Targets, lock'[u].owner # NoWorker PROVE lock'[u].until > now
        BY <1>2 DEF LocksLive
      <4>1. CASE u = t
        BY <1>2, <3>3, <4>1, BoundsAssumption DEF TypeOK
      <4>2. CASE u # t
        BY <1>2, <3>1, <4>2 DEF TypeOK, TimelyInv, LocksLive
      <4> QED BY <4>1, <4>2
    <3> QED BY <1>4, <3>2, <3>4, <3>5 DEF TimelyInv
  <2> QED BY <2>1, <2>2
\* A worker that crashes before it has the lock owns none.
<1>8. CASE WorkerCrash(w)
  <2> DEFINE t == job[w].d.target
  <2>1. Holds(w)'
    BY <1>8, ForgetHolds DEF WorkerCrash
  <2>2. CASE ~Owns(w)
    BY <1>5, <1>8, <2>1, <2>2 DEF WorkerCrash
  <2>3. CASE Owns(w)
    <3>1. /\ lock' = [lock EXCEPT ![t] = [lock[t] EXCEPT !.owner = NoWorker]]
          /\ t \in Targets
      BY <1>8, <2>3 DEF WorkerCrash, Inv, WorkerOK, Dispatch
    <3>2. \A v \in Workers \ {w} : UnderLock(v) => job[v].d.target # t
      BY <2>3, LiveIsHeld DEF Owns
    <3>3. \A v \in Workers \ {w} : Holds(v)'
      BY <1>2, <3>1, <3>2, LiveIsHeld, HoldsKept DEF OnlyMine, TypeOK
    <3>4. lock'[t].owner = NoWorker
      BY <1>2, <3>1 DEF TypeOK, Lock
    <3>5. LocksLive'
      <4> SUFFICES ASSUME NEW u \in Targets, lock'[u].owner # NoWorker PROVE lock'[u].until > now
        BY <1>2 DEF LocksLive
      <4>1. u # t
        BY <3>4
      <4> QED BY <1>2, <3>1, <4>1 DEF TypeOK, TimelyInv, LocksLive
    <3> QED BY <1>4, <2>1, <3>3, <3>5 DEF TimelyInv
  <2> QED BY <2>2, <2>3
<1> QED BY <1>1, <1>6, <1>7, <1>8

\* The steps under a lock.
LEMMA UnderLockHolds ==
    ASSUME Inv, TimelyInv, NEW w \in Workers, WorkerStep(w), UnderLock(w)
    PROVE  TimelyInv'
<1> DEFINE t == job[w].d.target
<1>1. Confined(w) /\ Holds(w)' /\ TypeOK /\ t \in Targets /\ UNCHANGED now
  BY StepsAreConfined, StepHolds, LiveIsHeld DEF Inv, Confined
<1>2. \A v \in Workers : Holds(v)'
  BY <1>1, OthersHold
<1>3. LocksLive'
  <2> SUFFICES ASSUME NEW u \in Targets, lock'[u].owner # NoWorker PROVE lock'[u].until > now
    BY <1>1 DEF LocksLive
  <2>1. CASE lock'[u] = lock[u]
    BY <2>1 DEF TimelyInv, LocksLive
  <2>2. CASE lock'[u] # lock[u]
    <3>1. u = t
      BY <1>1, <2>2 DEF Confined
    <3>2. RenewLock(w) \/ Release(w) \/ WorkerCrash(w)
      BY <1>1, <2>2 DEF UnderLock, WorkerStep, TakeTask, AcquireLock, Prepare, StartRunStale,
         StartRunAdopt, StartRunCreate, ResolvedRunConfig, LoadPage, Budget, FetchResult, FetchFails,
         FetchLockLost, CheckLockLost, CheckLockOwned, AnswerInvalid, PersistResult, PersistRefused,
         FinishError, FinishLockLost, DatabaseFails
    <3>3. CASE RenewLock(w)
      <4>1. lock' = [lock EXCEPT ![t] = [lock[t] EXCEPT !.until = now + LockTtl]]
        BY <3>3 DEF RenewLock
      <4>2. lock'[u].until = now + LockTtl
        BY <1>1, <3>1, <4>1 DEF TypeOK, Lock
      <4> QED BY <1>1, <4>2, BoundsAssumption DEF TypeOK
    <3>4. CASE Release(w) \/ WorkerCrash(w)
      BY <1>1, <2>2, <3>1, <3>4 DEF Release, WorkerCrash, TypeOK, Lock, FreeLock
    <3> QED BY <3>2, <3>3, <3>4
  <2> QED BY <2>1, <2>2
<1>4. UnpagedBare'
  <2>1. CASE ResolvedRunConfig(w)
    <3>1. t \in PagedTargets
      BY <2>1 DEF ResolvedRunConfig, Inv, WorkerOK
    <3> QED BY <1>1, <3>1 DEF Confined, TimelyInv, UnpagedBare
  <2>2. CASE PersistResult(w)
    <3> SUFFICES ASSUME t \notin PagedTargets
                 PROVE  cursor'[t].cont.window = NULL /\ cursor'[t].cont.page = 0
      BY <1>1 DEF Confined, TimelyInv, UnpagedBare
    <3>1. cursor'[t] = NextCursor(w)
      BY <1>1, <2>2 DEF PersistResult, Persisted, TypeOK
    <3>2. CASE ~WritesCursor(w)
      BY <1>1, <3>1, <3>2 DEF NextCursor, TimelyInv, UnpagedBare
    <3>3. CASE WritesCursor(w)
      <4>1. cursor'[t].cont = NextContinuation(w)
        BY <3>1, <3>3 DEF NextCursor
      <4> QED BY <4>1 DEF NextContinuation, NoContinuation
    <3> QED BY <3>2, <3>3
  <2>3. CASE UNCHANGED cursor
    BY <2>3 DEF TimelyInv, UnpagedBare
  <2> QED
    BY <2>1, <2>2, <2>3
       DEF WorkerStep, TakeTask, AcquireLock, RenewLock, Prepare, StartRunStale, StartRunAdopt,
       StartRunCreate, LoadPage, Budget, FetchResult, FetchFails, FetchLockLost, CheckLockLost,
       CheckLockOwned, AnswerInvalid, PersistRefused, FinishError, FinishLockLost, DatabaseFails,
       Release, WorkerCrash
<1> QED BY <1>2, <1>3, <1>4 DEF TimelyInv

\* A run is not recovered, nor a continuation abandoned, while a worker is at it.
LEMMA RunIsGuarded ==
    ASSUME Inv, TimelyInv, NEW v \in Workers, pc[v] \in RunPCs
    PROVE  /\ job[v].run \in RunningRuns(job[v].d.target)
           /\ \A r \in RunIds : RecoverStale(r) => r # job[v].run
<1>1. UnderLock(v)
  BY DEF UnderLock, RunPCs
<1>2. job[v].run \in RunIds /\ runs[job[v].run].d.target = job[v].d.target /\ runs[job[v].run].status = "running"
  BY DEF Inv, WorkerOK, TimelyInv, Holds, RunHeld
<1> QED BY <1>1, <1>2, LiveIsHeld DEF RecoverStale, RunningRuns

LEMMA TimelyInit == Init => TimelyInv
  BY DEF Init, TimelyInv, LocksLive, FreeLock, UnpagedBare, NoContinuation, Holds, LockHeld, RunHeld,
     CursorHeld, UnderLock, RunPCs, Paging, NoJob, NULL

LEMMA TimelyNext ==
    ASSUME ~Stalls PROVE Inv /\ TimelyInv /\ [Next]_vars => TimelyInv'
<1> SUFFICES ASSUME Inv, TimelyInv, [Next]_vars PROVE TimelyInv'
  OBVIOUS
<1>1. ASSUME UNCHANGED <<now, cursor, lock, pc, job, req, res>>,
             \A v \in Workers : pc[v] \in RunPCs => runs'[job[v].run] = runs[job[v].run]
      PROVE  TimelyInv'
  <2>1. \A v \in Workers : Holds(v)'
    BY <1>1, HoldsKept
  <2> QED BY <1>1, <2>1 DEF TimelyInv, LocksLive, UnpagedBare
<1>2. CASE SchedulerStep \/ UNCHANGED vars
  BY <1>1, <1>2 DEF SchedulerStep, DuePage, ClaimDue, Enqueue, EnqueueFails, SchedulerCrash, vars
<1>3. ASSUME NEW r \in RunIds, RecoverStale(r) PROVE TimelyInv'
  <2>1. \A q \in RunIds : q # r => runs'[q] = runs[q]
    BY <1>3 DEF RecoverStale, RunFailed, Inv, TypeOK
  <2>2. \A v \in Workers : pc[v] \in RunPCs => runs'[job[v].run] = runs[job[v].run]
    BY <1>3, <2>1, RunIsGuarded DEF RunningRuns
  <2> QED BY <1>1, <1>3, <2>2 DEF RecoverStale
<1>4. ASSUME NEW t \in Targets, AbandonPendingContinuations(t) PROVE TimelyInv'
  <2>1. /\ UNCHANGED <<now, runs, lock, pc, job, req, res>> /\ RunningRuns(t) = {}
        /\ cursor' = [cursor EXCEPT ![t] = [cursor[t] EXCEPT !.cont = NoContinuation]]
    BY <1>4 DEF AbandonPendingContinuations
  <2>2. \A v \in Workers : Holds(v)'
    <3> SUFFICES ASSUME NEW v \in Workers, pc[v] \in RunPCs
                 PROVE  cursor'[job[v].d.target] = cursor[job[v].d.target]
      BY <2>1, HoldsKept
    <3>1. job[v].d.target # t
      BY <2>1, RunIsGuarded
    <3>2. job[v].d.target \in Targets
      BY DEF Inv, WorkerOK, Dispatch, RunPCs
    <3> QED BY <2>1, <3>1, <3>2 DEF Inv, TypeOK
  <2>3. cursor'[t].cont = NoContinuation /\ \A u \in Targets \ {t} : cursor'[u] = cursor[u]
    BY <2>1 DEF Inv, TypeOK, CursorRow
  <2>4. UnpagedBare'
    BY <2>3 DEF TimelyInv, UnpagedBare, NoContinuation
  <2> QED BY <2>1, <2>2, <2>4 DEF TimelyInv, LocksLive
<1>5. CASE OperatorStep
  BY <1>1, <1>4, <1>5 DEF OperatorStep, Revise, PauseForContinuationAbandon
\* The holder has renewed its lock: the clock waits for it.
<1>6. CASE Tick
  <2>1. Timely /\ now' = now + 1 /\ now \in Nat /\ UNCHANGED <<runs, cursor, pc, job, req, res>>
        /\ lock' = [t \in Targets |-> Expired(t)]
    BY <1>6 DEF Tick, Inv, TypeOK
  <2>2. \A t \in Targets : lock[t].owner # NoWorker => lock'[t] = lock[t] /\ lock[t].until > now + 1
    <3> SUFFICES ASSUME NEW t \in Targets, lock[t].owner # NoWorker
                 PROVE  lock'[t] = lock[t] /\ lock[t].until > now + 1
      OBVIOUS
    <3>1. lock[t].until > now + 1 /\ lock[t].until \in Nat
      BY <2>1 DEF Timely, Inv, TypeOK, Lock
    <3> QED BY <2>1, <3>1 DEF Expired
  <2>3. \A t \in Targets : lock'[t].owner # NoWorker => lock[t].owner # NoWorker
    BY <2>1 DEF Expired, FreeLock
  <2>4. \A v \in Workers : Holds(v)'
    BY <2>1, <2>2, LiveIsHeld, HoldsKept
  <2> QED BY <2>1, <2>2, <2>3, <2>4 DEF TimelyInv, LocksLive, UnpagedBare
<1> QED BY <1>2, <1>3, <1>5, <1>6, LockingHolds, UnderLockHolds DEF Next, Horizon

LEMMA TimelyInvariance ==
    ASSUME ~Stalls PROVE Spec => [](Inv /\ TimelyInv)
<1>1. Init => Inv /\ TimelyInv
  BY InvInit, TimelyInit
<1>2. Inv /\ TimelyInv /\ [Next]_vars => (Inv /\ TimelyInv)'
  BY InvNext, TimelyNext
<1> QED BY <1>1, <1>2, PTL DEF Spec

-----------------------------------------------------------------------------
(* What the lock gives, while its holder renews it in time.                *)

\* OneWorkerPerRun: the target lock, taken before _start_run and renewed until the end,
\* keeps any two executions off the same run, adopted or created.
THEOREM RunsAreExclusive ==
    ASSUME ~Stalls PROVE Spec => []OneWorkerPerRun
<1>1. Inv /\ TimelyInv => OneWorkerPerRun
  <2> SUFFICES ASSUME Inv, TimelyInv, NEW v \in Workers, NEW w \in Workers,
                      job[v].run = job[w].run, job[v].run # NULL
               PROVE  v = w
    BY DEF OneWorkerPerRun
  <2>1. pc[v] \in RunPCs /\ pc[w] \in RunPCs
    BY DEF TimelyInv, Holds, RunHeld
  <2>2. job[v].d.target = job[w].d.target
    BY <2>1 DEF Inv, WorkerOK
  <2> QED BY <2>1, <2>2, LocksExclude DEF UnderLock, RunPCs
<1> QED BY <1>1, TimelyInvariance, PTL

LEMMA EndedStay ==
    ASSUME Inv, TimelyInv, [Next]_vars
    PROVE  \A r \in RunIds : runs[r].status \in Terminal => runs'[r].status = runs[r].status
<1> SUFFICES ASSUME NEW r \in RunIds, runs[r].status \in Terminal, runs'[r] # runs[r]
             PROVE  FALSE
  OBVIOUS
<1>1. runs[r].status # "absent" /\ runs[r].status # "running" /\ r # NULL
  BY DEF Terminal, RunIds, NULL
<1>2. CASE Tick \/ SchedulerStep \/ OperatorStep \/ UNCHANGED vars
  BY <1>2 DEF Tick, SchedulerStep, DuePage, ClaimDue, Enqueue, EnqueueFails, SchedulerCrash,
     OperatorStep, Revise, PauseForContinuationAbandon, AbandonPendingContinuations, vars
<1>3. ASSUME NEW q \in RunIds, RecoverStale(q) PROVE FALSE
  BY <1>1, <1>3 DEF RecoverStale, RunFailed, Inv, TypeOK
<1>4. ASSUME NEW w \in Workers, WorkerStep(w) PROVE FALSE
  <2>1. CASE UnderLock(w)
    <3>1. job[w].run = r
      BY <1>1, <1>4, <2>1, StepsAreConfined DEF Confined
    <3> QED BY <1>1, <3>1 DEF TimelyInv, Holds, RunHeld
  <2>2. CASE ~UnderLock(w)
    <3>1. pc[w] \in {"idle", "lock"}
      BY <2>2 DEF UnderLock
    <3>2. /\ ~StartRunCreate(w) /\ ~ResolvedRunConfig(w) /\ ~Budget(w)
          /\ ~PersistResult(w) /\ ~FinishError(w) /\ ~FinishLockLost(w)
      BY <3>1 DEF StartRunCreate, ResolvedRunConfig, Budget, PersistResult, FinishError, FinishLockLost
    <3>3. UNCHANGED runs
      BY <1>4, <3>2 DEF WorkerStep, TakeTask, AcquireLock, RenewLock, Prepare, StartRunStale,
         StartRunAdopt, LoadPage, FetchResult, FetchFails, FetchLockLost, CheckLockLost,
         CheckLockOwned, AnswerInvalid, PersistRefused, DatabaseFails, Release, WorkerCrash
    <3> QED BY <3>3
  <2> QED BY <2>1, <2>2
<1> QED BY <1>2, <1>3, <1>4 DEF Next, Horizon

\* TerminalRunsStayTerminal: neither a retry, nor _finish_lock_lost, nor the recovery,
\* which leaves a run alone whose target lock is held, writes over the end of a run.
THEOREM EndedRunsStayEnded ==
    ASSUME ~Stalls PROVE Spec => TerminalRunsStayTerminal
  BY EndedStay, TimelyInvariance, PTL DEF Spec, TerminalRunsStayTerminal

\* Who writes the cursor rows.
LEMMA CursorWriters ==
    ASSUME Inv, [Next]_vars, NEW t \in Targets
    PROVE  \/ cursor'[t] = cursor[t]
           \/ AbandonPendingContinuations(t)
           \/ \E w \in Workers : /\ job[w].d.target = t
                                 /\ ResolvedRunConfig(w) \/ PersistResult(w)
<1> SUFFICES ASSUME cursor'[t] # cursor[t]
             PROVE  \/ AbandonPendingContinuations(t)
                    \/ \E w \in Workers : /\ job[w].d.target = t
                                          /\ ResolvedRunConfig(w) \/ PersistResult(w)
  OBVIOUS
<1>1. CASE Tick \/ SchedulerStep \/ UNCHANGED vars \/ \E r \in RunIds : RecoverStale(r)
  BY <1>1 DEF Tick, SchedulerStep, DuePage, ClaimDue, Enqueue, EnqueueFails, SchedulerCrash,
     RecoverStale, vars
<1>2. CASE OperatorStep
  BY <1>2 DEF OperatorStep, Revise, PauseForContinuationAbandon, AbandonPendingContinuations, Inv, TypeOK
<1>3. ASSUME NEW w \in Workers, WorkerStep(w)
      PROVE  job[w].d.target = t /\ (ResolvedRunConfig(w) \/ PersistResult(w))
  <2>1. ResolvedRunConfig(w) \/ PersistResult(w)
    BY <1>3 DEF WorkerStep, TakeTask, AcquireLock, RenewLock, Prepare, StartRunStale, StartRunAdopt,
       StartRunCreate, LoadPage, Budget, FetchResult, FetchFails, FetchLockLost, CheckLockLost,
       CheckLockOwned, AnswerInvalid, PersistRefused, FinishError, FinishLockLost, DatabaseFails,
       Release, WorkerCrash
  <2>2. UnderLock(w)
    BY <2>1 DEF ResolvedRunConfig, PersistResult, UnderLock
  <2>3. job[w].d.target = t
    BY <1>3, <2>2, StepsAreConfined DEF Confined
  <2> QED BY <2>1, <2>3
<1> QED BY <1>1, <1>2, <1>3 DEF Next, Horizon

LEMMA CursorsAdvance ==
    ASSUME Inv, TimelyInv, [Next]_vars
    PROVE  \A t \in Targets : cursor'[t].value >= cursor[t].value
<1> SUFFICES ASSUME NEW t \in Targets PROVE cursor'[t].value >= cursor[t].value
  OBVIOUS
<1>1. cursor[t] \in CursorRow /\ cursor[t].value \in Nat
  BY DEF Inv, TypeOK, CursorRow
<1>2. CASE cursor'[t] = cursor[t]
  BY <1>1, <1>2
<1>3. CASE AbandonPendingContinuations(t)
  <2>1. cursor' = [cursor EXCEPT ![t] = [cursor[t] EXCEPT !.cont = NoContinuation]]
    BY <1>3 DEF AbandonPendingContinuations
  <2>2. cursor'[t].value = cursor[t].value
    BY <1>1, <2>1 DEF Inv, TypeOK, CursorRow
  <2> QED BY <1>1, <2>2
<1>4. ASSUME NEW w \in Workers, job[w].d.target = t, ResolvedRunConfig(w)
      PROVE  cursor'[t].value >= cursor[t].value
  <2> DEFINE c == Bound(w, job[w].run, t)
  <2>1. UNCHANGED cursor \/ cursor' = [cursor EXCEPT ![t] = [cursor[t] EXCEPT !.row = TRUE, !.cont = c]]
    BY <1>4 DEF ResolvedRunConfig
  <2> HIDE DEF c
  <2>2. cursor'[t].value = cursor[t].value
    BY <1>1, <2>1 DEF Inv, TypeOK, CursorRow
  <2> QED BY <1>1, <2>2
<1>5. ASSUME NEW w \in Workers, job[w].d.target = t, PersistResult(w)
      PROVE  cursor'[t].value >= cursor[t].value
  <2>1. cursor'[t] = NextCursor(w) /\ ~CursorRefused(w) /\ pc[w] = "persist"
    BY <1>5 DEF PersistResult, Persisted, Inv, TypeOK
  <2>2. CASE ~WritesCursor(w) \/ ~WritesValue(w)
    BY <1>1, <1>5, <2>1, <2>2 DEF NextCursor
  <2>3. CASE WritesCursor(w) /\ WritesValue(w)
    <3>1. cursor'[t].value = res[w].next
      BY <2>1, <2>3 DEF NextCursor
    <3>2. res[w].next \in Nat
      BY DEF Inv, TypeOK, Result
    <3>3. CASE t \in PagedTargets
      BY <1>1, <1>5, <2>1, <3>1, <3>3 DEF TimelyInv, Holds, CursorHeld, Paging
    <3>4. CASE t \notin PagedTargets
      <4>1. res[w].next # NULL
        BY <1>5, <2>3, <3>4 DEF WritesCursor, WritesValue
      <4>2. DecideCursor(cursor[t].value, res[w].next) # "invalid"
        BY <1>5, <2>1, <2>3 DEF CursorRefused
      <4>3. \/ cursor[t].value = NULL
            \/ res[w].next > cursor[t].value
            \/ res[w].next = cursor[t].value
        BY <4>1, <4>2 DEF DecideCursor
      <4> QED BY <1>1, <3>1, <3>2, <4>3 DEF NULL
    <3> QED BY <3>3, <3>4
  <2> QED BY <2>2, <2>3
<1> QED BY <1>2, <1>3, <1>4, <1>5, CursorWriters

\* CursorNeverRegresses: a single fetch writes what decide_cursor lets through, and a
\* page starts from the position its run has reached.
THEOREM CursorsOnlyAdvance ==
    ASSUME ~Stalls PROVE Spec => CursorNeverRegresses
  BY CursorsAdvance, TimelyInvariance, PTL DEF Spec, CursorNeverRegresses

LEMMA WindowsStay ==
    ASSUME Inv, TimelyInv, [Next]_vars
    PROVE  \A t \in Targets :
             cursor[t].cont.pending /\ cursor'[t].cont.pending =>
               /\ cursor'[t].cont.window = cursor[t].cont.window
               /\ cursor'[t].cont.page >= cursor[t].cont.page
<1> SUFFICES ASSUME NEW t \in Targets, cursor[t].cont.pending, cursor'[t].cont.pending
             PROVE  /\ cursor'[t].cont.window = cursor[t].cont.window
                    /\ cursor'[t].cont.page >= cursor[t].cont.page
  OBVIOUS
<1>1. cursor[t] \in CursorRow /\ cursor[t].cont \in Continuation /\ cursor[t].cont.page \in Nat
  BY DEF Inv, TypeOK, CursorRow, Continuation
<1>2. CASE cursor'[t].cont = cursor[t].cont
  BY <1>1, <1>2
<1>3. CASE AbandonPendingContinuations(t)
  <2>1. cursor' = [cursor EXCEPT ![t] = [cursor[t] EXCEPT !.cont = NoContinuation]]
    BY <1>3 DEF AbandonPendingContinuations
  <2>2. cursor'[t].cont = NoContinuation
    BY <1>1, <2>1 DEF Inv, TypeOK, CursorRow
  <2> QED BY <2>2 DEF NoContinuation
<1>4. ASSUME NEW w \in Workers, job[w].d.target = t, ResolvedRunConfig(w)
      PROVE  /\ cursor'[t].cont.window = cursor[t].cont.window
             /\ cursor'[t].cont.page >= cursor[t].cont.page
  <2> DEFINE r == job[w].run
             c == Bound(w, r, t)
  <2>1. UNCHANGED cursor \/ cursor' = [cursor EXCEPT ![t] = [cursor[t] EXCEPT !.row = TRUE, !.cont = c]]
    BY <1>4 DEF ResolvedRunConfig
  <2>2. c = [cursor[t].cont EXCEPT !.run = r]
    BY DEF Bound
  <2> HIDE DEF c, r
  <2>3. c.window = cursor[t].cont.window /\ c.page = cursor[t].cont.page
    BY <1>1, <2>2 DEF Continuation
  <2>4. cursor'[t].cont \in {c, cursor[t].cont}
    <3>1. [cursor[t] EXCEPT !.row = TRUE, !.cont = c].cont = c
      BY <1>1 DEF CursorRow
    <3> DEFINE y == [cursor[t] EXCEPT !.row = TRUE, !.cont = c]
    <3>2. UNCHANGED cursor \/ cursor' = [cursor EXCEPT ![t] = y]
      BY <2>1
    <3> HIDE DEF y
    <3>3. cursor'[t] \in {y, cursor[t]}
      BY <3>2 DEF Inv, TypeOK
    <3> QED BY <3>1, <3>3 DEF y
  <2> QED BY <1>1, <2>3, <2>4
<1>5. ASSUME NEW w \in Workers, job[w].d.target = t, PersistResult(w)
      PROVE  /\ cursor'[t].cont.window = cursor[t].cont.window
             /\ cursor'[t].cont.page >= cursor[t].cont.page
  <2>1. cursor'[t] = NextCursor(w) /\ pc[w] = "persist"
    BY <1>5 DEF PersistResult, Persisted, Inv, TypeOK
  <2>2. CASE ~WritesCursor(w)
    BY <1>2, <1>5, <2>1, <2>2 DEF NextCursor
  <2>3. CASE WritesCursor(w)
    <3>1. cursor'[t].cont = NextContinuation(w)
      BY <2>1, <2>3 DEF NextCursor
    <3>2. CASE t \in PagedTargets
      <4>1. /\ cursor'[t].cont.window = runs[job[w].run].window
            /\ cursor'[t].cont.page = req[w].page + 1
        BY <1>5, <3>1, <3>2 DEF NextContinuation, NoContinuation
      <4>2. /\ cursor[t].cont.window = runs[job[w].run].window
            /\ cursor[t].cont.page = req[w].page
        BY <1>5, <2>1, <3>2 DEF TimelyInv, Holds, CursorHeld, Paging
      <4> QED BY <1>1, <4>1, <4>2
    <3>3. CASE t \notin PagedTargets
      <4>1. cursor'[t].cont.window = NULL /\ cursor'[t].cont.page = 0
        BY <1>5, <3>1, <3>3 DEF NextContinuation, NoContinuation
      <4>2. cursor[t].cont.window = NULL /\ cursor[t].cont.page = 0
        BY <3>3 DEF TimelyInv, UnpagedBare
      <4> QED BY <4>1, <4>2
    <3> QED BY <3>2, <3>3
  <2> QED BY <2>2, <2>3
<1> QED BY <1>2, <1>3, <1>4, <1>5, CursorWriters

\* FrozenWindowReused: _resolved_run_config binds a pending continuation to its run with
\* window and page as they are, and _persist_result moves it on from there.
THEOREM WindowsAreReused ==
    ASSUME ~Stalls PROVE Spec => FrozenWindowReused
  BY WindowsStay, TimelyInvariance, PTL DEF Spec, FrozenWindowReused

=============================================================================
