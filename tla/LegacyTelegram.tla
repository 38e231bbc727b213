--------------------------- MODULE LegacyTelegram ---------------------------
(***************************************************************************)
(* The legacy cycles that collect, file and announce: the multi-provider    *)
(* cycle beat sends (scheduler/multi_provider*.py) and the Marketaux cycle  *)
(* (scheduler/marketaux_telegram.py), with the pipeline both run: runner,   *)
(* in-memory sidecar, evidence write path, visible content, notifications.  *)
(*                                                                         *)
(* A cycle is a process; cycles overlap, since beat sends the next one      *)
(* whether or not the last has ended.  Every Redis command and transaction  *)
(* others can interleave with is an action.  The runner is one action with  *)
(* the outcomes LegacyCollection gives it.                                  *)
(*                                                                         *)
(* The key of an item names its raw item, evidence, content and             *)
(* notification: each table has at most one row of it (unique indexes on    *)
(* source and external id, provider item, raw item and dedup key).          *)
(***************************************************************************)
EXTENDS Naturals, FiniteSets, Sequences, SequencesExt

CONSTANTS
    Cycles,       \* processes that run cycles
    Singles,      \* those that run the Marketaux cycle too
    Order,        \* PROVIDER_ORDER: the providers with a credential
    Items,        \* items of the providers
    Offers,       \* provider |-> its items, in the order of its cursor
    Unsafe,       \* items whose projection the store refuses
    Unmapped,     \* items that map to no valid envelope
    Undisplayed,  \* items without a complete display projection
    Marketaux,    \* the provider of the Marketaux cycle
    MaxRuns,      \* bound on collection_runs rows
    MaxRetries,   \* COLLECTION_MAX_RETRIES
    MaxAttempts,  \* MAX_DELIVERY_ATTEMPTS
    FeedLimit,    \* items of a run a cycle announces
    RetryLimit,   \* notifications a cycle retries
    MaxToggles,   \* bound on changes of the Telegram credential
    MaxFaults     \* bound on crashes, lost answers, delays and overruns

Providers == ToSet(Order)

ASSUME TelegramAssumption ==
    /\ Order \in Seq(Providers) /\ Marketaux \in Providers
    /\ Offers \in [Providers -> Seq(Items)]
    /\ Singles \subseteq Cycles
    /\ Unsafe \subseteq Items /\ Unmapped \subseteq Items /\ Undisplayed \subseteq Items
    /\ {MaxRuns, FeedLimit, RetryLimit} \subseteq Nat \ {0}
    /\ {MaxRetries, MaxAttempts, MaxToggles, MaxFaults} \subseteq Nat

VARIABLES
    cadence,   \* Redis scheduler:cadence:<provider> is set
    gate,      \* Redis scheduler:retry:<provider> is set
    context,   \* Redis scheduler:retry-context:<provider>
    runs,      \* collection_runs
    raw,       \* raw_items: the run that stored the item, 0 if none
    evidence,  \* evidence_items
    content,   \* content_items
    notif,     \* notifications
    sends,     \* times each item went to the chat
    cycle,     \* where each process is
    telegram,  \* the environment has a Telegram credential
    toggles, faults, delays,
    overruns   \* times a cadence has run out under the cycle that claims or executes its provider

redis == <<cadence, gate, context>>
vars == <<cadence, gate, context, runs, raw, evidence, content, notif, sends, cycle, telegram,
          toggles, faults, delays, overruns>>

-----------------------------------------------------------------------------
RunIds == 1..MaxRuns

\* Attempts are bounded by the retries of the runner.
Context == [run : 0..MaxRuns, attempt : 0..MaxRetries]

NoContext == [run |-> 0, attempt |-> 0]

\* code: whether error_code is one of _RETRYABLE_COLLECTION_ERRORS.
Run == [status : {"absent", "running", "succeeded", "failed"}, retries : 0..MaxRetries,
        code : {"none", "retryable", "final"}]

NoRun == [status |-> "absent", retries |-> 0, code |-> "none"]

\* stale: scheduled_at is older than SENDING_STALE_AFTER_SECONDS.
Row == [status : {"absent", "pending", "sending", "failed", "sent"}, retries : 0..MaxAttempts,
        policy : {"none", "multi", "single"}, stale : BOOLEAN]

NoRow == [status |-> "absent", retries |-> 0, policy |-> "none", stale |-> FALSE]

\* todo: providers still to claim, then to execute; held: the claims; read: the context
\* this claim has read; seen: the sidecar; batch: claimed notifications.
Cycle == [pc : {"idle", "read", "set", "delete", "collect", "process", "persist", "reschedule",
                "new", "retries", "send", "mark"},
          kind : {"none", "multi", "single"}, chat : BOOLEAN, todo : Seq(Providers),
          held : [Providers -> [claimed : BOOLEAN, run : 0..MaxRuns, attempt : 0..MaxRetries]],
          read : Context, run : 0..MaxRuns, seen : SUBSET Items, batch : SUBSET Items,
          accepted : BOOLEAN]

NotClaimed == [claimed |-> FALSE, run |-> 0, attempt |-> 0]

Claimed(x) == [claimed |-> TRUE, run |-> x.run, attempt |-> x.attempt]

Idle == [pc |-> "idle", kind |-> "none", chat |-> FALSE, todo |-> <<>>,
         held |-> [p \in Providers |-> NotClaimed], read |-> NoContext, run |-> 0, seen |-> {},
         batch |-> {}, accepted |-> FALSE]

\* Every key, row and process has the type of what it models.
TypeOK ==
    /\ cadence \in [Providers -> BOOLEAN] /\ gate \in [Providers -> BOOLEAN]
    /\ context \in [Providers -> Context]
    /\ runs \in [RunIds -> Run]
    /\ raw \in [Items -> 0..MaxRuns]
    /\ evidence \subseteq Items /\ content \subseteq Items
    /\ notif \in [Items -> Row]
    /\ sends \in [Items -> Nat]
    /\ cycle \in [Cycles -> Cycle]
    /\ telegram \in BOOLEAN
    /\ {toggles, faults, delays, overruns} \subseteq Nat

Init ==
    /\ cadence = [p \in Providers |-> FALSE] /\ gate = [p \in Providers |-> FALSE]
    /\ context = [p \in Providers |-> NoContext]
    /\ runs = [r \in RunIds |-> NoRun]
    /\ raw = [i \in Items |-> 0]
    /\ evidence = {} /\ content = {}
    /\ notif = [i \in Items |-> NoRow]
    /\ sends = [i \in Items |-> 0]
    /\ cycle = [c \in Cycles |-> Idle]
    /\ telegram \in BOOLEAN
    /\ toggles = 0 /\ faults = 0 /\ delays = 0 /\ overruns = 0

-----------------------------------------------------------------------------
(* Time and the environment.                                               *)

Interference == faults + delays + overruns

Fault == Interference < MaxFaults /\ faults' = faults + 1 /\ UNCHANGED <<delays, overruns>>

\* The cycle is between the GET and the DEL of a claim of the provider.
Claiming(c, p) == cycle[c].pc \in {"set", "delete"} /\ Head(cycle[c].todo) = p

CadenceExpires(p) ==
    /\ cadence[p]
    /\ cadence' = [cadence EXCEPT ![p] = FALSE]
    /\ IF \E c \in Cycles : Claiming(c, p) \/ cycle[c].held[p].claimed
       THEN Interference < MaxFaults /\ overruns' = overruns + 1
       ELSE UNCHANGED overruns
    /\ UNCHANGED <<gate, context, runs, raw, evidence, content, notif, sends, cycle, telegram,
                   toggles, faults, delays>>

GateExpires(p) ==
    /\ gate[p]
    /\ gate' = [gate EXCEPT ![p] = FALSE]
    /\ UNCHANGED <<cadence, context, runs, raw, evidence, content, notif, sends, cycle, telegram,
                   toggles, faults, delays, overruns>>

\* A claim gets older than SENDING_STALE_AFTER_SECONDS, under a live process after a delay;
\* without attempts left nobody looks.
ClaimAges(i) ==
    /\ notif[i].status = "sending"
    /\ notif[i].retries < MaxAttempts
    /\ ~notif[i].stale
    /\ notif' = [notif EXCEPT ![i].stale = TRUE]
    /\ IF \E c \in Cycles : i \in cycle[c].batch
       THEN Interference < MaxFaults /\ delays' = delays + 1 /\ UNCHANGED faults
       ELSE UNCHANGED <<faults, delays>>
    /\ UNCHANGED <<redis, runs, raw, evidence, content, sends, cycle, telegram, toggles, overruns>>

Toggle ==
    /\ toggles < MaxToggles
    /\ toggles' = toggles + 1
    /\ telegram' = ~telegram
    /\ UNCHANGED <<redis, runs, raw, evidence, content, notif, sends, cycle, faults, delays, overruns>>

-----------------------------------------------------------------------------
(* A cycle.                                                                *)

Goto(c, x) == cycle' = [cycle EXCEPT ![c] = x]

At(c, step) == [cycle[c] EXCEPT !.pc = step]

\* run_multi_provider_scheduler_cycle
StartMulti(c) ==
    /\ cycle[c].pc = "idle"
    /\ Goto(c, [Idle EXCEPT !.pc = "read", !.kind = "multi", !.chat = telegram, !.todo = Order])
    /\ UNCHANGED <<redis, runs, raw, evidence, content, notif, sends, telegram, toggles, faults, delays, overruns>>

\* run_scheduler_cycle: nothing without a Telegram credential.
StartSingle(c) ==
    /\ c \in Singles
    /\ cycle[c].pc = "idle"
    /\ telegram
    /\ Goto(c, [Idle EXCEPT !.pc = "collect", !.kind = "single", !.chat = TRUE, !.todo = <<Marketaux>>,
                            !.held = [@ EXCEPT ![Marketaux] = Claimed(NoContext)]])
    /\ UNCHANGED <<redis, runs, raw, evidence, content, notif, sends, telegram, toggles, faults, delays, overruns>>

Provider(c) == Head(cycle[c].todo)

\* The claim of this provider is settled: the next one, or the first to execute.
ClaimNext(c, claim) ==
    LET x == [cycle[c] EXCEPT !.held[Provider(c)] = claim, !.read = NoContext] IN
    Goto(c, IF Len(x.todo) > 1 THEN [x EXCEPT !.pc = "read", !.todo = Tail(@)]
            ELSE [x EXCEPT !.pc = "collect", !.todo = Order])

\* The claim with its target resolved, or without one: the cadence is spent all the same.
Settle(c, x) == \E claim \in {Claimed(x), NotClaimed} : ClaimNext(c, claim)

\* ProviderCadenceController.claim up to GET: a provider behind its retry gate waits.
ClaimRead(c) ==
    /\ cycle[c].pc = "read"
    /\ IF gate[Provider(c)] THEN ClaimNext(c, NotClaimed)
       ELSE Goto(c, [At(c, "set") EXCEPT !.read = context[Provider(c)]])
    /\ UNCHANGED <<redis, runs, raw, evidence, content, notif, sends, telegram, toggles, faults, delays, overruns>>

\* SET NX EX of the cadence.
ClaimSet(c) ==
    LET p == Provider(c) IN
    /\ cycle[c].pc = "set"
    /\ cadence' = [cadence EXCEPT ![p] = TRUE]
    /\ IF cadence[p] THEN ClaimNext(c, NotClaimed)
       ELSE IF cycle[c].read = NoContext THEN Settle(c, NoContext)
       ELSE Goto(c, At(c, "delete"))
    /\ UNCHANGED <<gate, context, runs, raw, evidence, content, notif, sends, telegram, toggles, faults, delays, overruns>>

\* Mutant of ClaimDelete: the retry context is left to its TTL.
ClaimDelete_Kept(c) ==
    /\ cycle[c].pc = "delete"
    /\ Settle(c, cycle[c].read)
    /\ UNCHANGED <<redis, runs, raw, evidence, content, notif, sends, telegram, toggles, faults, delays, overruns>>

\* DEL of the context, whatever it holds by now.
ClaimDelete(c) ==
    /\ cycle[c].pc = "delete"
    /\ context' = [context EXCEPT ![Provider(c)] = NoContext]
    /\ Settle(c, cycle[c].read)
    /\ UNCHANGED <<cadence, gate, runs, raw, evidence, content, notif, sends, telegram, toggles, faults, delays, overruns>>

\* The provider is done: the next one, or the retries.  The Marketaux cycle goes on to
\* its notifications.
Done(c) ==
    LET x == [cycle[c] EXCEPT !.todo = Tail(@), !.held = [@ EXCEPT ![Provider(c)] = NotClaimed],
                              !.run = 0, !.seen = {}, !.batch = {}, !.accepted = FALSE] IN
    [x EXCEPT !.pc = IF x.todo = <<>> THEN "retries" ELSE "collect"]

\* The executor of a provider that is not due, waits, or has no target.
NothingToExecute(c) ==
    /\ cycle[c].pc = "collect"
    /\ ~cycle[c].held[Provider(c)].claimed
    /\ Goto(c, Done(c))
    /\ UNCHANGED <<redis, runs, raw, evidence, content, notif, sends, telegram, toggles, faults, delays, overruns>>

-----------------------------------------------------------------------------
(* CollectionRunner.run, as the pipeline sees it.                          *)

Of(r) == {i \in Items : raw[i] = r}

\* Items a run can store: the next ones behind the cursor.
Batches(p) == {{i \in ToSet(SubSeq(Offers[p], 1, n)) : raw[i] = 0} : n \in 0..Len(Offers[p])}

\* The run a claim executes: the one it continues, or a new row.
RunOf(claim) ==
    IF claim.run # 0 THEN {claim.run}
    ELSE {r \in RunIds : \A q \in RunIds : runs[q].status = "absent" <=> q >= r}

\* Items stored by the batches before the end; only an open run accepts them.
Stored(p, row) == IF row.status \in {"absent", "running"} THEN Batches(p) ELSE {{}}

Opened(row) == IF row.status = "absent" THEN [row EXCEPT !.status = "running"] ELSE row

\* The observer sees whatever the adapter returns: the items stored and those of this run
\* it serves again.  (Those of other runs it sees too, but nothing asks for them.)
Collected(c, r, row, items, step) ==
    /\ runs' = [runs EXCEPT ![r] = row]
    /\ raw' = [i \in Items |-> IF i \in items THEN r ELSE raw[i]]
    /\ \E again \in SUBSET Of(r) :
          Goto(c, [At(c, step) EXCEPT !.run = r, !.seen = items \cup again])

CollectSucceeds(c) ==
    LET p == Provider(c) claim == cycle[c].held[p] IN
    /\ cycle[c].pc = "collect" /\ claim.claimed
    /\ \E r \in RunOf(claim) :
          /\ runs[r].status \in {"absent", "running"}
          /\ \E items \in Stored(p, runs[r]) :
                Collected(c, r, [runs[r] EXCEPT !.status = "succeeded", !.code = "none"], items, "process")
    /\ UNCHANGED <<redis, evidence, content, notif, sends, telegram, toggles, faults, delays, overruns>>

\* _record_retry: the run stays as it is and counts the attempt.
CollectRetries(c) ==
    LET p == Provider(c) claim == cycle[c].held[p] IN
    /\ cycle[c].pc = "collect" /\ claim.claimed
    /\ claim.attempt < MaxRetries
    /\ \E r \in RunOf(claim) : \E items \in Stored(p, runs[r]) :
          Collected(c, r, [Opened(runs[r]) EXCEPT !.retries = claim.attempt + 1, !.code = "retryable"],
                    items, "reschedule")
    /\ UNCHANGED <<redis, evidence, content, notif, sends, telegram, toggles, faults, delays, overruns>>

\* _finish_failure.  The error of a run without attempts left keeps its retryable code;
\* a run that has ended refuses its items, a final error.
CollectFails(c) ==
    LET p == Provider(c) claim == cycle[c].held[p] IN
    /\ cycle[c].pc = "collect" /\ claim.claimed
    /\ \E r \in RunOf(claim), code \in {"retryable", "final"} : \E items \in Stored(p, runs[r]) :
          /\ code = "retryable" => claim.attempt = MaxRetries
          /\ Collected(c, r, [runs[r] EXCEPT !.status = "failed", !.code = code], items, "reschedule")
    /\ UNCHANGED <<redis, evidence, content, notif, sends, telegram, toggles, faults, delays, overruns>>

\* The target is locked or rejected.  A locked retry still names its run.
CollectRefused(c) ==
    LET claim == cycle[c].held[Provider(c)] IN
    /\ cycle[c].pc = "collect" /\ claim.claimed
    /\ \/ Goto(c, Done(c))
       \/ claim.run # 0 /\ Goto(c, [At(c, "reschedule") EXCEPT !.run = claim.run])
    /\ UNCHANGED <<redis, runs, raw, evidence, content, notif, sends, telegram, toggles, faults, delays, overruns>>

\* recover_stale_runs: these cycles set no retry marker, so a run that waits behind the
\* gate, or whose context is lost, is failed once it is old.
RecoverStale(r) ==
    /\ runs[r].status = "running"
    /\ runs' = [runs EXCEPT ![r].status = "failed", ![r].code = "final"]
    /\ UNCHANGED <<redis, raw, evidence, content, notif, sends, cycle, telegram, toggles, faults, delays, overruns>>

\* for_run is asked whatever the outcome: a run shown before is announced again.
Unfinished(c) ==
    IF cycle[c].kind = "multi" /\ content \cap Of(cycle[c].run) # {} THEN At(c, "new") ELSE Done(c)

\* The end of execute_one without PROCESSED: a retryable code and a counted attempt call
\* schedule_retry, whatever the run's status.
Reschedule(c) ==
    LET p == Provider(c) r == cycle[c].run IN
    /\ cycle[c].pc = "reschedule"
    /\ IF cycle[c].kind = "multi" /\ runs[r].code = "retryable" /\ runs[r].retries >= 1
       THEN /\ cadence' = [cadence EXCEPT ![p] = FALSE]
            /\ gate' = [gate EXCEPT ![p] = TRUE]
            /\ context' = [context EXCEPT ![p] = [run |-> r, attempt |-> runs[r].retries]]
       ELSE UNCHANGED redis
    /\ Goto(c, Unfinished(c))
    /\ UNCHANGED <<runs, raw, evidence, content, notif, sends, telegram, toggles, faults, delays, overruns>>

-----------------------------------------------------------------------------
(* EndToEndMockEvidencePipeline.process_run: sidecar, projection store,     *)
(* trigger, evidence pipeline and write path, in one transaction.           *)

\* The sidecar is of this process: it binds what this execution has fetched.
Bound(c) == Of(cycle[c].run) \cap cycle[c].seen

\* What the payloads decide: validate_provider_projection, _map_projection with
\* validate_evidence_envelope, and the checks of the two feeds.
ValidProjection(i) == i \notin Unsafe

ValidEnvelope(i) == i \notin Unmapped

ValidDisplay(i) == i \notin Undisplayed

\* InMemoryEvidenceProjectionStore.save checks the projection.
Saved(c) == {i \in Bound(c) : ValidProjection(i)}

\* EvidenceWriteService.write_one: an equivalent row is found, or one is inserted in a
\* savepoint of its own; an error of one item leaves the others.
WriteOutcomes(i) == IF i \in evidence THEN {"existing"} ELSE {"inserted", "failed"}

\* EvidencePipelineService.process: an item without a valid envelope is not written.
PipelineOutcomes(i) == IF ValidEnvelope(i) THEN WriteOutcomes(i) ELSE {"invalid"}

\* Mutant of Complete: the outcomes of the items are looked at, not the missing ones.
Complete_AnyBound(c) == Saved(c) # {} \/ Of(cycle[c].run) = {}

\* No item of the run lacks its projection; the outcomes of the writes do not matter.
Complete(c) == Saved(c) = Of(cycle[c].run)

\* PROCESSED goes on to the feed; otherwise the evidence is kept and nothing is shown.
ProcessRun(c) ==
    /\ cycle[c].pc = "process"
    /\ \E outcome \in [Saved(c) -> {"existing", "inserted", "failed", "invalid"}] :
          /\ \A i \in Saved(c) : outcome[i] \in PipelineOutcomes(i)
          /\ evidence' = evidence \cup {i \in Saved(c) : outcome[i] = "inserted"}
          /\ IF \E i \in Saved(c) : outcome[i] = "failed" THEN Fault ELSE UNCHANGED <<faults, delays, overruns>>
    /\ Goto(c, At(c, IF Complete(c) THEN "persist" ELSE "reschedule"))
    /\ UNCHANGED <<redis, runs, raw, content, notif, sends, telegram, toggles>>

Displayed(c) == {i \in Bound(c) : ValidDisplay(i)}

\* persist_run of the two feeds.  A Marketaux run with items and none to show is INVALID.
PersistFeed(c) ==
    /\ cycle[c].pc = "persist"
    /\ content' = content \cup Displayed(c)
    /\ Goto(c, At(c, IF Provider(c) = Marketaux /\ Displayed(c) = {} /\ Bound(c) # {}
                     THEN "reschedule" ELSE "new"))
    /\ UNCHANGED <<redis, runs, raw, evidence, notif, sends, telegram, toggles, faults, delays, overruns>>

\* A transaction of the pipeline fails: the provider's cycle ends FAILED, or INVALID where
\* _persist_feed catches the error, and the next one goes on.
PipelineFails(c) ==
    /\ cycle[c].pc \in {"process", "persist"}
    /\ Fault
    /\ Goto(c, IF cycle[c].pc = "persist" /\ Provider(c) = Marketaux THEN At(c, "reschedule")
               ELSE Done(c))
    /\ UNCHANGED <<redis, runs, raw, evidence, content, notif, sends, telegram, toggles>>

-----------------------------------------------------------------------------
(* Notifications.                                                          *)

Least(m, n) == IF m <= n THEN m ELSE n

\* for_run: the newest of the run's items.
Shown(c, S) == S \subseteq content \cap Of(cycle[c].run)
               /\ Cardinality(S) = Least(FeedLimit, Cardinality(content \cap Of(cycle[c].run)))

\* INSERT ... ON CONFLICT (dedup_key) DO NOTHING.
Insert(S, status, policy) ==
    notif' = [i \in Items |-> IF i \in S /\ notif[i].status = "absent"
                              THEN [NoRow EXCEPT !.status = status, !.policy = policy] ELSE notif[i]]

Absent(S) == {i \in S : notif[i].status = "absent"}

\* The multi-provider cycle sends its new claims at once, the Marketaux cycle with its retries.
Announce(c, new) ==
    IF cycle[c].kind = "single" THEN [Done(c) EXCEPT !.batch = new]
    ELSE IF new = {} THEN Done(c)
    ELSE [At(c, "send") EXCEPT !.batch = new]

\* _claim_new
ClaimNew(c) ==
    /\ cycle[c].pc = "new" /\ cycle[c].chat
    /\ \E S \in SUBSET content :
          /\ Shown(c, S)
          /\ Insert(S, "sending", cycle[c].kind)
          /\ Goto(c, Announce(c, Absent(S)))
    /\ UNCHANGED <<redis, runs, raw, evidence, content, sends, telegram, toggles, faults, delays, overruns>>

\* PendingProviderNotificationService.deliver_new
KeepPending(c) ==
    /\ cycle[c].pc = "new" /\ ~cycle[c].chat
    /\ \E S \in SUBSET content : Shown(c, S) /\ Insert(S, "pending", cycle[c].kind)
    /\ Goto(c, Done(c))
    /\ UNCHANGED <<redis, runs, raw, evidence, content, sends, telegram, toggles, faults, delays, overruns>>

\* Mutant of Retryable: a stale claim is nobody's.
Retryable_NotStale(row, policy) ==
    row.policy = policy /\ row.retries < MaxAttempts /\ row.status \in {"failed", "pending"}

\* FAILED, stale SENDING and, for the multi-provider cycle, PENDING rows of its policy
\* with attempts left.
Retryable(row, policy) ==
    /\ row.policy = policy
    /\ row.retries < MaxAttempts
    /\ \/ row.status = "failed"
       \/ row.status = "pending" /\ policy = "multi"
       \/ row.status = "sending" /\ row.stale

\* Mutant of Reclaimed: the attempt is not counted.
Reclaimed_NotCounted(row) == [row EXCEPT !.status = "sending", !.stale = FALSE]

\* A PENDING row's first attempt is not a retry.
Reclaimed(row) ==
    [row EXCEPT !.status = "sending", !.stale = FALSE, !.retries = IF row.status = "pending" THEN @ ELSE @ + 1]

\* _claim_retries: the conditional UPDATE is the claim.  Without a chat nothing is touched.
ClaimRetries(c) ==
    LET due == {i \in Items : cycle[c].chat /\ Retryable(notif[i], cycle[c].kind)} IN
    /\ cycle[c].pc = "retries"
    /\ \E S \in SUBSET due :
          /\ Cardinality(S) = Least(RetryLimit, Cardinality(due))
          /\ notif' = [i \in Items |-> IF i \in S THEN Reclaimed(notif[i]) ELSE notif[i]]
          /\ Goto(c, IF cycle[c].batch \cup S = {} THEN Idle
                     ELSE [At(c, "send") EXCEPT !.batch = @ \cup S])
    /\ UNCHANGED <<redis, runs, raw, evidence, content, sends, telegram, toggles, faults, delays, overruns>>

\* A 2xx answer, a rejection, a message that cannot be built, or an answer that is lost
\* after the message went out.
Answers == {"ok", "rejected", "invalid", "lost"}

\* One message for the whole batch.
Send(c) ==
    /\ cycle[c].pc = "send"
    /\ \E answer \in Answers :
          /\ Goto(c, [At(c, "mark") EXCEPT !.accepted = (answer = "ok")])
          /\ sends' = [i \in Items |-> IF i \in cycle[c].batch /\ answer \in {"ok", "lost"}
                                       THEN sends[i] + 1 ELSE sends[i]]
          /\ IF answer = "lost" THEN Fault ELSE UNCHANGED <<faults, delays, overruns>>
    /\ UNCHANGED <<redis, runs, raw, evidence, content, notif, telegram, toggles>>

\* Mutant of Markable: the status of the row is not looked at.
Markable_AnyStatus(i) == notif[i].status # "absent"

Markable(i) == notif[i].status = "sending"

\* _mark: SENT or FAILED, only where the row is SENDING.
Mark(c) ==
    /\ cycle[c].pc = "mark"
    /\ notif' = [i \in Items |-> IF i \in cycle[c].batch /\ Markable(i)
                                 THEN [notif[i] EXCEPT !.status = IF cycle[c].accepted THEN "sent" ELSE "failed",
                                                       !.stale = FALSE]
                                 ELSE notif[i]]
    /\ Goto(c, IF cycle[c].todo = <<>> THEN Idle ELSE Done(c))
    /\ UNCHANGED <<redis, runs, raw, evidence, content, sends, telegram, toggles, faults, delays, overruns>>

\* The process dies, or an error of Redis or of a notification's transaction ends the
\* cycle: nothing it holds in memory survives.
Stop(c) ==
    /\ cycle[c].pc # "idle"
    /\ Fault
    /\ Goto(c, Idle)
    /\ UNCHANGED <<redis, runs, raw, evidence, content, notif, sends, telegram, toggles>>

-----------------------------------------------------------------------------
CycleStep(c) ==
    \/ ClaimRead(c) \/ ClaimSet(c) \/ ClaimDelete(c) \/ NothingToExecute(c)
    \/ CollectSucceeds(c) \/ CollectRetries(c) \/ CollectFails(c) \/ CollectRefused(c)
    \/ Reschedule(c) \/ ProcessRun(c) \/ PersistFeed(c)
    \/ ClaimNew(c) \/ KeepPending(c) \/ ClaimRetries(c) \/ Send(c) \/ Mark(c)

Next ==
    \/ \E p \in Providers : CadenceExpires(p) \/ GateExpires(p)
    \/ \E i \in Items : ClaimAges(i)
    \/ \E r \in RunIds : RecoverStale(r)
    \/ Toggle
    \/ \E c \in Cycles : StartMulti(c) \/ StartSingle(c) \/ CycleStep(c) \/ PipelineFails(c) \/ Stop(c)

\* Beat keeps sending the multi-provider cycle to a process that runs nothing else, a cycle
\* goes on, and time passes.
Fairness ==
    /\ \A c \in Cycles \ Singles : WF_vars(StartMulti(c))
    /\ \A c \in Cycles : WF_vars(CycleStep(c))
    /\ \A i \in Items : WF_vars(ClaimAges(i))

Spec == Init /\ [][Next]_vars /\ Fairness

-----------------------------------------------------------------------------
(* Properties.                                                             *)

\* The items of a run that can be shown are shown all or not at all: what an earlier
\* attempt of the run has stored is not in the sidecar of the process that ends it.
RunShownWhole == \A r \in RunIds : content \cap Of(r) \in {{}, Of(r) \ Undisplayed}

\* SENT is final, for the late mark of a cycle whose claim was taken over too, and a row
\* that is SENT went to the chat.
SentIsFinal ==
    [][\A i \in Items : /\ notif[i].status = "sent" => notif'[i] = notif[i]
                        /\ notif'[i].status = "sent" => sends'[i] > 0]_vars

\* An item goes out once and once more per counted retry at most, and more than once only
\* after a fault: a lost answer, a process that stopped, a claim that ran out.
SendsAreCounted ==
    /\ TypeOK
    /\ \A i \in Items : /\ sends[i] <= notif[i].retries + 1
                        /\ sends[i] > 1 => faults + delays > 0

\* While no cycle takes longer than the cadence of a provider it claims or executes, a run
\* that has succeeded is not executed again, and no two cycles execute one run.
RetriesAreExclusive ==
    overruns = 0 =>
        \A c \in Cycles, p \in Providers :
            LET claim == cycle[c].held[p] IN
            claim.claimed /\ claim.run # 0 =>
                /\ cycle[c].pc \in {"read", "set", "delete", "collect"} => runs[claim.run].status # "succeeded"
                /\ \A d \in Cycles \ {c} : ~(cycle[d].held[p].claimed /\ cycle[d].held[p].run = claim.run)

Settled(i) == \/ notif[i].status \in {"absent", "sent"}
              \/ notif[i].status \in {"failed", "sending"} /\ notif[i].retries = MaxAttempts

\* With a Telegram credential from some time on, every notification of the multi-provider
\* cycles is sent or runs out of attempts, whoever stops on the way.
EveryIntentSettles ==
    <>[]telegram => \A i \in Items : []<>(notif[i].policy = "multi" => Settled(i))

=============================================================================
