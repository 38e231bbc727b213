# A TLA+ model of the market intelligence collector

This directory specifies the parts of the collector in which several processes share state: the
unified collection control plane, the persistence of what it fetches, the workers that turn collected
facts into evidence, the notification outbox, the grouping of evidence into event candidates, and the
legacy collection and Telegram schedulers. Two modules state the window and paging arithmetic that
feeds them as pure functions. Everything below `src/market_intelligence/` is written `collection/...`,
`evidence/...` and so on. `PROJECT.json` lists, for every definition, the lines of code it models.

## 1. The system

Celery beat sends periodic tasks; workers run each task as one asyncio program; all shared state is in
PostgreSQL and Redis. Tasks may overlap with themselves and each other, are acknowledged early (a task
whose worker dies is lost), and can be delayed for any time.

```
 collection_targets --claim_due--> Celery queue --> execute --> provider
        ^                                             |
   operator (revise, pause, abandon)                  | one transaction per page
                                                      v
        raw items, observations, PENDING safe-fact projections, cursor, run
                                                      |
                              SafeFactProjectionWorker (PENDING -> READY/BLOCKED)
                                                      |
                              EvidenceProjectionHandoffWorker (READY -> content, evidence, LINKED)
                                                      |
                              NotificationIntentReconciler (content -> PENDING notification)
                                                      |
                              NotificationDeliveryService (PENDING -> Telegram -> SENT)
```

| component | state | operations | what is hard | what makes it correct |
|---|---|---|---|---|
| Control plane worker, `collection/control_plane.py` | run, cursor and target rows; Redis target lock, dispatch markers, cool-down | `claim_due`, `execute` with `_start_run`, `_resolved_run_config`, page loop, `_persist_result`, `_finish_error`, lock renewal and release, `recover_stale_target_runs` | Redis locks expire under live workers; each step is its own transaction; crash, retry and recovery race | one worker and one RUNNING run per target; ended runs stay ended; the cursor never moves back; a continuation resumes in its run and window; request budget |
| Target repository, `collection/target_repository.py` | target rows, revisions | `load_for_execution`, `revise`, `due_page`, pause and abandon of a continuation | operator acts between a worker's steps | RUNNING runs are of the current revision; a pending continuation can be dealt with |
| Safe-fact projection worker, `safe_projection/worker.py` | projection rows | `_recover_stale`, `_claim`, `_validate_one` | slow and dead batches, no owner on a claim | sound and final verdict, bounded attempts, progress |
| Evidence handoff, `evidence/handoff.py` | links, content and evidence rows | `_recover_stale`, `_discover_ready`, `_claim`, `_link_one`, `_terminal`, `_retry` | an unlocked look before the locks; revisions and legacy rows compete for one canonical row | one canonical link per evidence and content row, first row wins, bounded attempts, progress |
| Notification intents, `notifications/intent.py` | notification rows, recovery and scan records | `reconcile`, `create_pending_intent`, `record_intent_recovery` | snapshots of concurrent reconcilers, source changes | no intent lost, replay is harmless |
| Notification delivery, `notifications/delivery.py` | notification rows | `_claim`, `deliver`, `_fail`, `_sent` | lost answers, stale claims, late reports | SENT means sent, final outcomes, bounded failures, duplicates only after a fault, progress |
| Collection downstream, `collection/downstream.py` | raw items, observations, projections, run counters | `persist_fetch_result` | pages of several targets store the same items, wait for each other and roll back | one FIRST_SEEN per stored item, no new facts pass as a duplicate, counters match rows |
| Breadth adapters, `providers/breadth.py`, `windows.py`, `continuation.py` | none (functions of configuration, continuation and answer) | `resolve_window`, `_payloads` of each operation, the continuation codec | listings that grow between requests, page and window boundaries | windows valid and without gaps; the pages of a run cover the listing |
| Legacy runner and scheduler, `collection/runner.py`, `scheduler.py`, `locking.py`, `retry.py` | runs, cursors, items, Redis locks and retry markers | dispatch, run, retry, recovery | as the control plane, without adoption of runs | items stored once up to the cursor, a lock is lost to time only, ended runs stay ended unless the recovery erred, every run ends |
| Legacy Telegram cycles, `scheduler/multi_provider*.py`, `marketaux_telegram.py`, with the pipeline and evidence write path they call | Redis cadences and retry contexts; runs, evidence, content, notifications; an in-memory sidecar | cadence claims, collection, filing, feed, `_claim_new`, `_claim_retries`, `_deliver`, `_mark` | cycles overlap, share rows, die, lose answers | a run shown whole or not at all, counted sends, SENT is final, retries exclusive, intents settle |
| Event intelligence, `event_intelligence/` | event candidates and their evidence links | `process`, `deactivate_association`, `regroup_association` | read-modify-write of candidates in concurrent transactions | counts follow membership, one active membership, explained matches |
| Cutover and migration tools, `collection/control_plane_tools.py`, `phase2_migration.py` | authority gate, watermark | shadow audit, `prepare_cutover_watermark` | what commits around the cutover | not modelled |
| Provider clients, registry, preflight, API, configuration, rich evidence | none that is shared | HTTP, parsing, queries, deterministic builders | – | not state machines |

The hazards, each at its line and with the properties that would catch it, are in `PROJECT.json`.

## 2. Modules

| module | models | extends |
|---|---|---|
| `CollectionControlPlane` | the control plane, its scheduler, queue, workers, recovery and operator | |
| `CollectionControlPlaneProofs` | proofs about its tables and its executions | the former |
| `BoundedWork` | abstract specification: items taken at most `MaxAttempts` times, with a final outcome | |
| `SafeProjectionWorker` | the projection worker; implements `BoundedWork` | |
| `SafeProjectionWorkerProofs` | proofs about it, the refinement included | the former |
| `EvidenceHandoff` | the handoff worker and the triggers that judge its links; implements `BoundedWork` | |
| `EvidenceHandoffProofs` | proofs about it, the refinement included | the former |
| `DownstreamPersistence` | the transaction that stores a fetched page | |
| `BreadthWindows`, `BreadthPaging` | the windows of a target and the pages of a run, as functions | |
| `DownstreamWindows` | composes the transaction with the windows its runs freeze | `DownstreamPersistence`, `BreadthWindows` |
| `DownstreamPersistenceProofs` | proofs about both | the former |
| `EventIntelligence` | event candidates | |
| `EventIntelligenceProofs` | proofs about it | the former |
| `LegacyCollection` | the legacy runner, scheduler, retry task and recovery | |
| `LegacyCollectionProofs` | proofs about it | the former |
| `LegacyTelegram` | the two legacy Telegram cycles and the pipeline they run | |
| `LegacyTelegramProofs` | proofs about it | the former |
| `NotificationOutbox` | intents and delivery | |
| `NotificationOutboxProofs` | proofs about it | the former |
| `MC...` | model values and symmetry for TLC; `MCDownstreamPersistence` also brings in `BreadthPaging` | |

Operators whose names have a suffix (`Release_AnyToken`) are mutants: a plausible bug in the
definition before the underscore. They are used by no specification; replacing the definition by its
mutant must make TLC find the property violated (`PROJECT.json`, "mutants").

### CollectionControlPlane

One action per database transaction and per Redis command, so that processes interleave exactly where
the code awaits. `pc[w]` says where a worker is in `execute`: `TakeTask` and `AcquireLock` (lines
188-232 of `control_plane.py`), `Prepare` (credential check), `StartRunStale/Adopt/Create`
(`_start_run`), `ResolvedRunConfig` (freezing of window and config), `LoadPage`, `Budget`, the fetch
outcomes, the comparison of the lock owner, `PersistResult`, and the endings `FinishError`,
`FinishLockLost` and the release of the lock. `DatabaseFails` is a failing transaction: an ending called
inside the `try` block of `execute` is followed by a second, retryable `_finish_error` when it fails
(`caught`), one called by an except clause is not. `RecoverStale` is `recover_stale_target_runs`; the
operator's actions are those of `target_repository.py`. The partial unique index on RUNNING runs and
the continuation triggers of migrations 0006 and 0009 are guards of the actions that write.

Abstractions: a clock of scheduling slots; cursor values as ranks; a window named by the run that
resolved it and a frozen config by its revision; a continuation's provider state as a page count; one
rate-limit group; run_mode "normal" only; Source and account eligibility folded into the target's
status. Health and failure counters, item counts, the legacy cursor mirror, fixed-window targets and
the authority gate are left out. `recover_stale_target_runs` reads its Redis keys together with its
transaction: it holds the run's row lock, which keeps `_start_run` out in between. `LoadPage` joins
the reread of the cursor and the reload of the target.

### SafeProjectionWorker and EvidenceHandoff

Timestamps are ages: of a row since `updated_at`, of a batch since the `now` it took. Comparisons such
as `updated_at < now - stale_after` become comparisons of ages, no clock grows, and liveness can be
checked. Ages stop at `OldAge`, beyond which no comparison changes. `MaxDelay` bounds the time from the
start of a batch to its claim, after which its age matters only for what it writes back; a batch may
stay in its loop for any time. The page of a query is any `Limit` of its rows: the order the code asks
for is left open, which only adds behaviours. A row skipped by `SKIP LOCKED` is a row taken after the
transaction that holds it.

The payload contract and the provenance checks are inputs (`valid`, `Doubtful`). In the handoff the
values of a content or evidence row are named by the projection they came from, and `Init` allows any
rows the legacy write path may have left. Those carry the opaque form of an identity
(`provider-item:<sha256>`), the rows of the handoff the plain one: an identity is a pair of the item and
its form, the unique index compares both (`SameIdentity`), and `_evidence` looks up other raw items'
rows by the plain form only. All projections are of one operation of one provider, and
each raw item has at most one evidence row (`evidence_canonical_not_unique` is not reached). The
triggers of migrations 0009 and 0010 that check a link when it becomes LINKED are `AssociationGuard`,
`EvidenceAdoptionGuard` and `ContentAdoptionGuard`; a write they refuse rolls back and is retried.
Lock timeouts and other errors are `ItemFails`.

### NotificationOutbox

A reconciliation is one transaction, but PostgreSQL's READ COMMITTED gives each of its statements a
snapshot of its own, so the selections and the writes are two actions. A delivery claims a batch, and
each row is sent (`SendAccepted`, `SendRefused`, `SendLost`) and reported (`MarkSent`, `MarkFailed`) in
steps of its own. `chat` counts what Telegram really accepted. The cutover watermark is given as the
set `AfterCutover`; a missing credential or an authority that is not approved changes nothing and is
left out.

### DownstreamPersistence, BreadthWindows and BreadthPaging

`StoreItem` is one iteration of the loop of `persist_fetch_result`: the insert of the raw item or its
lookup, the choice of the observation kind from the newest earlier observation this transaction can
see, and the projection. `Waits` is PostgreSQL's wait of an insert for the open transaction that has
inserted the same unique key; two transactions that wait for each other deadlock and one is rolled
back. `CommitPage` writes the counters with the rows; `RefusePage`, `FailPage` and `AbortPage` roll
everything back. Payloads that normalize alike share a hash (`Normal`); those that break their
contract have none.

`BreadthWindows` is `resolve_window` in ticks, on configurations `validate_window` accepts. Hours,
days and months are scaled down, their relations and the order of truncation, clamping and overlap
kept; months have equal length. `BreadthPaging` is `_payloads` of the four kinds of operation over
items numbered by (published_at, id), with the caps of the decoder (`MaxPageNumber`, `MaxOffset`, as many
history files as a target may ask for): the page numbers of `news_all`, the last key of `company_news`,
the offsets of the EIA operations, the recent filings and history files of `submissions`. A provider
(external) lists an item from some request on, may list one twice, and may serve fewer rows than asked.
Rows are valid, refused by their contract, rejected by identity, or not traceable, which refuses the
page. The field rules themselves are data. What these two modules promise is evaluated in the initial
states of `downstream_persistence`.

### EventIntelligence

A session is the caller's transaction. `Process` reads the active links and the candidates and ranks
the match, `CreateOrGet` or `Associate` inserts, `Refresh` merges signatures and recounts; the implicit
flush before the count is where a session waits for another's row lock. `Deactivate` and `Regroup` are
the review operations. Hashes are modelled by what is hashed, URLs and titles by their canonical forms,
and the score by its formula over counts.

### LegacyCollection and LegacyTelegram

`LegacyCollection` is the authority "legacy" of one source: the dispatch of due targets with its slot
marker and backoff, `run_target` with one action per Redis command and transaction, the retry task
behind the release of the lock and its marker, and the recovery. A provider's items are numbered and a
cursor is the number of items behind it.

`LegacyTelegram` is the cycle of both legacy Telegram schedulers: the Redis cadence and retry context of
each provider, the runner as one action with the outcomes `LegacyCollection` gives it, the in-memory
sidecar, which keeps every item of the run that an adapter serves, also those served again, the evidence trigger, the visible content of a run, and the claims, sends and marks of
notifications. Whether an item's projection is safe, maps to an envelope or can be displayed is an
input (`Unsafe`, `Unmapped`, `Undisplayed`). Three counters record what went wrong: `faults` (a death, a
failed write, a lost answer), `delays` (a claim that grew stale under a live cycle) and `overruns` (a
cadence that ran out under the cycle that has its provider); `MaxFaults` bounds their sum.

## 3. Runs

| run | checks | shows |
|---|---|---|
| `collection_timely` | `OneWorkerPerRun`, `TerminalRunsStayTerminal`, `CursorNeverRegresses`, `FrozenWindowReused` | while live workers renew their lock in time, mutual exclusion and the promises of the cursor hold through crashes, retries and recovery |
| `collection_stalls` | `TypeOK`, `OneRunningPerTarget`, `RequestBudget`, `RunningIsCurrent`, `ContinuationBound` | these hold even when workers outlive their lock and come back late, while an operator revises, pauses and abandons |
| `safe_projection` | `VerdictIsSound`, `ImplementsBoundedWork`, `EveryProjectionEnds` | every projection gets a sound and final verdict within the attempt bound |
| `evidence_handoff` | `CanonicalLineage`, `WorkerAgreesWithGuards`, `FirstRowWins` | two revisions and another raw item of their identity race, with any legacy rows: one canonical link, one row per identity of one form, nothing overwritten, and no link the worker would write is refused by the triggers |
| `evidence_handoff_progress` | `EveryReadyProjectionEnds`, `ImplementsBoundedWork` | every READY projection is LINKED or BLOCKED, for good and within the attempt bound, although batches outlive their claims |
| `notification_stalls` | `OutboxIsSound`, `SkipsNeedAToggle`, `OutcomeIsFinal` | what holds when deliveries outlive their claims, reconcilers replay each other and the source changes |
| `notification_delivery` | `DuplicatesNeedAFault`, `EveryContentEnds` | no duplicate without a crash or a lost answer, if batches end in time; accepted content is notified and its notification ends |
| `event_intelligence` | `CountsDescribeMembership`, `OneActiveMembership`, `MatchesAreExplained`, `ReviewKeepsOrder` | concurrent merges keep counts and memberships right where the code can, and sequential review keeps every candidate consistent |
| `legacy_collection` | `StoredOnceUpToCursor`, `OnlyRecoveredRunsAreRejudged`, `LockKeptToTheEnd`, `EveryRunEnds` | the legacy runner stores each item once, although locks run out and the recovery races live workers; a worker loses its lock to time only, and every run ends |
| `legacy_telegram` | `RunShownWhole`, `SendsAreCounted`, `RetriesAreExclusive`, `SentIsFinal`, `EveryIntentSettles` | overlapping cycles of both schedulers, with a fault and a credential that comes and goes |
| `downstream_persistence` | `FirstSeenOnce`, `EveryFactIsIntroduced`, `CountersMatchRows`, `WindowsAdjoin`, `PagesCover` | pages of two targets that share items overlap, wait, deadlock and are rolled back and retried; and, over all small configurations and listings, windows leave no gap and pages leave nothing out |

`CanonicalLineage`, `OutboxIsSound`, `CountsDescribeMembership`, `StoredOnceUpToCursor`,
`SendsAreCounted` and `CountersMatchRows` each begin with the `TypeOK` of their module.

Some properties carry a condition, and the condition is where the code gives no more.
`SkipsNeedAToggle` is about a source that stays as it is, because a source disabled between the scan
and `_candidate` has valid content recorded as scanned, which no later scan revisits.
`DuplicatesNeedAFault` is checked where batches end within the ten minutes after which their rows may be
claimed again (`MaxBatch <= StaleAfter`), because a delivery does not look at a row again before it
sends it. `CountsDescribeMembership` and `OneActiveMembership` leave out evidence that two transactions
handled at a time, and `ReviewKeepsOrder` is about transactions that do not overlap.
`RetriesAreExclusive` is about cadences that do not run out under the cycle they were claimed for: nothing
renews a cadence, and a cycle that takes longer leaves its provider to the next. In `PagesCover` listings only grow: page
numbers and offsets miss an item when an earlier one is withdrawn between two requests. In
`WindowsAdjoin` runs start at most a lookback apart, which nothing in the configuration enforces.

### Where the code and its documents disagree

One run ends in a violation. `equal_answer_fails` (`EqualAnswerIsNoFailure`): SPEC-0041's implementation
document says "snapshot cursor: equal=`NO_NEW_ITEMS`", but for an equal answer of a single-request
target `replace()` keeps the factual projections, the result fails its own validation, and the run ends
FAILED.

The following were met while modelling and have no run; the passing properties are stated so that they
hold with them.

- `_finish_error` writes RUNNING over a run the recovery has failed, when its worker outlived its lock
  ("A terminal FAILED run is never reopened").
- With no cursor value to snapshot, `_persist_result` skips the comparison and a late first page puts
  the cursor back ("strict cursor advances only to candidate>current").
- A single-request target whose answer has more leaves a pending continuation bound to no run, which the
  operator can neither resume nor abandon (`DATA_MODEL.md`: a pending continuation binds a run).
- A link recovered and claimed again between two steps of a batch is blocked by that batch's
  `_terminal`, where the comment in `_link_one` promises "a bounded, value-free retry".
- `_evidence` looks for other raw items' rows by the plain identity or the projection hash, and legacy
  rows have opaque identities. Two raw items of one identity, of which one has a legacy row, therefore
  end with two evidence rows, one in each form; of two that have none, the second is blocked.
- `recover_stale_target_runs` looks for the marker of the dispatch that created the run, and not for
  that of a claimed retry, where SPEC-0041 asks for "no live retry marker".
- A raw item is unique per source, but the observation trigger asks for the same account: an item another
  account has stored makes every page that contains it fail. FIRST_SEEN is not always the earliest
  `created_at`, which is the start of a transaction, and an item the legacy runner stored is first
  observed as REVISION_CANDIDATE.
- Two sessions that process the same evidence at a time may make two candidates of it (SPEC-0039:
  identical inputs resolve to the same candidate), and counts may lag behind a concurrent removal.
- The legacy runner never resets `consecutive_failures` of account targets (SPEC-0003), its recovery
  writes FAILED for runs that have stored items, and a retry that finds the lock held is not sent again.
- In the legacy Telegram cycles an exhausted run keeps a retryable code and is retried on (SPEC-0038);
  items stored by an earlier attempt are never filed, because the sidecar is in memory; a cycle that
  dies between the content commit and the claim, or a run with more items than the feed limit, leaves
  items that are never announced; and a retry sets no marker, so that the stale-run recovery can fail a
  run that is waiting. A late FAILED mark over another cycle's claim has a delivered item sent again.
  A cycle that outlives its cadence can execute a run again that another cycle has since ended.

### Bounds

Every bound is a constant named `Max...`. The control plane runs one target (targets share only the
cool-down), two workers (every race needs two) and two runs (an old and a new one), and enough time for
a lock to expire, a retry to fall due and a cadence slot to pass. `collection_timely` has two pages;
`collection_stalls` has a second revision and gets by with one page and one request. Projections, links
and notifications: two rows, pages of two so that a batch holds several rows, two attempts so that
there is a first and a last one, two processes, and enough crashes to spend the attempts where progress
is at stake. `StaleAfter = 1` lets a claim be fresh, due and stale. `evidence_handoff` has a third row,
of another raw item with the same identity, and gets by with one attempt and no crash: a batch that
stalls for good does what a dead one does; `evidence_handoff_progress` follows one projection through
two attempts, which is enough for `ImplementsBoundedWork` too, a statement about each projection by
itself; the theorem `Refinement` is about any number of them. Symmetry is over worker processes,
sessions or continuation keys, in runs without liveness properties.

Events: three evidence items that meet by URL, title and entity in pairs, two sessions and five calls,
which fit a merge, a removal, a regroup and two repeats. Legacy collection: two runs of one account, one
retry and one fault. Legacy Telegram: one provider with two items, one of which does not map, one cycle
of each kind, one fault and one change of the credential. Downstream: two targets of one account, one
paged, with three pages over two items and a legacy row under this or another account; four payloads,
two of which normalize alike and one of which is invalid. Windows: hours of two ticks, days of two
hours, months of two days, ceilings of three periods, so that starts, lags and watermarks fall inside
and between periods. Paging: four items that appear by the third request, pages of one or two, page
numbers and offsets up to three, so that the caps are met, one history file allowed.

Larger instances that also pass but take too long for every change: `LegacyTelegram` with a third item
that neither maps nor can be displayed (929 thousand states), and, for `RetriesAreExclusive`, with
three cycles one of which is the Marketaux one, and with two runs without items; `DownstreamPersistence` with `MaxRuns = 2`; `BreadthPaging` with pages of three.

### Fairness

`Tick`: time passes. The start of a batch, on some process: beat sends each task again and again on a
fixed schedule (`tasks/celery_app.py`), whatever happened to earlier ones. The steps of a batch that
has started: asyncio runs it on, and database and HTTP calls have timeouts. Nothing is assumed of
crashes, errors, lost answers, operators or new rows. For the legacy runner: a waiting task is taken,
and beat runs the recovery again and again; for the legacy cycles: beat sends the multi-provider cycle
(the Marketaux cycle is in no schedule, so nothing is assumed of its start) and claims grow stale.
Crashes are bounded by `MaxCrashes`: with
endlessly many no worker would get anywhere, and a delivery that always dies between the claim and the
answer is retried without end, because only `_fail` counts an attempt. The control plane's runs check
safety only: its clock is bounded.

## 4. Proofs

TLAPS proves, for every value of the constants that satisfies the named assumptions, all safety
properties and both refinements that the runs check, except those listed at the end of this section.

- `CollectionControlPlaneProofs`: `TypeCorrect`, `AtMostOneRunning`, `RunningRunsAreCurrent`,
  `PendingContinuationsAreBound`. None of them is inductive alone. The invariant `Inv` adds, for each
  worker (`WorkerOK`), what its program counter says of the tables: past `_start_run` it has a run of
  its dispatch's target and revision, past `_resolved_run_config` the run has a window; and that a
  frozen window carries its own revision's config (`RunsOK`). A worker that writes RUNNING late can do
  so only if its revision is the target's and the unique index lets it.
- In the same module, about executions: `RequestsAreBudgeted` holds with stalls. `BudgetInv` counts what a run has
  persisted and what its workers have in flight; a request is counted in a transaction of its own
  before it is sent, so a late worker can only have been counted already. `RunsAreExclusive`,
  `EndedRunsStayEnded`, `CursorsOnlyAdvance` and `WindowsAreReused` are about `~Stalls`, where a live
  worker renews its lock before it expires, as `_maintain_lock` does every third of its TTL. Their
  invariant `TimelyInv` says that a lock with an owner has not run out (`LocksLive`), that a worker past
  `AcquireLock` owns its target's lock, that its run is RUNNING and that the cursor row is as it read it
  (`Holds`), and that single-request targets have no pages (`UnpagedBare`). Recovery leaves a run alone
  whose lock is held, so an ended run has no worker left that would write to it.
- `SafeProjectionWorkerProofs`: `TypeCorrect`, `VerdictsAreSound` and `Refinement`. `_claim` never
  looks at `attempt_count`, so the bound needs an invariant: a row that is waiting has an attempt left.
  Each row takes one step of `BoundedWork` or none in every step of the worker.
- `EvidenceHandoffProofs`: `LineageIsCanonical`, `ChecksImplyGuards`, `FirstRowsWin`, `Refinement`. `Inv`
  adds that a linked row names content and evidence that exist and agree with it (`Lineage`), that an
  identity has one evidence row in each form (`OneRowPerIdentity`; a new row is a plain one, and
  `_evidence` has looked for plain ones), and that only READY projections have links
  (`Discovered`). The looks before the locks play no part in the argument: what `_link_one` rereads
  under its locks decides.
- `NotificationOutboxProofs`: `OutboxSound`, `OutcomesAreFinal`, `NoIntentIsLost`,
  `DuplicatesAreFaults`. The first two add that a delivery about to write SENT has put its message in
  the chat, whoever holds the row by then. `IntentsInv` follows a selection from its snapshot to its
  write: it exists, and no source is disabled without a toggle. `DuplicatesAreFaults` assumes
  `MaxBatch <= StaleAfter` (a batch of twenty sends ends within the ten minutes); then a claim has one owner (`ClaimsInv`), and `ChatInv` charges every
  message beyond a row's own to a crash or a lost answer.
- `DownstreamPersistenceProofs`: `FirstSeenIsUnique`, `FactsAreIntroduced`, `CountersAgree`. `Inv` says of
  every open transaction (`PageInv`) what it has inserted, that no other has inserted the same unique
  key (that one would wait), and that its counters are those of its rows. That the facts of every
  duplicate were introduced by an earlier row goes by the order of rows, which is well-founded.
- In the same module, about windows: `EveryWindowIsValid` and `EveryWindowAdjoins` are about
  `ResolveWindow` alone, at every two instants and with every accepted configuration, whatever the lengths
  of hour, day and month; the first for every watermark, the second for those up to the last instant an
  item of the first window can have (`LastWatermark`: the daily operations accept its whole last day). Both go by how `Floor` rounds: down, by less than a
  period, and monotonically. `WindowsAlwaysAdjoin` is the property of the run, which follows.
- `EventIntelligenceProofs`: `TypeCorrect`, `EvidenceIsInOneCandidate`, `MatchesHaveReasons`,
  `ReviewIsOrderly`, `CountsAreMembership`, from four invariants. `OneInv`: evidence that no two calls
  have handled at a time is seen in one candidate by everyone, and by the call that handles it in none
  but the one it has chosen. `RowsInv`: a row, committed or in the copy of a session, holds no
  signature, title, entity or time that linked evidence has not brought; so a match found in a stale
  copy is still explained by links. `OrderInv`: a single transaction leaves the rows it has copied with
  the counts of what it sees. `CountsInv`: a session that has counted the members of a candidate holds
  its row lock, because its evidence is new there and so its hash changes the row before the count;
  hence nobody links evidence to that candidate before it commits. What a session read has the counts
  of fewer members than there are now, so that a column it does not write, because its value is the one
  it read, is right as it stands in the table (`WrittenCounts`).
- `LegacyTelegramProofs`: `TypeCorrect`, `SendsHaveAttempts`, `SentStaysSent`, `RunsAreShownWhole`,
  `OneOwnerPerRun`. `MessagesInv` ties what reached the chat to the counts of a row and to the cycles on
  their way with it. `ShownInv`: what an earlier attempt has stored is not in the sidecar of the process
  that ends the run, and such a run is not shown at all. `OneOwnerPerRun`: as long as `overruns` is 0 the
  cadence is the lock of a provider's runs (`OwnersInv`, `HoldersInv`), and the retry context hands a run
  from one owner to the next (`TokensInv`, `ContextInv`); a cycle that has read the context and not yet
  set the cadence loses the race before its copy can be stale (`LiveInv`, `WorkInv`).
- `LegacyCollectionProofs`: `ItemsAreStoredOnce`, `RecoveredRunsOnly`, `LocksEndWithTime`,
  `ExecutionsExclude`. `StorageInv` adds to `StoredOnceUpToCursor` that a run that is not there has
  counted nothing, and that a batch ends where its worker's request may go (`WorkerOK`); the lock plays
  no part in it, for the cursor compared in the transaction of the checkpoint is enough. `OneChain`: a
  run is in the hands of one worker or of one waiting retry. `ChainsOpen`: what they hold has not ended,
  unless the recovery ended it; so whoever judges an ended run judges a recovered one. `LocksInv`: a lock
  with an owner is there and its owner executes its target (`LocksOwned`), and the workers that execute
  without their lock are as many as faults at most (`OrphansCounted`). A step other than the clock's makes
  no new one (`NoNewOrphan`), which is `LockKeptToTheEnd`; and a target has at most `1 + faults`
  executions at a time (`OverlapsAreFaults`), one if nothing died or stalled.

The assumptions are on constants only: sets of model values are disjoint from their markers, the accounts
of a legacy source are finitely many, bounds
are natural numbers (positive where the code validates them), and TTLs are ordered as the code computes
them. TLC evaluates them in every run.

Only model-checked: the liveness properties (fairness is beyond the prover), `PagesCover`, which is about
sequences of requests that only induction over them could reach, and the violation
`EqualAnswerIsNoFailure`.

## 5. Plan

What would come next: the cutover between the legacy cycles and the outbox, with its watermark, its
authority gate and content that commits around it; and persistence, projection and handoff composed
into one pipeline.

## 6. Not modelled

Provider HTTP clients and parsers, the queries of the feeds, the API, configuration, sessions and logging (I/O and
wiring); payload contracts, provider mappings and rich-evidence builders (pure validation and
construction, inputs of the models); DDL of the migrations except the guards named above; preflight,
cutover and other one-shot command-line tools; the manual push.
