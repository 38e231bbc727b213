----------------------- MODULE DownstreamPersistence -----------------------
(***************************************************************************)
(* collection/downstream.py: the transaction in which the control plane    *)
(* stores one fetched page, for the targets of one source.  Every item of  *)
(* the page becomes a raw item (once per source), an observation of that   *)
(* raw item by this run and page, and a PENDING safe-fact projection; the  *)
(* run's counters are written with them, all or nothing.                   *)
(*                                                                         *)
(* The row locks on the target and the run (control_plane._persist_result) *)
(* keep the pages of a target apart, so a target has one open transaction. *)
(* Pages of different targets interleave item by item at READ COMMITTED:   *)
(* the insert of a raw item waits for an open transaction that has         *)
(* inserted the same one.  A step of this module is one item.              *)
(***************************************************************************)
EXTENDS Naturals, FiniteSets

CONSTANTS
    Targets,        \* the collection targets of one source
    Paged,          \* those with the bounded_window_v1 capability
    Account,        \* the source_account_id of each target
    Items,          \* provider identities within the source
    Legacy,         \* those the legacy runner may have stored, without observations
    LegacyAccounts, \* the accounts it may have stored them under
    Payloads,       \* what a provider may send as the facts of an item
    Normal,         \* the normalized facts of a payload, or Invalid
    Invalid,
    Keys,           \* hashes of the continuations a page can be asked with
    Nothing,        \* no target, key or entry
    MaxRuns,        \* runs of a target
    MaxPages,       \* pages fetched altogether
    PageSize        \* batch_limit

ASSUME DownstreamAssumption ==
    /\ Paged \subseteq Targets
    /\ Legacy \subseteq Items
    /\ Normal \in [Payloads -> Payloads \cup {Invalid}]
    /\ Invalid \notin Payloads
    /\ Nothing \notin Targets \cup Keys \cup Items \cup Payloads
    /\ {MaxRuns, MaxPages, PageSize} \subseteq Nat \ {0}

VARIABLES
    raw,        \* raw_items: who stored each item
    obs,        \* raw_item_observations
    proj,       \* safe_fact_projections
    runs,       \* collection_runs: status and counters of each run
    current,    \* the latest run of each target, 0 before the first
    page,       \* the open transaction of each target
    begun       \* transactions begun so far: created_at is the start of its transaction

vars == <<raw, obs, proj, runs, current, page, begun>>

Kinds == {"first_seen", "duplicate_same_projection", "revision_candidate"}

RunIds == Targets \X (1 .. MaxRuns)

NoRun == <<Nothing, 0>>

Accounts == {Account[t] : t \in Targets} \cup LegacyAccounts

RawRow == [stored : BOOLEAN, run : RunIds \cup {NoRun}, account : Accounts \cup {Nothing}]

Absent == [stored |-> FALSE, run |-> NoRun, account |-> Nothing]

LegacyRow(account) == [stored |-> TRUE, run |-> NoRun, account |-> account]

\* An observation; its identity is the run, the item and the observation key.
Observation ==
    [run : RunIds, item : Items, key : Keys \cup {"run"}, hash : Payloads, kind : Kinds, created : 1 .. MaxPages]

Projection == [run : RunIds, item : Items, key : Keys \cup {"run"}, hash : Payloads]

Entry == [item : Items, payload : Payloads]

NoEntry == [item |-> Nothing, payload |-> Nothing]

Run == [status : {"none", "running", "ended"}, fetched : Nat, new : Nat, duplicates : Nat, pages : Nat]

NewRun == [status |-> "none", fetched |-> 0, new |-> 0, duplicates |-> 0, pages |-> 0]

\* The rows a transaction has written and not committed, and the item it is at.
Page == [open : BOOLEAN, key : Keys \cup {"run", Nothing}, created : 0 .. MaxPages,
         head : Entry \cup {NoEntry}, stored : SUBSET Items, obs : SUBSET Observation,
         proj : SUBSET Projection, fetched : Nat, new : Nat]

\* The key of the page before is kept: it tells the next continuation apart.
Closed(key) == [open |-> FALSE, key |-> key, created |-> 0, head |-> NoEntry, stored |-> {},
                obs |-> {}, proj |-> {}, fetched |-> 0, new |-> 0]

TypeOK ==
    /\ raw \in [Items -> RawRow]
    /\ obs \subseteq Observation
    /\ proj \subseteq Projection
    /\ runs \in [RunIds -> Run]
    /\ current \in [Targets -> 0 .. MaxRuns]
    /\ page \in [Targets -> Page]
    /\ begun \in 0 .. MaxPages

Init ==
    /\ raw \in {f \in [Items -> {Absent} \cup {LegacyRow(x) : x \in LegacyAccounts}] :
                  \A i \in Items \ Legacy : f[i] = Absent}
    /\ obs = {}
    /\ proj = {}
    /\ runs = [r \in RunIds |-> NewRun]
    /\ current = [t \in Targets |-> 0]
    /\ page = [t \in Targets |-> Closed(Nothing)]
    /\ begun = 0

RunOf(t) == <<t, current[t]>>

Running(t) == current[t] # 0 /\ runs[RunOf(t)].status = "running"

-----------------------------------------------------------------------------
(* The control plane around the transaction.                               *)

\* _start_run, without a run to adopt.
StartRun(t) ==
    /\ ~Running(t)
    /\ current[t] < MaxRuns
    /\ current' = [current EXCEPT ![t] = @ + 1]
    /\ runs' = [runs EXCEPT ![<<t, current[t] + 1>>].status = "running"]
    /\ page' = [page EXCEPT ![t] = Closed(Nothing)]
    /\ UNCHANGED <<raw, obs, proj, begun>>

\* A page is fetched and its transaction begins.  The key of a page is the hash of the
\* continuation it was asked with: a page that repeats the continuation just asked is
\* refused before this point, an earlier one is not.  A single request has the key "run".
BeginPage(t, key) ==
    /\ Running(t)
    /\ ~page[t].open
    /\ begun < MaxPages
    /\ IF t \in Paged THEN key \in Keys \ {page[t].key} ELSE key = "run"
    /\ page' = [page EXCEPT ![t] = [Closed(key) EXCEPT !.open = TRUE, !.created = begun + 1]]
    /\ begun' = begun + 1
    /\ UNCHANGED <<raw, obs, proj, runs, current>>

-----------------------------------------------------------------------------
(* persist_fetch_result.                                                   *)

\* The loop over the items; what the provider answered is revealed item by item.
NextItem(t, entry) ==
    /\ page[t].open
    /\ page[t].head = NoEntry
    /\ page[t].fetched < PageSize
    /\ page' = [page EXCEPT ![t].head = entry]
    /\ UNCHANGED <<raw, obs, proj, runs, current, begun>>

\* The typed contracts of the six operations: a field missing or added, an identity that
\* does not follow from its parts, a malformed value or a secret marker is rejected.
Rejected(payload) == Normal[payload] = Invalid

\* normalize_and_classify_factual_payload and canonical_projection_hash: payloads that
\* normalize to the same facts have the same hash.
Hash(payload) == Normal[payload]

\* Mutant of Waits: the insert does not see the row of another open transaction.
Waits_Never(t, u) == FALSE

\* The insert of the raw item at hand waits for the transaction that inserted it.
Waits(t, u) ==
    /\ t # u
    /\ page[t].open
    /\ page[t].head # NoEntry
    /\ page[t].head.item \in page[u].stored

\* PostgreSQL finds a cycle of waiting transactions, as when two pages store the same
\* items in opposite order.
Deadlocked(t) ==
    \E S \in SUBSET Targets :
        /\ t \in S
        /\ \A v \in S : \E u \in S : Waits(v, u)
        /\ \A u \in S : \E v \in S : Waits(v, u)

\* _raw_item: ON CONFLICT DO NOTHING on the source's unique index.
Inserts(t, i) == ~raw[i].stored /\ i \notin page[t].stored

\* The raw item's account, whoever stored it.
AccountOf(t, i) == IF raw[i].stored THEN raw[i].account ELSE Account[t]

\* The observations of the item this transaction sees: committed ones and its own.
Visible(t, i) == {o \in obs \cup page[t].obs : o.item = i}

\* previous_hash: the observation of the transaction that began last.
Previous(t, i) ==
    CHOOSE o \in Visible(t, i) : \A p \in Visible(t, i) : p.created <= o.created

\* Mutant of KindOf: the previous hash is not compared.
KindOf_NotCompared(t, i, hash) ==
    IF Inserts(t, i) THEN "first_seen" ELSE "duplicate_same_projection"

KindOf(t, i, hash) ==
    IF Inserts(t, i) THEN "first_seen"
    ELSE IF Visible(t, i) # {} /\ Previous(t, i).hash = hash THEN "duplicate_same_projection"
    ELSE "revision_candidate"

\* The observation of this run, item and key, if it is there: an item that comes twice
\* in a page, or again in a page with the same key.
Existing(t, i) == {o \in Visible(t, i) : o.run = RunOf(t) /\ o.key = page[t].key}

\* ValueErrors and RuntimeErrors of the transaction: a payload against its contract, or
\* an observation that is there with another hash.
ContractError(t) ==
    LET e == page[t].head IN
    \/ Rejected(e.payload)
    \/ \E o \in Existing(t, e.item) : o.hash # Hash(e.payload)

\* The trigger on observations raises a database error: the raw item was stored under
\* another account of the source.
ProvenanceError(t) == AccountOf(t, page[t].head.item) # Account[t]

\* _observation: a new row, or none when this run, item and key have one.
ObservationsOf(t, i, hash) ==
    IF Existing(t, i) # {} THEN {}
    ELSE {[run |-> RunOf(t), item |-> i, key |-> page[t].key, hash |-> hash,
           kind |-> KindOf(t, i, hash), created |-> page[t].created]}

\* _projection: one of schema version 1 for each observation.
ProjectionsOf(t, i, hash) ==
    {p \in {[run |-> RunOf(t), item |-> i, key |-> page[t].key, hash |-> hash]} :
        \A q \in proj \cup page[t].proj : <<q.run, q.item, q.key>> # <<p.run, p.item, p.key>>}

\* One item: raw item, observation and projection, or what is there of them.
StoreItem(t) ==
    LET p == page[t]
        i == p.head.item
        hash == Hash(p.head.payload)
    IN
    /\ p.open
    /\ p.head # NoEntry
    /\ \A u \in Targets : ~Waits(t, u)
    /\ ~ContractError(t)
    /\ ~ProvenanceError(t)
    /\ page' = [page EXCEPT ![t] =
                  [p EXCEPT !.head = NoEntry,
                            !.fetched = @ + 1,
                            !.new = IF Inserts(t, i) THEN @ + 1 ELSE @,
                            !.stored = IF Inserts(t, i) THEN @ \cup {i} ELSE @,
                            !.obs = @ \cup ObservationsOf(t, i, hash),
                            !.proj = @ \cup ProjectionsOf(t, i, hash)]]
    /\ UNCHANGED <<raw, obs, proj, runs, current, begun>>

\* Mutant of Counted: the counters of a paged run start again with every page.
Counted_NotAdded(t, run) ==
    [run EXCEPT !.fetched = page[t].fetched, !.new = page[t].new,
                !.duplicates = page[t].fetched - page[t].new]

\* The counters _persist_result writes: added up over the pages of a paged run.
Counted(t, run) ==
    IF t \in Paged
    THEN [run EXCEPT !.fetched = @ + page[t].fetched, !.new = @ + page[t].new,
                     !.duplicates = @ + (page[t].fetched - page[t].new), !.pages = @ + 1]
    ELSE [run EXCEPT !.fetched = page[t].fetched, !.new = page[t].new,
                     !.duplicates = page[t].fetched - page[t].new]

\* The items are stored: the transaction commits, the run goes on or ends with it.
CommitPage(t) ==
    /\ page[t].open
    /\ page[t].head = NoEntry
    /\ raw' = [i \in Items |-> IF i \in page[t].stored
                               THEN [stored |-> TRUE, run |-> RunOf(t), account |-> Account[t]]
                               ELSE raw[i]]
    /\ obs' = obs \cup page[t].obs
    /\ proj' = proj \cup page[t].proj
    /\ \E status \in IF t \in Paged THEN {"running", "ended"} ELSE {"ended"} :
          runs' = [runs EXCEPT ![RunOf(t)] = [Counted(t, @) EXCEPT !.status = status]]
    /\ page' = [page EXCEPT ![t] = Closed(@.key)]
    /\ UNCHANGED <<current, begun>>

\* Nothing of the page is left, and a retry may ask for any page again.
RolledBack(t) ==
    /\ page' = [page EXCEPT ![t] = Closed(Nothing)]
    /\ UNCHANGED <<raw, obs, proj, current, begun>>

\* Not retryable: _finish_error ends the run.
RefusePage(t) ==
    /\ page[t].open
    /\ page[t].head # NoEntry
    /\ ContractError(t)
    /\ RolledBack(t)
    /\ runs' = [runs EXCEPT ![RunOf(t)].status = "ended"]

\* A database error: the trigger's, a deadlock's victim, or any other, the death of the
\* worker included.  The run is retried, or ends with its retries spent or by the recovery.
FailPage(t) ==
    /\ page[t].open
    /\ RolledBack(t)
    /\ \E status \in {"running", "ended"} : runs' = [runs EXCEPT ![RunOf(t)].status = status]

\* What PostgreSQL itself ends: nobody has to fail for it.
AbortPage(t) ==
    /\ page[t].head # NoEntry
    /\ Deadlocked(t) \/ ((\A u \in Targets : ~Waits(t, u)) /\ ProvenanceError(t))
    /\ FailPage(t)

PersistPage(t) ==
    \/ StoreItem(t)
    \/ CommitPage(t)
    \/ RefusePage(t)
    \/ AbortPage(t)

\* The pages or the runs of the bounds are spent, and nothing is open.
Horizon ==
    /\ begun = MaxPages \/ \A t \in Targets : current[t] = MaxRuns /\ ~Running(t)
    /\ \A t \in Targets : ~page[t].open
    /\ UNCHANGED vars

Next ==
    \/ \E t \in Targets :
          \/ StartRun(t)
          \/ \E key \in Keys \cup {"run"} : BeginPage(t, key)
          \/ \E entry \in Entry : NextItem(t, entry)
          \/ PersistPage(t)
          \/ FailPage(t)
    \/ Horizon

Spec == Init /\ [][Next]_vars

-----------------------------------------------------------------------------
(* Properties.                                                             *)

\* Whatever pages of different targets overlap, wait for each other or are rolled back,
\* a raw item the control plane stored has exactly one FIRST_SEEN observation, made by
\* the run that stored it, and no other item has one.
FirstSeenOnce ==
    \A i \in Items :
        LET firsts == {o \in obs : o.item = i /\ o.kind = "first_seen"}
        IN  /\ {o.run : o \in firsts} = {raw[i].run} \ {NoRun}
            /\ Cardinality(firsts) <= 1

\* Facts are never hidden as a duplicate: the first observation of an item with given
\* facts to be committed says so, as FIRST_SEEN or REVISION_CANDIDATE, although the
\* previous hash is read without a lock and its order is that of the transactions'
\* beginnings.
EveryFactIsIntroduced ==
    \A o \in obs :
        \E p \in obs : p.item = o.item /\ p.hash = o.hash /\ p.kind # "duplicate_same_projection"

\* The counters of a run are what the tables say after any mix of commits, rollbacks and
\* retries: its new items are the raw items it stored, an observation and a projection
\* are there for what it counted, and fewer only where an item came again under a key.
CountersMatchRows ==
    /\ TypeOK
    /\ \A r \in RunIds :
          LET own == {o \in obs : o.run = r}
          IN  /\ Cardinality({p \in proj : p.run = r}) = Cardinality(own)
              /\ runs[r].new = Cardinality({i \in Items : raw[i].run = r})
              /\ runs[r].new + runs[r].duplicates = runs[r].fetched
              /\ Cardinality(own) <= runs[r].fetched
              /\ (runs[r].fetched > 0) = (own # {})

=============================================================================
