------------------------- MODULE EventIntelligence -------------------------
(***************************************************************************)
(* Event candidates (event_intelligence/service.py, matching.py,           *)
(* scoring.py and migration 0005): evidence is grouped into candidates by   *)
(* deterministic matching, and reviewers take it out or move it.            *)
(*                                                                         *)
(* Every call runs in a transaction of its caller, at READ COMMITTED.  Each *)
(* statement that others can interleave with is an action.  A session works *)
(* on the rows as it first read them; a flush writes the columns it changed *)
(* and holds the row's lock until the transaction ends.  A flush, insert or *)
(* update that has to wait for another transaction is not enabled.  Calls   *)
(* that only read and return, or raise before they write, are left out.     *)
(*                                                                         *)
(* A hash is what is hashed.  provider_item_hash is unique to an evidence   *)
(* item, so it is the item.  All evidence is of one provider.  Columns that *)
(* nothing reads back (assets, topics, the summary) are left out.           *)
(***************************************************************************)
EXTENDS Naturals, FiniteSets

CONSTANTS
    Evidence,      \* evidence_items
    Facts,         \* what load_evidence_projection returns for each
    Canonical,     \* canonicalize_url: a canonical URL, or None
    Fingerprint,   \* title_fingerprint: a fingerprint, or None
    None,          \* NULL
    Window,        \* twenty-four hours
    Sessions,      \* callers with a transaction each
    MaxCalls       \* bound on the calls that write

ASSUME EventAssumption ==
    /\ IsFiniteSet(Evidence) /\ None \notin Evidence
    /\ \A e \in Evidence : DOMAIN Facts[e] =
          {"official", "id", "url", "title", "entities", "time", "source"}
    /\ \A e \in Evidence :
          /\ Facts[e].official \in BOOLEAN
          /\ Facts[e].url \in DOMAIN Canonical
          /\ Facts[e].title \in DOMAIN Fingerprint
          /\ IsFiniteSet(Facts[e].entities)
          /\ Facts[e].time \in Nat
    /\ Window \in Nat \ {0}
    /\ MaxCalls \in Nat

VARIABLES
    candidates,   \* event_candidates, by cluster key
    links,        \* event_candidate_evidence
    session,      \* the transaction of each session
    calls,        \* calls begun
    overlapped,   \* whether two transactions have been open at a time
    contended     \* evidence that two transactions have handled at a time

history == <<calls, overlapped, contended>>
vars == <<candidates, links, session, calls, overlapped, contended>>

-----------------------------------------------------------------------------
(* Matching.                                                               *)

Url(e) == Canonical[Facts[e].url]

Title(e) == Fingerprint[Facts[e].title]

\* evidence_signatures
EvidenceSignatures == [e \in Evidence |->
    LET f == Facts[e] IN
    (IF f.official /\ f.id # None THEN {<<"official", f.id>>} ELSE {}) \cup
    (IF Url(e) # None THEN {<<"url", Url(e)>>} ELSE {}) \cup
    (IF f.id # None THEN {<<"provider", f.id>>} ELSE {}) \cup
    {<<"hash", e>>}]

Signatures(e) == EvidenceSignatures[e]

Kinds(signatures) == {s[1] : s \in signatures}

\* derive_anchor: the best signature of the evidence, or its entities, title and day
\* when it has no better one than its hash.
Anchor(e) ==
    LET sig == Signatures(e)
        first == CHOOSE k \in Kinds(sig) :
                    \A other \in Kinds(sig) :
                        LET rank == [official |-> 1, url |-> 2, provider |-> 3, hash |-> 4] IN
                        rank[k] <= rank[other]
    IN  IF first = "hash" /\ Facts[e].entities # {} /\ Title(e) # None
        THEN <<"entity_title_time", <<Facts[e].entities, Title(e), Facts[e].time \div Window>>>>
        ELSE CHOOSE s \in sig : s[1] = first

AmbiguousAnchor(e) == <<"ambiguous_evidence", e>>

Keys == {Anchor(e) : e \in Evidence} \cup {AmbiguousAnchor(e) : e \in Evidence}

ASSUME KeyAssumption == None \notin Keys

\* Mutant of SameStory: the entities are not compared.
SameStory_AnyEntity(e, c) ==
    /\ Title(e) \in c.titles
    /\ Facts[e].time + Window >= c.first
    /\ Facts[e].time <= c.latest + Window

\* The entity_title_time rule.
SameStory(e, c) ==
    /\ Title(e) \in c.titles
    /\ Facts[e].entities \cap c.entities # {}
    /\ Facts[e].time + Window >= c.first
    /\ Facts[e].time <= c.latest + Window

Rules == <<"official_identity", "canonical_url", "provider_external_id", "entity_title_time",
           "approved_hash">>

\* The rank of the rule by which evidence e matches candidate c, 6 if none does.
Rank(e, c) ==
    LET shared == Kinds(Signatures(e) \cap c.signatures) IN
    CASE "official" \in shared -> 1
      [] "official" \notin shared /\ "url" \in shared -> 2
      [] shared \cap {"official", "url"} = {} /\ "provider" \in shared -> 3
      [] shared \subseteq {"hash"} /\ SameStory(e, c) -> 4
      [] shared = {"hash"} /\ ~SameStory(e, c) -> 5
      [] OTHER -> 6

-----------------------------------------------------------------------------
(* Rows and sessions.                                                      *)

\* Importance from the active evidence alone: no source has a priority.
Score(official, evidence, sources, entities) ==
    LET atMost(cap, x) == IF x > cap THEN cap ELSE x IN
    IF evidence = 0 THEN 0
    ELSE atMost(100, 10 + (IF official THEN 30 ELSE 0) + atMost(20, (sources - 1) * 10)
                        + (IF sources > 1 THEN 15 ELSE 0) + atMost(15, entities * 5))

\* _recalculate_aggregates over the active evidence of a candidate.
Aggregates(row, active) ==
    LET sources == Cardinality({Facts[e].source : e \in active}) IN
    [row EXCEPT !.count = Cardinality(active),
                !.sources = sources,
                !.status = IF active = {} THEN "rejected"
                           ELSE IF @ = "rejected" THEN "candidate" ELSE @,
                !.score = Score(\E e \in active : Facts[e].official, Cardinality(active), sources,
                                Cardinality(UNION {Facts[e].entities : e \in active}))]

NoRow == [signatures |-> {}, titles |-> {}, entities |-> {}, first |-> 0, latest |-> 0,
          count |-> 0, sources |-> 0, status |-> "absent", score |-> 0]

\* The candidate _create_or_get adds.
NewRow(e) ==
    [signatures |-> Signatures(e), titles |-> {Title(e)} \ {None}, entities |-> Facts[e].entities,
     first |-> Facts[e].time, latest |-> Facts[e].time, count |-> 1, sources |-> 1,
     status |-> "candidate", score |-> Score(Facts[e].official, 1, 1, Cardinality(Facts[e].entities))]

\* _refresh_candidate up to the aggregates.
Merged(row, e) ==
    [row EXCEPT !.signatures = @ \cup Signatures(e),
                !.titles = @ \cup ({Title(e)} \ {None}),
                !.entities = @ \cup Facts[e].entities,
                !.first = IF Facts[e].time < @ THEN Facts[e].time ELSE @,
                !.latest = IF Facts[e].time > @ THEN Facts[e].time ELSE @]

Link == [cand : Keys, ev : Evidence, rule : {Rules[i] : i \in 1..5} \cup
                {"new_candidate", "ambiguous_new_candidate", "reviewed_regroup"}, active : BOOLEAN]

Rows == [signatures : SUBSET UNION {Signatures(e) : e \in Evidence},
         titles : SUBSET {Title(e) : e \in Evidence},
         entities : SUBSET UNION {Facts[e].entities : e \in Evidence},
         first : Nat, latest : Nat, count : Nat, sources : Nat,
         status : {"absent", "candidate", "rejected"}, score : 0..100]

\* A session without a transaction.  base and mine: the candidates as it read them and
\* as it has changed them; on, off: links it has inserted and deactivated.
NoSession == [pc |-> "idle", ev |-> None, cand |-> None, to |-> None, rule |-> None,
              base |-> [k \in Keys |-> NoRow], mine |-> [k \in Keys |-> NoRow],
              new |-> {}, locks |-> {}, on |-> {}, off |-> {}]

PCs == {"idle", "match", "create", "associate", "link", "refresh", "off", "commit"}

\* Every row and every session has the type of what it models.
TypeOK ==
    /\ \A k \in Keys : candidates[k] \in Rows
    /\ links \subseteq Link
    /\ \A s \in Sessions :
          /\ session[s].pc \in PCs
          /\ \A k \in Keys : session[s].mine[k] \in Rows
          /\ session[s].on \subseteq Link
    /\ calls \in Nat /\ overlapped \in BOOLEAN /\ contended \subseteq Evidence

Init ==
    /\ candidates = [k \in Keys |-> NoRow]
    /\ links = {}
    /\ session = [s \in Sessions |-> NoSession]
    /\ calls = 0
    /\ overlapped = FALSE
    /\ contended = {}

-----------------------------------------------------------------------------
(* What a statement of a session sees and waits for.                       *)

Others(s) == Sessions \ {s}

\* The active links as session s sees them: committed ones and its own.
Visible(s) == {l \in links : l.active /\ <<l.cand, l.ev>> \notin session[s].off} \cup session[s].on

ActiveIn(s, k) == {l.ev : l \in {l \in Visible(s) : l.cand = k}}

CandidatesOf(s, e) == {l.cand : l \in {l \in Visible(s) : l.ev = e}}

Dirty(row) == {k \in Keys : row.mine[k] # row.base[k]}

\* The row locks a flush of the session state x takes are free.
Flushes(s, x) == \A k \in Dirty(x), o \in Others(s) : k \notin session[o].locks

Locked(x) == [x EXCEPT !.locks = @ \cup Dirty(x)]

\* A call opens its transaction.
Begin(s, x) ==
    /\ session[s].pc = "idle"
    /\ calls < MaxCalls
    /\ calls' = calls + 1
    /\ overlapped' = (overlapped \/ \E o \in Others(s) : session[o].pc # "idle")
    /\ contended' = contended \cup {e \in {x.ev} : \E o \in Others(s) : session[o].ev = e}
    /\ session' = [session EXCEPT ![s] = x]
    /\ UNCHANGED <<candidates, links>>

Step(s, x) ==
    /\ session' = [session EXCEPT ![s] = x]
    /\ UNCHANGED <<candidates, links, history>>

\* A ValueError or an IntegrityError leaves the call, and the caller rolls back.
Rollback(s) == Step(s, NoSession)

-----------------------------------------------------------------------------
(* process.                                                                *)

\* The evidence has no active link yet; one link would end the call and two raise.
Process(s, e) ==
    /\ CandidatesOf(s, e) = {}
    /\ Begin(s, [NoSession EXCEPT !.pc = "match", !.ev = e])

\* load_candidates and match_existing: the one best candidate, a new one, or, when
\* several are equally good, a candidate of its own.  Of the rows read only that of the
\* candidate is used again.
MatchExisting(s) ==
    LET x == session[s]
        e == x.ev
        there == {k \in Keys : candidates[k] # NoRow}
        rank == [k \in there |-> Rank(e, candidates[k])]
        best == {k \in there : rank[k] # 6 /\ \A j \in there : rank[k] <= rank[j]}
        chosen(k, rule, step) ==
            Step(s, [x EXCEPT !.pc = step, !.cand = k, !.rule = rule,
                              !.base[k] = candidates[k], !.mine[k] = candidates[k]])
    IN
    /\ x.pc = "match"
    /\ \/ best = {} /\ chosen(Anchor(e), "new_candidate", "create")
       \/ \E k \in best : best = {k} /\ chosen(k, Rules[rank[k]], "associate")
       \/ Cardinality(best) > 1 /\ chosen(AmbiguousAnchor(e), "ambiguous_new_candidate", "create")

\* _create_or_get: the insert waits for another insert of the same key and, when there
\* is a row, gives way to it.
CreateOrGet(s) ==
    LET x == session[s]
        k == x.cand
    IN
    /\ x.pc = "create"
    /\ \A o \in Others(s) : k \notin session[o].new
    /\ IF candidates[k] = NoRow
       THEN Step(s, [x EXCEPT !.pc = "associate", !.base[k] = NewRow(x.ev), !.mine[k] = NewRow(x.ev),
                              !.new = @ \cup {k}, !.locks = @ \cup {k}])
       ELSE IF x.base[k] # NoRow THEN Step(s, [x EXCEPT !.pc = "associate"])
       ELSE Step(s, [x EXCEPT !.pc = "associate", !.base[k] = candidates[k], !.mine[k] = candidates[k]])

\* _associate reads the active links again: a link to another candidate raises, one to
\* this candidate is used.
Associate(s) ==
    LET x == session[s] IN
    /\ x.pc = "associate"
    /\ Flushes(s, x)
    /\ CASE CandidatesOf(s, x.ev) = {} -> Step(s, [Locked(x) EXCEPT !.pc = "link"])
         [] CandidatesOf(s, x.ev) = {x.cand} -> Step(s, [Locked(x) EXCEPT !.pc = "refresh"])
         [] OTHER -> Rollback(s)

\* The insert waits for another insert of the same pair, and the partial unique index
\* refuses it when that one was committed.
AddLink(s) ==
    LET x == session[s] IN
    /\ x.pc = "link"
    /\ \A o \in Others(s), l \in UNION {session[o].on : o \in Others(s)} :
          ~(l.cand = x.cand /\ l.ev = x.ev)
    /\ IF x.cand \in CandidatesOf(s, x.ev) THEN Rollback(s)
       ELSE Step(s, [x EXCEPT !.pc = "refresh",
                              !.on = @ \cup {[cand |-> x.cand, ev |-> x.ev, rule |-> x.rule, active |-> TRUE]}])

\* Mutant of Refresh: the aggregates are read before the changed columns are flushed.
Refresh_NoAutoflush(s) ==
    LET x == session[s]
        merged == [x EXCEPT !.mine[x.cand] = Merged(@, x.ev)]
    IN
    /\ x.pc = "refresh"
    /\ Step(s, [merged EXCEPT !.pc = "commit", !.mine[x.cand] = Aggregates(@, ActiveIn(s, x.cand))])

\* _refresh_candidate: the SELECT of the aggregates first flushes the columns that have
\* changed, which waits for the row.
Refresh(s) ==
    LET x == session[s]
        merged == [x EXCEPT !.mine[x.cand] = Merged(@, x.ev)]
    IN
    /\ x.pc = "refresh"
    /\ Flushes(s, merged)
    /\ Step(s, [Locked(merged) EXCEPT !.pc = "commit",
                                      !.mine[x.cand] = Aggregates(@, ActiveIn(s, x.cand))])

-----------------------------------------------------------------------------
(* Review.                                                                 *)

\* deactivate_association of a pair whose active link it has read, and regroup_association
\* of evidence with that one link to another candidate that exists.
Deactivate(s, k, e) ==
    /\ e \in ActiveIn(s, k)
    /\ Begin(s, [NoSession EXCEPT !.pc = "off", !.ev = e, !.cand = k])

Regroup(s, k, to, e) ==
    /\ CandidatesOf(s, e) = {k}
    /\ to # k /\ candidates[to] # NoRow
    /\ Begin(s, [NoSession EXCEPT !.pc = "off", !.ev = e, !.cand = k, !.to = to, !.rule = "reviewed_regroup",
                                  !.base[to] = candidates[to], !.mine[to] = candidates[to]])

\* Mutant of TakeOff: the aggregates are not recalculated.
TakeOff_NoAggregates(s) ==
    LET x == session[s]
        off == [x EXCEPT !.off = @ \cup {<<x.cand, x.ev>>}, !.base[x.cand] = candidates[x.cand],
                         !.mine[x.cand] = candidates[x.cand]]
    IN
    /\ x.pc = "off"
    /\ \A o \in Others(s) : <<x.cand, x.ev>> \notin session[o].off
    /\ Step(s, IF x.to = None THEN [off EXCEPT !.pc = "commit"]
               ELSE [off EXCEPT !.pc = "associate", !.cand = x.to])

\* The update of the link waits for another one; then the candidate is read and its
\* aggregates are recalculated.  Nothing has locked the candidate.
TakeOff(s) ==
    LET x == session[s]
        k == x.cand
        off == [x EXCEPT !.off = @ \cup {<<k, x.ev>>}, !.base[k] = candidates[k],
                         !.mine[k] = Aggregates(candidates[k], ActiveIn(s, k) \ {x.ev})]
    IN
    /\ x.pc = "off"
    /\ \A o \in Others(s) : <<k, x.ev>> \notin session[o].off
    /\ Step(s, IF x.to = None THEN [off EXCEPT !.pc = "commit"]
               ELSE [off EXCEPT !.pc = "associate", !.cand = x.to])

-----------------------------------------------------------------------------
\* The columns the session has changed, over the row as it is by now.
Written(row, base, mine) ==
    [c \in DOMAIN row |-> IF mine[c] # base[c] THEN mine[c] ELSE row[c]]

\* Mutant of Commit: the link a regroup takes out is not flushed.
Commit_KeepsOff(s) ==
    LET x == session[s] IN
    /\ x.pc = "commit"
    /\ Flushes(s, x)
    /\ candidates' = [k \in Keys |-> IF k \in x.new THEN x.mine[k]
                                     ELSE Written(candidates[k], x.base[k], x.mine[k])]
    /\ links' = links \cup x.on
    /\ session' = [session EXCEPT ![s] = NoSession]
    /\ UNCHANGED history

\* The last flush and the caller's commit.
Commit(s) ==
    LET x == session[s] IN
    /\ x.pc = "commit"
    /\ Flushes(s, x)
    /\ candidates' = [k \in Keys |-> IF k \in x.new THEN x.mine[k]
                                     ELSE Written(candidates[k], x.base[k], x.mine[k])]
    /\ links' = {IF <<l.cand, l.ev>> \in x.off THEN [l EXCEPT !.active = FALSE] ELSE l : l \in links}
                \cup x.on
    /\ session' = [session EXCEPT ![s] = NoSession]
    /\ UNCHANGED history

\* A lost connection, or the victim of a deadlock between two regroups.
Abort(s) == session[s].pc # "idle" /\ Rollback(s)

Next ==
    \E s \in Sessions :
        \/ \E e \in Evidence : Process(s, e)
        \/ \E k \in Keys, e \in Evidence : Deactivate(s, k, e)
        \/ \E k, to \in Keys, e \in Evidence : Regroup(s, k, to, e)
        \/ MatchExisting(s)
        \/ CreateOrGet(s)
        \/ Associate(s)
        \/ AddLink(s)
        \/ Refresh(s)
        \/ TakeOff(s)
        \/ Commit(s)
        \/ Abort(s)

Spec == Init /\ [][Next]_vars

-----------------------------------------------------------------------------
(* Properties.                                                             *)

Active(k) == {l.ev : l \in {l \in links : l.active /\ l.cand = k}}

Ever(k) == {l.ev : l \in {l \in links : l.cand = k}}

\* A candidate no reviewer has taken evidence from has the counts, the status and the
\* score of its active evidence, however many sessions merge into it at the same time:
\* the flush that _recalculate_aggregates triggers waits for the row before it counts.
\* Only a second call for the same evidence, which changes no signature and so takes no
\* lock, can leave them behind.
CountsDescribeMembership ==
    /\ TypeOK
    /\ \A k \in Keys :
          /\ candidates[k] # NoRow
          /\ \A l \in links : l.cand = k => l.active /\ l.ev \notin contended
          => candidates[k] = Aggregates(candidates[k], Active(k)) /\ Active(k) # {}

\* Evidence is in at most one candidate, unless two calls handled it at a time.
OneActiveMembership ==
    \A e \in Evidence \ contended : Cardinality({k \in Keys : e \in Active(k)}) <= 1

\* Every link that matching made is explained by evidence linked to the same candidate
\* before: it shares the signature the rule names, or for entity_title_time the title
\* and an entity, within the window of some of it.  No race merges anything else.
MatchesAreExplained ==
    \A l \in links :
        LET e == l.ev
            before == {d.ev : d \in {d \in links \ {l} : d.cand = l.cand}}
            shares(kind) == \E d \in before : kind \in Kinds(Signatures(e) \cap Signatures(d))
        IN
        CASE l.rule = "official_identity" -> shares("official")
          [] l.rule = "canonical_url" -> shares("url")
          [] l.rule = "provider_external_id" -> shares("provider")
          [] l.rule = "entity_title_time" ->
               /\ \E d \in before : Title(d) = Title(e)
               /\ \E d \in before : Facts[d].entities \cap Facts[e].entities # {}
               /\ \E d \in before : Facts[d].time <= Facts[e].time + Window
               /\ \E d \in before : Facts[e].time <= Facts[d].time + Window
          [] l.rule = "approved_hash" -> e \in before
          [] OTHER -> TRUE

\* As long as no two transactions have been open at a time, and whatever is processed,
\* taken out, moved and processed again: a candidate is REJECTED exactly when it has no
\* active evidence, its counts and score are those of its active evidence, and its
\* signatures and window cover all it has ever held.
ReviewKeepsOrder ==
    ~overlapped =>
        \A k \in Keys : candidates[k] # NoRow =>
              /\ candidates[k] = Aggregates(candidates[k], Active(k))
              /\ candidates[k].status = "rejected" <=> Active(k) = {}
              /\ \A e \in Ever(k) : candidates[k] = Merged(candidates[k], e)

=============================================================================
