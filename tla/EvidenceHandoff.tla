-------------------------- MODULE EvidenceHandoff --------------------------
(***************************************************************************)
(* The handoff of READY projections to evidence (evidence/handoff.py).     *)
(* Each batch recovers stale links, inserts links for READY projections,    *)
(* claims links and hands them over one at a time: an unlocked look, then   *)
(* one transaction that locks the provenance rows and the link, adopts or   *)
(* creates the content and evidence rows and marks the link LINKED.         *)
(*                                                                         *)
(* Times are ages in ticks, as in SafeProjectionWorker: of a link since     *)
(* updated_at, of a batch since the `now` it took.  next_retry_at is        *)
(* `delay` ticks after updated_at.  The rows of a page are left open.       *)
(*                                                                         *)
(* The values a content or evidence row holds are named by the projection   *)
(* they came from: no two of them agree in all that is compared.  All       *)
(* projections are of one operation of one provider, so provenance is the   *)
(* raw item, and an identity is a provider_item_id.  The operation is one   *)
(* of LEGACY_OPAQUE_IDENTITY_OPERATIONS: rows of the legacy write path hold  *)
(* the identity in opaque form, "provider-item:" and a hash of it, which is  *)
(* equal to no plain identity.                                             *)
(***************************************************************************)
EXTENDS Naturals, FiniteSets

CONSTANTS
    Projections,  \* projections that become READY
    Raws,         \* raw items
    Items,        \* provider item identities
    RawOf,        \* raw_item_id of each projection
    ItemOf,       \* provider_item_id of each projection
    Articles,     \* projections with the title, URL and source that content needs
    Doubtful,     \* projections whose contract or provenance checks may fail
    Nobody,       \* the projection of no row
    NoItem,       \* the identity of no evidence row
    Workers,      \* processes that may run the task
    MaxAttempts,  \* EVIDENCE_HANDOFF_MAX_ATTEMPTS
    Limit,        \* EVIDENCE_HANDOFF_BATCH_LIMIT
    StaleAfter,   \* EVIDENCE_HANDOFF_STALE_AFTER_SECONDS
    RetryDelay,   \* retry_delay
    MaxDelay,     \* bound on the ticks from the start of a batch to its claim
    MaxCrashes    \* bound on the batches that die

ASSUME HandoffAssumption ==
    /\ RawOf \in [Projections -> Raws]
    /\ ItemOf \in [Projections -> Items]
    /\ Articles \subseteq Projections /\ Doubtful \subseteq Projections
    /\ Nobody \notin Projections /\ NoItem \notin Items
    /\ {MaxAttempts, Limit, MaxDelay} \subseteq Nat \ {0}
    /\ {StaleAfter, RetryDelay, MaxCrashes} \subseteq Nat

VARIABLES
    ready,     \* projections that are READY
    link,      \* evidence_projection_links, one per projection
    evidence,  \* the evidence_items row of each raw item
    content,   \* the content_items row of each raw item: whose values it holds
    batch,     \* where each worker's process_batch is
    crashes    \* batches that have died

vars == <<ready, link, evidence, content, batch, crashes>>

-----------------------------------------------------------------------------
LinkStatus == {"absent", "pending", "processing", "retry", "linked", "blocked"}

\* safe_error_code, as far as it matters.
Errors == {"none", "conflict", "concurrent_change", "exhausted"}

Link == [status : LinkStatus, attempts : Nat, age : Nat, delay : Nat, error : Errors,
         content : BOOLEAN, canonicalEvidence : BOOLEAN, canonicalContent : BOOLEAN]

NoLink == [status |-> "absent", attempts |-> 0, age |-> 0, delay |-> 0, error |-> "none",
           content |-> FALSE, canonicalEvidence |-> FALSE, canonicalContent |-> FALSE]

\* provider_item_id is `item`, in its opaque form or as it is.
Evidence == [item : Items \cup {NoItem}, opaque : BOOLEAN,
             of : Projections \cup {Nobody}, content : BOOLEAN]

NoEvidence == [item |-> NoItem, opaque |-> FALSE, of |-> Nobody, content |-> FALSE]

Batch == [pc : {"idle", "recover", "discover", "claim", "read", "link", "terminal", "retry"},
          age : Nat, claimed : SUBSET Projections, item : Projections \cup {Nobody}, error : Errors]

NoBatch == [pc |-> "idle", age |-> 0, claimed |-> {}, item |-> Nobody, error |-> "none"]

\* Every row and every batch has the type of what it models.
TypeOK ==
    /\ ready \subseteq Projections
    /\ link \in [Projections -> Link]
    /\ evidence \in [Raws -> Evidence]
    /\ content \in [Raws -> Projections \cup {Nobody}]
    /\ batch \in [Workers -> Batch]
    /\ crashes \in Nat

ProjectionsOf(r) == {p \in Projections : RawOf[p] = r}

\* Rows the legacy write path may have left for a raw item, without a link and with an
\* opaque identity: with the values of a projection of that raw item, or with values of
\* their own.  A row without identity, or one of several, conflicts as the latter do.
LegacyEvidence(r) ==
    {NoEvidence} \cup
    {[item |-> ItemOf[p], opaque |-> TRUE, of |-> p, content |-> c] :
        p \in ProjectionsOf(r), c \in BOOLEAN} \cup
    {[item |-> i, opaque |-> TRUE, of |-> Nobody, content |-> FALSE] : i \in Items}

\* What uq_evidence_items_provider_item_id compares.
SameIdentity(row, other) == row.item = other.item /\ row.opaque = other.opaque

Init ==
    /\ ready = {}
    /\ link = [p \in Projections |-> NoLink]
    /\ evidence \in {e \in [Raws -> UNION {LegacyEvidence(r) : r \in Raws}] :
                       /\ \A r \in Raws : e[r] \in LegacyEvidence(r)
                       /\ \A q, r \in Raws : q # r /\ SameIdentity(e[q], e[r]) => e[q] = NoEvidence}
    /\ content \in {c \in [Raws -> Projections \cup {Nobody}] :
                      \A r \in Raws : /\ c[r] \in ProjectionsOf(r) \cup {Nobody}
                                      /\ evidence[r].content => c[r] # Nobody}
    /\ batch = [w \in Workers |-> NoBatch]
    /\ crashes = 0

-----------------------------------------------------------------------------
\* Any `limit` of the rows, or all if there are fewer.
Page(rows) ==
    {page \in SUBSET rows : Cardinality(page) = Limit \/ (Cardinality(rows) < Limit /\ page = rows)}

InStatus(statuses) == {p \in Projections : link[p].status \in statuses}

\* The projection worker makes a row READY; READY is final.
BecomeReady(p) ==
    /\ p \notin ready
    /\ ready' = ready \cup {p}
    /\ UNCHANGED <<link, evidence, content, batch, crashes>>

\* The age beyond which nothing the code compares can change.
OldAge == StaleAfter + RetryDelay + MaxDelay + 1

Older(age) == IF age < OldAge THEN age + 1 ELSE age

BeforeClaim == {"recover", "discover", "claim"}

Tick ==
    /\ \A w \in Workers : batch[w].pc \in BeforeClaim => batch[w].age < MaxDelay
    /\ link' = [p \in Projections |->
                  IF link[p].status \in {"processing", "retry"}
                  THEN [link[p] EXCEPT !.age = Older(@)] ELSE link[p]]
    /\ batch' = [w \in Workers |->
                   IF batch[w].pc # "idle" THEN [batch[w] EXCEPT !.age = Older(@)] ELSE batch[w]]
    /\ UNCHANGED <<ready, evidence, content, crashes>>

StartBatch(w) ==
    /\ batch[w].pc = "idle"
    /\ batch' = [batch EXCEPT ![w] = [NoBatch EXCEPT !.pc = "recover"]]
    /\ UNCHANGED <<ready, link, evidence, content, crashes>>

StaleLinks(w) == {p \in InStatus({"processing"}) : link[p].age > batch[w].age + StaleAfter}

\* A link that failed or went stale waits for its next attempt, or is blocked when
\* there is none left.
PutBack(row, age, delay) ==
    IF row.attempts >= MaxAttempts
    THEN [row EXCEPT !.status = "blocked", !.error = "exhausted", !.age = 0, !.delay = 0]
    ELSE [row EXCEPT !.status = "retry", !.error = "none", !.age = age, !.delay = delay]

RecoverStale(w) ==
    /\ batch[w].pc = "recover"
    /\ \E page \in Page(StaleLinks(w)) :
          link' = [p \in Projections |->
                     IF p \in page THEN PutBack(link[p], batch[w].age, 0) ELSE link[p]]
    /\ batch' = [batch EXCEPT ![w].pc = "discover"]
    /\ UNCHANGED <<ready, evidence, content, crashes>>

\* The INSERT ... SELECT of pending links, ON CONFLICT DO NOTHING.
DiscoverReady(w) ==
    /\ batch[w].pc = "discover"
    /\ \E page \in Page({p \in ready : link[p].status = "absent"}) :
          link' = [p \in Projections |->
                     IF p \in page THEN [NoLink EXCEPT !.status = "pending"] ELSE link[p]]
    /\ batch' = [batch EXCEPT ![w].pc = "claim"]
    /\ UNCHANGED <<ready, evidence, content, crashes>>

\* Mutant of ClaimableLinks: a link put back is never claimed again.
ClaimableLinks_PendingOnly(w) == InStatus({"pending"})

\* PENDING and RETRY links whose next_retry_at is NULL or not after the batch's now.
ClaimableLinks(w) ==
    InStatus({"pending"}) \cup
    {p \in InStatus({"retry"}) : link[p].age >= batch[w].age + link[p].delay}

Claimed(row, age) ==
    [row EXCEPT !.status = "processing", !.attempts = @ + 1, !.error = "none", !.age = age, !.delay = 0]

Claim(w) ==
    /\ batch[w].pc = "claim"
    /\ \E page \in Page(ClaimableLinks(w)) :
          /\ link' = [p \in Projections |->
                        IF p \in page THEN Claimed(link[p], batch[w].age) ELSE link[p]]
          /\ batch' = [batch EXCEPT ![w] =
                         IF page = {} THEN NoBatch ELSE [@ EXCEPT !.pc = "read", !.claimed = page]]
    /\ UNCHANGED <<ready, evidence, content, crashes>>

-----------------------------------------------------------------------------
(* _link_one.                                                              *)

Goto(w, step, p, error) ==
    batch' = [batch EXCEPT ![w].pc = step, ![w].item = p, ![w].error = error]

\* On to the next link of the batch, or to its end.
ItemDone(w, p) ==
    LET left == batch[w].claimed \ {p} IN
    batch' = [batch EXCEPT ![w] =
                IF left = {} THEN NoBatch
                ELSE [@ EXCEPT !.pc = "read", !.claimed = left, !.item = Nobody, !.error = "none"]]

\* The unlocked look: a link that is no longer PROCESSING is skipped, a projection
\* that fails its contract goes to _terminal.  The rows looked at may be changed by
\* others before the locks, so the outcome here does not fix the later one.
ReadOne(w, p) ==
    /\ batch[w].pc = "read"
    /\ p \in batch[w].claimed
    /\ IF link[p].status # "processing" THEN ItemDone(w, p)
       ELSE \/ Goto(w, "link", p, "none")
            \/ p \in Doubtful /\ Goto(w, "terminal", p, "conflict")
    /\ UNCHANGED <<ready, link, evidence, content, crashes>>

LinkedOf(r) == {q \in ProjectionsOf(r) : link[q].status = "linked"}

\* _content: the row of the raw item, or a new one for a complete article.
ContentOf(p) ==
    IF content[RawOf[p]] # Nobody THEN content[RawOf[p]]
    ELSE IF p \in Articles THEN p ELSE Nobody

\* Content that is already there must hold the values of its canonical link's
\* projection, or of this one when it has no canonical link.
ContentConflict(p) ==
    LET r == RawOf[p]
        canonical == {q \in LinkedOf(r) : link[q].canonicalContent}
        origin == IF canonical = {} THEN p ELSE CHOOSE q \in canonical : TRUE
    IN  content[r] # Nobody /\ content[r] # origin

\* Mutant of EvidenceConflict: the identity is not looked up among the other rows.
EvidenceConflict_OwnRowOnly(p) ==
    LET r == RawOf[p]
        canonical == {q \in LinkedOf(r) : link[q].canonicalEvidence}
        origin == IF canonical = {} THEN p ELSE CHOOSE q \in canonical : TRUE
    IN  /\ evidence[r] # NoEvidence
        /\ \/ ItemOf[origin] # ItemOf[p]
           \/ evidence[r].of # origin
           \/ ContentOf(p) = Nobody /\ evidence[r].content

\* _evidence: what is there must agree with its canonical projection in identity, plain
\* or opaque, and values and have no other content; what is new must have an identity of
\* its own, which is only looked up in its plain form.
EvidenceConflict(p) ==
    LET r == RawOf[p]
        canonical == {q \in LinkedOf(r) : link[q].canonicalEvidence}
        origin == IF canonical = {} THEN p ELSE CHOOSE q \in canonical : TRUE
    IN  IF evidence[r] # NoEvidence
        THEN \/ ItemOf[origin] # ItemOf[p]
             \/ evidence[r].of # origin
             \/ ContentOf(p) = Nobody /\ evidence[r].content
        ELSE \E q \in Raws : evidence[q].item = ItemOf[p] /\ ~evidence[q].opaque

\* Mutant of EvidenceOf: an upsert.
EvidenceOf_Upsert(p) ==
    [item |-> ItemOf[p], opaque |-> FALSE, of |-> p, content |-> ContentOf(p) # Nobody]

\* The row of the raw item as it is, or a new one.
EvidenceOf(p) ==
    IF evidence[RawOf[p]] # NoEvidence THEN evidence[RawOf[p]]
    ELSE [item |-> ItemOf[p], opaque |-> FALSE, of |-> p, content |-> ContentOf(p) # Nobody]

\* Mutant of Linked: the first link of the batch is canonical, not that of the row.
Linked_AlwaysCanonical(p) ==
    [link[p] EXCEPT !.status = "linked", !.error = "none", !.age = 0, !.delay = 0,
                    !.content = ContentOf(p) # Nobody,
                    !.canonicalEvidence = TRUE,
                    !.canonicalContent = ContentOf(p) # Nobody]

Linked(p) ==
    LET r == RawOf[p] IN
    [link[p] EXCEPT !.status = "linked", !.error = "none", !.age = 0, !.delay = 0,
                    !.content = ContentOf(p) # Nobody,
                    !.canonicalEvidence = LinkedOf(r) = {},
                    !.canonicalContent = ContentOf(p) # Nobody /\ \A q \in LinkedOf(r) : ~link[q].content]

\* The triggers on evidence_projection_links judge the row again when it becomes LINKED.
\* The association: the projection is READY and the evidence row has no other content.
AssociationGuard(p) == p \in ready /\ (EvidenceOf(p).content => Linked(p).content)

\* The adoption of the evidence row: the first link is the canonical one and no other, and
\* the row holds the identity, in either form, and the values of the canonical link's
\* projection.
EvidenceAdoptionGuard(p) ==
    LET prior == LinkedOf(RawOf[p])
        first == Linked(p).canonicalEvidence
        origins == IF first THEN {p} ELSE {q \in prior : link[q].canonicalEvidence}
    IN  /\ first = (prior = {})
        /\ \E q \in origins : EvidenceOf(p).of = q /\ EvidenceOf(p).item = ItemOf[q]

\* The adoption of the content row, among the links that have content, and the content
\* a complete article has to have.
ContentAdoptionGuard(p) ==
    LET shown == {q \in LinkedOf(RawOf[p]) : link[q].content}
        first == Linked(p).canonicalContent
        origins == IF first THEN {p} ELSE {q \in shown : link[q].canonicalContent}
    IN  IF Linked(p).content
        THEN first = (shown = {}) /\ ContentOf(p) \in origins
        ELSE ~first /\ p \notin Articles

GuardsAccept(p) == AssociationGuard(p) /\ EvidenceAdoptionGuard(p) /\ ContentAdoptionGuard(p)

\* The transaction under the row locks: everything is looked at again, and content,
\* evidence and link are written together or not at all.
LinkOne(w) ==
    LET p == batch[w].item
        r == RawOf[p]
    IN
    /\ batch[w].pc = "link"
    /\ \/ /\ link[p].status # "processing"
          /\ Goto(w, "terminal", p, "concurrent_change")
          /\ UNCHANGED <<link, evidence, content>>
       \/ /\ link[p].status = "processing"
          /\ p \in Doubtful \/ ContentConflict(p) \/ EvidenceConflict(p)
          /\ Goto(w, "terminal", p, "conflict")
          /\ UNCHANGED <<link, evidence, content>>
       \/ /\ link[p].status = "processing"
          /\ ~ContentConflict(p)
          /\ ~EvidenceConflict(p)
          /\ GuardsAccept(p)
          /\ link' = [link EXCEPT ![p] = Linked(p)]
          /\ content' = [content EXCEPT ![r] = ContentOf(p)]
          /\ evidence' = [evidence EXCEPT ![r] = EvidenceOf(p)]
          /\ ItemDone(w, p)
    /\ UNCHANGED <<ready, crashes>>

\* A lock timeout, a trigger, a unique index or another database error rolls the
\* transaction back; an error in _terminal also ends in _retry.
ItemFails(w) ==
    /\ batch[w].pc \in {"link", "terminal"}
    /\ Goto(w, "retry", batch[w].item, "none")
    /\ UNCHANGED <<ready, link, evidence, content, crashes>>

\* Mutant of Terminal: the status read under the row lock is not looked at.
Terminal_AnyStatus(w) ==
    LET p == batch[w].item IN
    /\ batch[w].pc = "terminal"
    /\ link' = [link EXCEPT ![p] = [@ EXCEPT !.status = "blocked", !.error = batch[w].error]]
    /\ ItemDone(w, p)
    /\ UNCHANGED <<ready, evidence, content, crashes>>

Terminal(w) ==
    LET p == batch[w].item IN
    /\ batch[w].pc = "terminal"
    /\ link' = [link EXCEPT ![p] =
                  IF @.status # "processing" THEN @
                  ELSE [@ EXCEPT !.status = "blocked", !.error = batch[w].error, !.age = 0]]
    /\ ItemDone(w, p)
    /\ UNCHANGED <<ready, evidence, content, crashes>>

Retry(w) ==
    LET p == batch[w].item IN
    /\ batch[w].pc = "retry"
    /\ link' = [link EXCEPT ![p] =
                  IF @.status # "processing" THEN @ ELSE PutBack(@, batch[w].age, RetryDelay)]
    /\ ItemDone(w, p)
    /\ UNCHANGED <<ready, evidence, content, crashes>>

\* The process dies, or a transaction of the batch itself raises.
Crash(w) ==
    /\ crashes < MaxCrashes
    /\ batch[w].pc # "idle"
    /\ batch' = [batch EXCEPT ![w] = NoBatch]
    /\ crashes' = crashes + 1
    /\ UNCHANGED <<ready, link, evidence, content>>

ProcessBatch(w) ==
    \/ RecoverStale(w)
    \/ DiscoverReady(w)
    \/ Claim(w)
    \/ \E p \in batch[w].claimed : ReadOne(w, p)
    \/ LinkOne(w)
    \/ ItemFails(w)
    \/ Terminal(w)
    \/ Retry(w)

Next ==
    \/ \E p \in Projections : BecomeReady(p)
    \/ Tick
    \/ \E w \in Workers : StartBatch(w) \/ ProcessBatch(w) \/ Crash(w)

\* Time passes, beat keeps sending the task to some worker, and a batch that does
\* not die goes on.
Fairness ==
    /\ WF_vars(Tick)
    /\ WF_vars(\E w \in Workers : StartBatch(w))
    /\ \A w \in Workers : WF_vars(ProcessBatch(w))

Spec == Init /\ [][Next]_vars /\ Fairness

-----------------------------------------------------------------------------
(* Properties.                                                             *)

\* The lineage of an evidence row: as soon as projections of a raw item are linked,
\* exactly one of the links is canonical, it is the link of the projection whose
\* values the evidence row holds, every linked projection has that identity, and no
\* other raw item's evidence has it in the same form.  (A legacy row of another raw item
\* may have it in opaque form: _evidence does not look that up.)
\* The same holds of the content row, among the links that have content.
CanonicalLineage ==
    /\ TypeOK
    /\ \A r \in Raws :
        /\ LinkedOf(r) # {} =>
             \E q \in LinkedOf(r) :
                 /\ {p \in LinkedOf(r) : link[p].canonicalEvidence} = {q}
                 /\ evidence[r].of = q
                 /\ \A p \in LinkedOf(r) : ItemOf[p] = evidence[r].item
                 /\ \A s \in Raws \ {r} : ~SameIdentity(evidence[s], evidence[r])
        /\ LET shown == {p \in LinkedOf(r) : link[p].content} IN
           shown # {} => {p \in shown : link[p].canonicalContent} = {content[r]}

\* An evidence or content row that exists is never overwritten by a revision.
FirstRowWins ==
    [][\A r \in Raws : /\ evidence[r] # NoEvidence => evidence'[r] = evidence[r]
                       /\ content[r] # Nobody => content'[r] = content[r]]_vars

\* The checks of _link_one and the triggers are two statements of the same rules, and the
\* triggers refuse nothing that the worker is about to write: a disagreement would spend
\* the attempts of the link on a database error that no retry can heal.
WorkerAgreesWithGuards ==
    \A w \in Workers :
        LET p == batch[w].item IN
        /\ batch[w].pc = "link"
        /\ link[p].status = "processing"
        /\ ~ContentConflict(p)
        /\ ~EvidenceConflict(p)
        => GuardsAccept(p)

\* The worker implements bounded work: finite attempts, and LINKED and BLOCKED are
\* final, whatever late batches still hold the link.
Work == INSTANCE BoundedWork WITH
    Items <- Projections,
    state <- [p \in Projections |->
                CASE link[p].status = "absent" -> "absent"
                  [] link[p].status \in {"pending", "retry"} -> "waiting"
                  [] link[p].status = "processing" -> "held"
                  [] link[p].status = "linked" -> "done"
                  [] link[p].status = "blocked" -> "given_up"],
    attempts <- [p \in Projections |-> link[p].attempts]

ImplementsBoundedWork == Work!Spec

\* Every READY projection is LINKED or BLOCKED in the end, whatever fails or dies.
EveryReadyProjectionEnds ==
    \A p \in Projections : p \in ready ~> link[p].status \in {"linked", "blocked"}

=============================================================================
