------------------------ MODULE EvidenceHandoffProofs ------------------------
(***************************************************************************)
(* Proofs about the handoff of READY projections to evidence.              *)
(***************************************************************************)
EXTENDS EvidenceHandoff, TLAPS

\* attempt_count in every status, as for the safe projections, and content is only
\* canonical for a link that has content.
RowInv(row) ==
    /\ row \in Link
    /\ row.status \in {"absent", "pending"} => row.attempts = 0
    /\ row.status = "retry" => row.attempts < MaxAttempts
    /\ row.attempts <= MaxAttempts
    /\ row.canonicalContent => row.content

Rows == link \in [Projections -> Link] /\ \A p \in Projections : RowInv(link[p])

\* A batch that is at one link is at a link.
BatchInv(b) == b \in Batch /\ (b.pc \in {"link", "terminal", "retry"} => b.item \in Projections)

Batches == batch \in [Workers -> Batch] /\ \A w \in Workers : BatchInv(batch[w])

\* Only a READY projection has a link.
Discovered == ready \subseteq Projections /\ \A p \in Projections : link[p].status # "absent" => p \in ready

\* The evidence row of a raw item: it has an identity, that of the projection whose values
\* it holds, in either form; no other raw item's row has it in the same form.
EvidenceInv(row) ==
    /\ row \in Evidence
    /\ row # NoEvidence => row.item \in Items
    /\ row.of # Nobody => row.item = ItemOf[row.of]

OneRowPerIdentity ==
    \A q, r \in Raws : q # r /\ SameIdentity(evidence[q], evidence[r]) => evidence[q] = NoEvidence

EvidenceRows ==
    /\ evidence \in [Raws -> Evidence]
    /\ \A r \in Raws : EvidenceInv(evidence[r])
    /\ OneRowPerIdentity
    /\ content \in [Raws -> Projections \cup {Nobody}]

\* The links of a raw item and the rows they adopted.
EvidenceLineage(r) ==
    LinkedOf(r) # {} =>
        \E q \in LinkedOf(r) :
            /\ {p \in LinkedOf(r) : link[p].canonicalEvidence} = {q}
            /\ evidence[r].of = q
            /\ \A p \in LinkedOf(r) : ItemOf[p] = evidence[r].item

Shown(r) == {p \in LinkedOf(r) : link[p].content}

ContentLineage(r) == Shown(r) # {} => {p \in Shown(r) : link[p].canonicalContent} = {content[r]}

Lineage == \A r \in Raws : EvidenceLineage(r) /\ ContentLineage(r)

Inv == Rows /\ Batches /\ Discovered /\ EvidenceRows /\ Lineage /\ crashes \in Nat

\* The legal moves of one link, as the abstract specification sees them, for every
\* transaction but that of _link_one: a LINKED row is not touched and none becomes so.
QuietStep(old, new) ==
    /\ \/ new.status = old.status /\ new.attempts = old.attempts
       \/ old.status = "absent" /\ new.status = "pending" /\ new.attempts = old.attempts
       \/ /\ old.status \in {"pending", "retry"} /\ new.status = "processing"
          /\ old.attempts < MaxAttempts /\ new.attempts = old.attempts + 1
       \/ /\ old.status = "processing" /\ new.status = "retry"
          /\ old.attempts < MaxAttempts /\ new.attempts = old.attempts
       \/ /\ old.status = "processing" /\ new.status = "blocked"
          /\ new.attempts = old.attempts
    /\ old.status = "linked" \/ new.status = "linked" => new = old

\* RowInv and QuietStep follow from what a step says of the fields.
LEMMA AgeStep ==
  ASSUME NEW row \in Link, RowInv(row), row.status \in {"processing", "retry"}
  PROVE  LET new == [row EXCEPT !.age = Older(@)] IN RowInv(new) /\ QuietStep(row, new)
<1> DEFINE new == [row EXCEPT !.age = Older(@)]
<1>1. row.age \in Nat /\ Older(row.age) \in Nat
  BY HandoffAssumption DEF Link, Older, OldAge
<1>2. new \in Link
  BY <1>1, Zenon DEF Link
<1>3. /\ new.status = row.status /\ new.attempts = row.attempts
      /\ new.canonicalContent = row.canonicalContent /\ new.content = row.content
  BY DEF Link
<1>. QED
  BY <1>2, <1>3 DEF RowInv, QuietStep

\* A link is put back only with attempts left, and given up only without.
LEMMA PutBackStep ==
  ASSUME NEW row \in Link, NEW age \in Nat, NEW delay \in Nat, RowInv(row), row.status = "processing"
  PROVE  RowInv(PutBack(row, age, delay)) /\ QuietStep(row, PutBack(row, age, delay))
<1> DEFINE new == PutBack(row, age, delay)
<1>1. /\ row.attempts \in Nat /\ row.attempts <= MaxAttempts /\ MaxAttempts \in Nat
      /\ row.canonicalContent => row.content
  BY HandoffAssumption DEF RowInv, Link
<1>2. CASE row.attempts >= MaxAttempts
  <2>1. new = [row EXCEPT !.status = "blocked", !.error = "exhausted", !.age = 0, !.delay = 0]
    BY <1>2 DEF PutBack
  <2>2. "blocked" \in LinkStatus /\ 0 \in Nat /\ "exhausted" \in Errors
    BY DEF LinkStatus, Errors
  <2>3. new \in Link
    BY <2>1, <2>2, Zenon DEF Link
  <2>4. /\ new.status = "blocked" /\ new.attempts = row.attempts
        /\ new.canonicalContent = row.canonicalContent /\ new.content = row.content
    BY <2>1 DEF Link
  <2>. QED
    BY <1>1, <1>2, <2>3, <2>4 DEF RowInv, QuietStep
<1>3. CASE ~(row.attempts >= MaxAttempts)
  <2>1. new = [row EXCEPT !.status = "retry", !.error = "none", !.age = age, !.delay = delay]
    BY <1>3 DEF PutBack
  <2>2. "retry" \in LinkStatus /\ "none" \in Errors
    BY DEF LinkStatus, Errors
  <2>3. new \in Link
    BY <2>1, <2>2, Zenon DEF Link
  <2>4. /\ new.status = "retry" /\ new.attempts = row.attempts
        /\ new.canonicalContent = row.canonicalContent /\ new.content = row.content
    BY <2>1 DEF Link
  <2>. QED
    BY <1>1, <1>3, <2>3, <2>4 DEF RowInv, QuietStep
<1>. QED
  BY <1>2, <1>3

\* The INSERT makes a PENDING link of no link.
LEMMA InsertStep ==
  ASSUME NEW row \in Link, RowInv(row), row.status = "absent"
  PROVE  LET new == [NoLink EXCEPT !.status = "pending"] IN RowInv(new) /\ QuietStep(row, new)
  BY HandoffAssumption DEF RowInv, QuietStep, Link, NoLink, LinkStatus, Errors

\* A claimed link had an attempt left.
LEMMA ClaimedStep ==
  ASSUME NEW row \in Link, NEW age \in Nat, RowInv(row), row.status \in {"pending", "retry"}
  PROVE  RowInv(Claimed(row, age)) /\ QuietStep(row, Claimed(row, age))
<1> DEFINE new == Claimed(row, age)
<1>1. /\ row.attempts \in Nat /\ row.attempts < MaxAttempts /\ MaxAttempts \in Nat
      /\ row.canonicalContent => row.content
  BY HandoffAssumption DEF RowInv, Link
<1>2. "processing" \in LinkStatus /\ row.attempts + 1 \in Nat /\ "none" \in Errors /\ 0 \in Nat
  BY <1>1 DEF LinkStatus, Errors
<1>3. new \in Link
  BY <1>2, Zenon DEF Claimed, Link
<1>4. /\ new.status = "processing" /\ new.attempts = row.attempts + 1
      /\ new.canonicalContent = row.canonicalContent /\ new.content = row.content
  BY DEF Claimed, Link
<1>. QED
  BY <1>1, <1>3, <1>4 DEF RowInv, QuietStep

\* A PROCESSING link that _terminal blocks keeps its attempts.
LEMMA BlockedStep ==
  ASSUME NEW row \in Link, NEW error \in Errors, RowInv(row), row.status = "processing"
  PROVE  LET new == [row EXCEPT !.status = "blocked", !.error = error, !.age = 0] IN
         RowInv(new) /\ QuietStep(row, new)
<1> DEFINE new == [row EXCEPT !.status = "blocked", !.error = error, !.age = 0]
<1>1. "blocked" \in LinkStatus /\ 0 \in Nat
  BY DEF LinkStatus
<1>2. new \in Link
  BY <1>1, Zenon DEF Link
<1>3. /\ new.status = "blocked" /\ new.attempts = row.attempts
      /\ new.canonicalContent = row.canonicalContent /\ new.content = row.content
  BY DEF Link
<1>. QED
  BY <1>2, <1>3 DEF RowInv, QuietStep

\* A row that does not change takes a quiet step.
LEMMA SameStep ==
  ASSUME NEW row
  PROVE  QuietStep(row, row)
  BY DEF QuietStep

\* A PROCESSING link that becomes LINKED keeps its attempts.
LEMMA LinkedRow ==
  ASSUME NEW p \in Projections, Rows, link[p].status = "processing"
  PROVE  LET new == Linked(p) IN
         /\ RowInv(new)
         /\ new.status = "linked" /\ new.attempts = link[p].attempts
         /\ new.content = (ContentOf(p) # Nobody)
         /\ new.canonicalEvidence = (LinkedOf(RawOf[p]) = {})
         /\ new.canonicalContent = (ContentOf(p) # Nobody /\ Shown(RawOf[p]) = {})
<1> DEFINE row == link[p]
           new == Linked(p)
           shows == ContentOf(p) # Nobody
           first == LinkedOf(RawOf[p]) = {}
           firstShown == ContentOf(p) # Nobody /\ \A q \in LinkedOf(RawOf[p]) : ~link[q].content
<1>1. row \in Link /\ RowInv(row)
  BY DEF Rows
<1>2. new = [row EXCEPT !.status = "linked", !.error = "none", !.age = 0, !.delay = 0,
                        !.content = shows, !.canonicalEvidence = first, !.canonicalContent = firstShown]
  BY DEF Linked
<1>3. shows \in BOOLEAN /\ first \in BOOLEAN /\ firstShown \in BOOLEAN
  OBVIOUS
<1>4. firstShown = (shows /\ Shown(RawOf[p]) = {})
  BY DEF Shown
<1>5. "linked" \in LinkStatus /\ "none" \in Errors /\ 0 \in Nat
  BY DEF LinkStatus, Errors
<1> HIDE DEF row, new, shows, first, firstShown
<1>6. new \in Link
  BY <1>1, <1>2, <1>3, <1>5, Zenon DEF Link
<1>7. /\ new.status = "linked" /\ new.attempts = row.attempts /\ new.content = shows
      /\ new.canonicalEvidence = first /\ new.canonicalContent = firstShown
  BY <1>1, <1>2 DEF Link
<1>8. RowInv(new)
  BY <1>1, <1>4, <1>6, <1>7 DEF RowInv
<1>. QED
  BY <1>4, <1>7, <1>8 DEF row, new, shows, first

-----------------------------------------------------------------------------
(* Batches.                                                                *)

\* ItemDone and Goto keep the batches well-formed.
LEMMA ItemDoneBatches ==
  ASSUME Batches, NEW w \in Workers, NEW p, ItemDone(w, p)
  PROVE  Batches'
<1> DEFINE left == batch[w].claimed \ {p}
           next == [batch[w] EXCEPT !.pc = "read", !.claimed = left, !.item = Nobody, !.error = "none"]
<1>1. batch[w] \in Batch /\ left \in SUBSET Projections
  BY DEF Batches, Batch
<1>2. next \in Batch /\ next.pc = "read"
  <2>1. "none" \in Errors /\ Nobody \in Projections \cup {Nobody}
    BY DEF Errors
  <2> HIDE DEF left
  <2>. QED
    BY <1>1, <2>1 DEF Batch
<1>3. NoBatch \in Batch /\ NoBatch.pc = "idle"
  BY DEF NoBatch, Batch, Errors
<1>4. batch' = [batch EXCEPT ![w] = IF left = {} THEN NoBatch ELSE next]
  BY DEF ItemDone
<1> HIDE DEF next, left
<1>. QED
  BY <1>2, <1>3, <1>4 DEF Batches, BatchInv

LEMMA GotoBatches ==
  ASSUME Batches, NEW w \in Workers, NEW p \in Projections, NEW error \in Errors,
         NEW step \in {"link", "terminal", "retry"}, Goto(w, step, p, error)
  PROVE  Batches'
<1> DEFINE next == [batch[w] EXCEPT !.pc = step, !.item = p, !.error = error]
<1>1. batch[w] \in Batch /\ batch' = [batch EXCEPT ![w] = next]
  BY DEF Batches, Goto
<1>2. next \in Batch /\ next.item = p
  BY <1>1 DEF Batch
<1> HIDE DEF next
<1>. QED
  BY <1>1, <1>2 DEF Batches, BatchInv

-----------------------------------------------------------------------------
(* The transactions other than that of _link_one.                          *)

Quiet ==
    /\ link' \in [Projections -> Link]
    /\ \A p \in Projections : RowInv(link'[p]) /\ QuietStep(link[p], link'[p])

\* A quiet step leaves the lineage of every raw item alone.
LEMMA QuietLineage ==
  ASSUME Rows, Lineage, Quiet, UNCHANGED <<evidence, content>>
  PROVE  Rows' /\ Lineage'
<1>1. Rows'
  BY DEF Rows, Quiet
<1>2. ASSUME NEW r \in Raws
      PROVE  (EvidenceLineage(r) /\ ContentLineage(r))'
  <2>1. /\ LinkedOf(r)' = LinkedOf(r)
        /\ \A q \in LinkedOf(r) : q \in Projections /\ link'[q] = link[q]
    BY DEF LinkedOf, ProjectionsOf, Quiet, QuietStep
  <2>2. EvidenceLineage(r) /\ ContentLineage(r)
    BY DEF Lineage
  <2>3. {p \in LinkedOf(r)' : link'[p].canonicalEvidence} = {p \in LinkedOf(r) : link[p].canonicalEvidence}
    BY <2>1
  <2>4. Shown(r)' = Shown(r)
    BY <2>1 DEF Shown
  <2>5. {p \in Shown(r)' : link'[p].canonicalContent} = {p \in Shown(r) : link[p].canonicalContent}
    BY <2>1, <2>4 DEF Shown
  <2>6. EvidenceLineage(r)'
    BY <2>1, <2>2, <2>3 DEF EvidenceLineage
  <2>7. ContentLineage(r)'
    BY <2>2, <2>4, <2>5 DEF ContentLineage
  <2>. QED
    BY <2>6, <2>7
<1>. QED
  BY <1>1, <1>2 DEF Lineage

\* A step that moves links only quietly, creates none without a READY projection and
\* leaves the other rows alone keeps the invariant.
LEMMA QuietKeepsInv ==
  ASSUME Inv, Quiet, Batches', UNCHANGED <<evidence, content>>, ready \subseteq ready',
         ready' \subseteq Projections, crashes' \in Nat,
         \A p \in Projections : link[p].status = "absent" /\ link'[p].status # "absent" => p \in ready'
  PROVE  Inv'
<1>1. Rows' /\ Lineage'
  BY QuietLineage DEF Inv
<1>2. Discovered'
  BY DEF Inv, Discovered
<1>3. EvidenceRows'
  BY DEF Inv, EvidenceRows, OneRowPerIdentity, SameIdentity
<1>. QED
  BY <1>1, <1>2, <1>3 DEF Inv

\* A step that changes no link is quiet.
LEMMA SameQuiet ==
  ASSUME Inv, UNCHANGED link
  PROVE  Quiet
  BY SameStep DEF Inv, Rows, Quiet

\* A step of one link is quiet if that link's move is.
LEMMA OneQuiet ==
  ASSUME Inv, NEW p \in Projections, NEW new, RowInv(new), QuietStep(link[p], new),
         link' = [link EXCEPT ![p] = new]
  PROVE  Quiet
<1>1. new \in Link
  BY DEF RowInv
<1>2. \A q \in Projections : link'[q] = IF q = p THEN new ELSE link[q]
  BY DEF Inv, Rows
<1>3. link' \in [Projections -> Link]
  BY <1>1 DEF Inv, Rows
<1>. QED
  BY <1>2, <1>3, SameStep DEF Inv, Rows, Quiet

\* The three transactions over a page of links.
LEMMA RecoverStaleQuiet ==
  ASSUME Inv, NEW w \in Workers, RecoverStale(w)
  PROVE  Inv' /\ Quiet
<1>1. PICK page \in SUBSET StaleLinks(w) :
        link' = [p \in Projections |->
                   IF p \in page THEN PutBack(link[p], batch[w].age, 0) ELSE link[p]]
  BY DEF RecoverStale, Page
<1>2. \A p \in page : link[p].status = "processing"
  BY <1>1 DEF StaleLinks, InStatus
<1>3. batch[w].age \in Nat /\ 0 \in Nat
  BY DEF Inv, Batches, Batch
<1>4. \A p \in Projections : RowInv(link'[p]) /\ QuietStep(link[p], link'[p])
  <2> SUFFICES ASSUME NEW p \in Projections PROVE RowInv(link'[p]) /\ QuietStep(link[p], link'[p])
    OBVIOUS
  <2>1. link[p] \in Link /\ RowInv(link[p])
    BY DEF Inv, Rows
  <2>2. CASE p \in page
    BY <1>1, <1>2, <1>3, <2>1, <2>2, PutBackStep
  <2>3. CASE p \notin page
    BY <1>1, <2>1, <2>3, SameStep
  <2>. QED
    BY <2>2, <2>3
<1>5. Quiet
  BY <1>1, <1>4 DEF Quiet, RowInv
<1>6. Batches'
  BY SMTT(60) DEF Inv, Batches, BatchInv, Batch, RecoverStale
<1>7. \A p \in Projections : link[p].status = "absent" /\ link'[p].status # "absent" => p \in ready'
  BY <1>1, <1>2
<1>. QED
  BY <1>5, <1>6, <1>7, QuietKeepsInv DEF RecoverStale, Inv, Discovered

LEMMA DiscoverReadyQuiet ==
  ASSUME Inv, NEW w \in Workers, DiscoverReady(w)
  PROVE  Inv' /\ Quiet
<1>1. PICK page \in SUBSET {p \in ready : link[p].status = "absent"} :
        link' = [p \in Projections |->
                   IF p \in page THEN [NoLink EXCEPT !.status = "pending"] ELSE link[p]]
  BY DEF DiscoverReady, Page
<1>2. \A p \in Projections : RowInv(link'[p]) /\ QuietStep(link[p], link'[p])
  <2> SUFFICES ASSUME NEW p \in Projections PROVE RowInv(link'[p]) /\ QuietStep(link[p], link'[p])
    OBVIOUS
  <2>1. link[p] \in Link /\ RowInv(link[p])
    BY DEF Inv, Rows
  <2>2. CASE p \in page
    BY <1>1, <2>1, <2>2, InsertStep
  <2>3. CASE p \notin page
    BY <1>1, <2>1, <2>3, SameStep
  <2>. QED
    BY <2>2, <2>3
<1>3. Quiet
  BY <1>1, <1>2 DEF Quiet, RowInv
<1>4. Batches'
  BY SMTT(60) DEF Inv, Batches, BatchInv, Batch, DiscoverReady
<1>5. \A p \in Projections : link[p].status = "absent" /\ link'[p].status # "absent" => p \in ready'
  BY <1>1 DEF DiscoverReady
<1>. QED
  BY <1>3, <1>4, <1>5, QuietKeepsInv DEF DiscoverReady, Inv, Discovered

LEMMA ClaimQuiet ==
  ASSUME Inv, NEW w \in Workers, Claim(w)
  PROVE  Inv' /\ Quiet
<1>1. PICK page \in SUBSET ClaimableLinks(w) :
        /\ link' = [p \in Projections |->
                      IF p \in page THEN Claimed(link[p], batch[w].age) ELSE link[p]]
        /\ batch' = [batch EXCEPT ![w] =
                       IF page = {} THEN NoBatch ELSE [@ EXCEPT !.pc = "read", !.claimed = page]]
  BY DEF Claim, Page
<1>2. page \subseteq Projections /\ \A p \in page : link[p].status \in {"pending", "retry"}
  BY <1>1 DEF ClaimableLinks, InStatus
<1>3. batch[w].age \in Nat
  BY DEF Inv, Batches, Batch
<1>4. \A p \in Projections : RowInv(link'[p]) /\ QuietStep(link[p], link'[p])
  <2> SUFFICES ASSUME NEW p \in Projections PROVE RowInv(link'[p]) /\ QuietStep(link[p], link'[p])
    OBVIOUS
  <2>1. link[p] \in Link /\ RowInv(link[p])
    BY DEF Inv, Rows
  <2>2. CASE p \in page
    BY <1>1, <1>2, <1>3, <2>1, <2>2, ClaimedStep
  <2>3. CASE p \notin page
    BY <1>1, <2>1, <2>3, SameStep
  <2>. QED
    BY <2>2, <2>3
<1>5. Quiet
  BY <1>1, <1>4 DEF Quiet, RowInv
<1>6. Batches'
  <2> DEFINE next == [batch[w] EXCEPT !.pc = "read", !.claimed = page]
  <2>1. batch[w] \in Batch /\ page \in SUBSET Projections
    BY <1>2 DEF Inv, Batches
  <2>2. next \in Batch /\ next.pc = "read"
    BY <2>1 DEF Batch
  <2>3. NoBatch \in Batch /\ NoBatch.pc = "idle"
    BY DEF NoBatch, Batch, Errors
  <2>4. batch' = [batch EXCEPT ![w] = IF page = {} THEN NoBatch ELSE next]
    BY <1>1
  <2> HIDE DEF next
  <2>. QED
    BY <2>2, <2>3, <2>4 DEF Inv, Batches, BatchInv
<1>7. \A p \in Projections : link[p].status = "absent" /\ link'[p].status # "absent" => p \in ready'
  BY <1>1, <1>2
<1>. QED
  BY <1>5, <1>6, <1>7, QuietKeepsInv DEF Claim, Inv, Discovered

\* _terminal and _retry touch their link only while it is PROCESSING.
LEMMA TerminalQuiet ==
  ASSUME Inv, NEW w \in Workers, Terminal(w)
  PROVE  Inv' /\ Quiet
<1> DEFINE p == batch[w].item
           new == [link[p] EXCEPT !.status = "blocked", !.error = batch[w].error, !.age = 0]
<1>1. p \in Projections /\ batch[w].error \in Errors
  BY DEF Terminal, Inv, Batches, BatchInv, Batch
<1>2. link[p] \in Link /\ RowInv(link[p])
  BY <1>1 DEF Inv, Rows
<1>3. link' = [link EXCEPT ![p] = IF link[p].status # "processing" THEN link[p] ELSE new]
  BY DEF Terminal
<1>4. link[p].status = "processing" => RowInv(new) /\ QuietStep(link[p], new)
  BY <1>1, <1>2, BlockedStep
<1>5. Quiet
  <2> HIDE DEF p, new
  <2>1. CASE link[p].status = "processing"
    BY <1>1, <1>3, <1>4, <2>1, OneQuiet
  <2>2. CASE link[p].status # "processing"
    BY <1>1, <1>2, <1>3, <2>2, SameStep, OneQuiet
  <2>. QED
    BY <2>1, <2>2
<1>6. Batches'
  BY ItemDoneBatches DEF Terminal, Inv
<1>7. \A q \in Projections : link[q].status = "absent" /\ link'[q].status # "absent" => q \in ready'
  <2> HIDE DEF new
  <2>. QED
    BY <1>1, <1>3 DEF Inv, Rows
<1>. QED
  BY <1>5, <1>6, <1>7, QuietKeepsInv DEF Terminal, Inv, Discovered

LEMMA RetryQuiet ==
  ASSUME Inv, NEW w \in Workers, Retry(w)
  PROVE  Inv' /\ Quiet
<1> DEFINE p == batch[w].item
           new == PutBack(link[p], batch[w].age, RetryDelay)
<1>1. p \in Projections /\ batch[w].age \in Nat /\ RetryDelay \in Nat
  BY HandoffAssumption DEF Retry, Inv, Batches, BatchInv, Batch
<1>2. link[p] \in Link /\ RowInv(link[p])
  BY <1>1 DEF Inv, Rows
<1>3. link' = [link EXCEPT ![p] = IF link[p].status # "processing" THEN link[p] ELSE new]
  BY DEF Retry
<1>4. link[p].status = "processing" => RowInv(new) /\ QuietStep(link[p], new)
  BY <1>1, <1>2, PutBackStep
<1>5. Quiet
  <2> HIDE DEF p, new
  <2>1. CASE link[p].status = "processing"
    BY <1>1, <1>3, <1>4, <2>1, OneQuiet
  <2>2. CASE link[p].status # "processing"
    BY <1>1, <1>2, <1>3, <2>2, SameStep, OneQuiet
  <2>. QED
    BY <2>1, <2>2
<1>6. Batches'
  BY ItemDoneBatches DEF Retry, Inv
<1>7. \A q \in Projections : link[q].status = "absent" /\ link'[q].status # "absent" => q \in ready'
  <2> HIDE DEF new
  <2>. QED
    BY <1>1, <1>3 DEF Inv, Rows
<1>. QED
  BY <1>5, <1>6, <1>7, QuietKeepsInv DEF Retry, Inv, Discovered

-----------------------------------------------------------------------------
(* _link_one.                                                              *)

\* What _evidence has found when it does not conflict.
LEMMA NoEvidenceConflict ==
  ASSUME NEW p, ~EvidenceConflict(p)
  PROVE  LET r == RawOf[p]
             canonical == {q \in LinkedOf(r) : link[q].canonicalEvidence}
         IN
         /\ evidence[r] # NoEvidence =>
              /\ canonical = {} => evidence[r].of = p
              /\ \A q : canonical = {q} => evidence[r].of = q /\ ItemOf[q] = ItemOf[p]
              /\ evidence[r].content => ContentOf(p) # Nobody
         /\ evidence[r] = NoEvidence =>
              \A q \in Raws : evidence[q].item = ItemOf[p] => evidence[q].opaque
<1> DEFINE r == RawOf[p]
           canonical == {q \in LinkedOf(r) : link[q].canonicalEvidence}
           chosen == CHOOSE q \in canonical : TRUE
           origin == IF canonical = {} THEN p ELSE chosen
<1>1. \A q : canonical = {q} => chosen = q
  <2> HIDE DEF canonical
  <2>. QED
    OBVIOUS
<1>2. IF evidence[r] # NoEvidence
      THEN /\ ItemOf[origin] = ItemOf[p]
           /\ evidence[r].of = origin
           /\ ~(ContentOf(p) = Nobody /\ evidence[r].content)
      ELSE ~ \E q \in Raws : evidence[q].item = ItemOf[p] /\ ~evidence[q].opaque
  BY DEF EvidenceConflict
<1> HIDE DEF canonical, chosen
<1>. QED
  BY <1>1, <1>2 DEF canonical

\* What _content has found when it does not conflict.
LEMMA NoContentConflict ==
  ASSUME NEW p, ~ContentConflict(p), content[RawOf[p]] # Nobody
  PROVE  LET r == RawOf[p]
             canonical == {q \in LinkedOf(r) : link[q].canonicalContent}
         IN
         /\ canonical = {} => content[r] = p
         /\ \A q : canonical = {q} => content[r] = q
<1> DEFINE r == RawOf[p]
           canonical == {q \in LinkedOf(r) : link[q].canonicalContent}
           chosen == CHOOSE q \in canonical : TRUE
           origin == IF canonical = {} THEN p ELSE chosen
<1>1. \A q : canonical = {q} => chosen = q
  <2> HIDE DEF canonical
  <2>. QED
    OBVIOUS
<1>2. content[r] = origin
  BY DEF ContentConflict
<1> HIDE DEF canonical, chosen
<1>. QED
  BY <1>1, <1>2 DEF canonical

\* Canonical content links are among those that have content.
LEMMA CanonicalIsShown ==
  ASSUME Inv, NEW r \in Raws
  PROVE  {q \in LinkedOf(r) : link[q].canonicalContent} = {q \in Shown(r) : link[q].canonicalContent}
  BY DEF Inv, Rows, RowInv, LinkedOf, ProjectionsOf, Shown

\* The content that a link of p adopts is that of p, or that of the canonical link.
LEMMA AdoptedContent ==
  ASSUME Inv, NEW p \in Projections, ~ContentConflict(p), ContentOf(p) # Nobody
  PROVE  /\ Shown(RawOf[p]) = {} => ContentOf(p) = p
         /\ Shown(RawOf[p]) # {} => /\ ContentOf(p) = content[RawOf[p]]
                                    /\ {q \in Shown(RawOf[p]) : link[q].canonicalContent} = {ContentOf(p)}
<1> DEFINE r == RawOf[p]
           canonical == {q \in Shown(r) : link[q].canonicalContent}
<1>1. r \in Raws
  BY HandoffAssumption
<1>2. canonical = {q \in LinkedOf(r) : link[q].canonicalContent}
  BY <1>1, CanonicalIsShown
<1>3. ContentLineage(r)
  BY <1>1 DEF Inv, Lineage
<1>4. CASE Shown(r) = {}
  <2>1. canonical = {}
    BY <1>4
  <2>2. content[r] # Nobody => content[r] = p
    BY <1>2, <2>1, NoContentConflict
  <2>. QED
    BY <1>4, <2>2 DEF ContentOf
<1>5. CASE Shown(r) # {}
  <2>1. canonical = {content[r]}
    BY <1>3, <1>5 DEF ContentLineage
  <2>2. content[r] \in Projections
    BY <2>1 DEF Shown, LinkedOf, ProjectionsOf
  <2>3. content[r] # Nobody
    BY <2>2, HandoffAssumption
  <2>. QED
    BY <1>5, <2>1, <2>3 DEF ContentOf
<1>. QED
  BY <1>4, <1>5

\* The evidence that a link of p adopts is that of p, or that of the canonical link.
LEMMA AdoptedEvidence ==
  ASSUME Inv, NEW p \in Projections, ~EvidenceConflict(p)
  PROVE  /\ EvidenceInv(EvidenceOf(p))
         /\ EvidenceOf(p).item = ItemOf[p]
         /\ EvidenceOf(p).content => ContentOf(p) # Nobody
         /\ LinkedOf(RawOf[p]) = {} => EvidenceOf(p).of = p
         /\ LinkedOf(RawOf[p]) # {} =>
              /\ EvidenceOf(p) = evidence[RawOf[p]] /\ evidence[RawOf[p]] # NoEvidence
              /\ EvidenceOf(p).of \in LinkedOf(RawOf[p])
              /\ {q \in LinkedOf(RawOf[p]) : link[q].canonicalEvidence} = {EvidenceOf(p).of}
              /\ \A q \in LinkedOf(RawOf[p]) : ItemOf[q] = EvidenceOf(p).item
<1> DEFINE r == RawOf[p]
           canonical == {q \in LinkedOf(r) : link[q].canonicalEvidence}
<1>1. r \in Raws /\ ItemOf[p] \in Items
  BY HandoffAssumption
<1>2. EvidenceInv(evidence[r]) /\ EvidenceLineage(r)
  BY <1>1 DEF Inv, EvidenceRows, Lineage
<1>3. LinkedOf(r) # {} => canonical = {evidence[r].of}
  BY <1>2 DEF EvidenceLineage
<1>4. LinkedOf(r) = {} => canonical = {}
  OBVIOUS
<1>5. LinkedOf(r) # {} => evidence[r].of \in LinkedOf(r) /\ \A q \in LinkedOf(r) : ItemOf[q] = evidence[r].item
  BY <1>2 DEF EvidenceLineage
<1>6. \A q \in LinkedOf(r) : q # Nobody
  BY HandoffAssumption DEF LinkedOf, ProjectionsOf
<1>7. NoEvidence.of = Nobody /\ p # Nobody
  BY HandoffAssumption DEF NoEvidence
<1>8. CASE evidence[r] # NoEvidence
  <2>1. EvidenceOf(p) = evidence[r]
    BY <1>8 DEF EvidenceOf
  <2>2. LinkedOf(r) = {} => evidence[r].of = p
    BY <1>4, <1>8, NoEvidenceConflict
  <2>3. LinkedOf(r) # {} => ItemOf[evidence[r].of] = ItemOf[p]
    <3> DEFINE of == evidence[r].of
    <3>1. canonical = {of} => ItemOf[of] = ItemOf[p]
      BY <1>8, NoEvidenceConflict
    <3>. QED
      BY <1>3, <3>1
  <2>4. evidence[r].item = ItemOf[p]
    BY <1>2, <1>5, <1>6, <1>7, <2>2, <2>3 DEF EvidenceInv
  <2>5. evidence[r].content => ContentOf(p) # Nobody
    BY <1>8, NoEvidenceConflict
  <2>. QED
    BY <1>2, <1>3, <1>5, <1>8, <2>1, <2>2, <2>4, <2>5
<1>9. CASE evidence[r] = NoEvidence
  <2>1. EvidenceOf(p) =
          [item |-> ItemOf[p], opaque |-> FALSE, of |-> p, content |-> ContentOf(p) # Nobody]
    BY <1>9 DEF EvidenceOf
  <2>2. LinkedOf(r) = {}
    BY <1>5, <1>6, <1>7, <1>9
  <2>3. EvidenceInv(EvidenceOf(p))
    BY <1>1, <2>1 DEF EvidenceInv, Evidence
  <2>4. EvidenceOf(p).item = ItemOf[p] /\ EvidenceOf(p).of = p
    BY <2>1
  <2>5. EvidenceOf(p).content => ContentOf(p) # Nobody
    <3> DEFINE shows == ContentOf(p) # Nobody
    <3>1. shows \in BOOLEAN /\ EvidenceOf(p) = [item |-> ItemOf[p], opaque |-> FALSE, of |-> p, content |-> shows]
      BY <2>1
    <3> HIDE DEF shows
    <3>2. EvidenceOf(p).content = shows
      BY <3>1
    <3>. QED
      BY <3>2 DEF shows
  <2>. QED
    BY <2>2, <2>3, <2>4, <2>5
<1>. QED
  BY <1>8, <1>9

\* The triggers accept what the checks of _link_one let through.
LEMMA GuardsFollowChecks ==
  ASSUME Inv, NEW p \in Projections, link[p].status = "processing",
         ~ContentConflict(p), ~EvidenceConflict(p)
  PROVE  GuardsAccept(p)
<1> DEFINE r == RawOf[p]
<1>1. /\ Linked(p).content = (ContentOf(p) # Nobody)
      /\ Linked(p).canonicalEvidence = (LinkedOf(r) = {})
      /\ Linked(p).canonicalContent = (ContentOf(p) # Nobody /\ Shown(r) = {})
  BY LinkedRow DEF Inv
<1>2. AssociationGuard(p)
  BY <1>1, AdoptedEvidence DEF AssociationGuard, Inv, Discovered
<1>3. EvidenceAdoptionGuard(p)
  <2>1. CASE LinkedOf(r) = {}
    BY <1>1, <2>1, AdoptedEvidence DEF EvidenceAdoptionGuard
  <2>2. CASE LinkedOf(r) # {}
    <3> DEFINE of == EvidenceOf(p).of
    <3>1. of \in {q \in LinkedOf(r) : link[q].canonicalEvidence} /\ EvidenceOf(p).item = ItemOf[of]
      BY <2>2, AdoptedEvidence
    <3>. QED
      BY <1>1, <2>2, <3>1 DEF EvidenceAdoptionGuard
  <2>. QED
    BY <2>1, <2>2
<1>4. ContentAdoptionGuard(p)
  <2>1. Shown(r) = {q \in LinkedOf(r) : link[q].content}
    BY DEF Shown
  <2>2. CASE ContentOf(p) = Nobody
    <3>1. p \notin Articles
      BY <2>2, HandoffAssumption DEF ContentOf
    <3>. QED
      BY <1>1, <2>2, <3>1 DEF ContentAdoptionGuard
  <2>3. CASE ContentOf(p) # Nobody /\ Shown(r) = {}
    BY <1>1, <2>1, <2>3, AdoptedContent DEF ContentAdoptionGuard
  <2>4. CASE ContentOf(p) # Nobody /\ Shown(r) # {}
    BY <1>1, <2>1, <2>4, AdoptedContent DEF ContentAdoptionGuard
  <2>. QED
    BY <2>2, <2>3, <2>4
<1>. QED
  BY <1>2, <1>3, <1>4 DEF GuardsAccept

\* A link of p becomes LINKED together with the content and the evidence row.
LinkStep(p) ==
    /\ link[p].status = "processing"
    /\ link' = [link EXCEPT ![p] = Linked(p)]
    /\ content' = [content EXCEPT ![RawOf[p]] = ContentOf(p)]
    /\ evidence' = [evidence EXCEPT ![RawOf[p]] = EvidenceOf(p)]

\* Its own raw item: the row it adopts or creates is that of the canonical link.
LEMMA LinkStepOwnLineage ==
  ASSUME Inv, NEW p \in Projections, LinkStep(p), ~ContentConflict(p), ~EvidenceConflict(p)
  PROVE  (EvidenceLineage(RawOf[p]) /\ ContentLineage(RawOf[p]))'
<1> DEFINE r == RawOf[p]
<1>1. r \in Raws /\ p # Nobody
  BY HandoffAssumption
<1>2. /\ \A q \in Projections \ {p} : link'[q] = link[q]
      /\ link'[p] = Linked(p)
      /\ evidence'[r] = EvidenceOf(p) /\ content'[r] = ContentOf(p)
  BY <1>1 DEF LinkStep, Inv, Rows, EvidenceRows
<1>3. /\ Linked(p).status = "linked"
      /\ Linked(p).content = (ContentOf(p) # Nobody)
      /\ Linked(p).canonicalEvidence = (LinkedOf(r) = {})
      /\ Linked(p).canonicalContent = (ContentOf(p) # Nobody /\ Shown(r) = {})
  BY LinkedRow DEF LinkStep, Inv
<1>4. p \in ProjectionsOf(r) /\ p \notin LinkedOf(r)
  BY DEF ProjectionsOf, LinkedOf, LinkStep
<1>5. LinkedOf(r)' = LinkedOf(r) \cup {p}
  BY <1>2, <1>3, <1>4 DEF LinkedOf, ProjectionsOf
<1>6. \A q \in LinkedOf(r) : link'[q] = link[q] /\ q # p
  BY <1>2, <1>4 DEF LinkedOf, ProjectionsOf
<1>7. EvidenceLineage(r)'
  <2>1. CASE LinkedOf(r) = {}
    <3>1. {q \in LinkedOf(r)' : link'[q].canonicalEvidence} = {p}
      BY <1>2, <1>3, <1>5, <2>1
    <3>. QED
      BY <1>2, <1>5, <2>1, <3>1, AdoptedEvidence DEF EvidenceLineage
  <2>2. CASE LinkedOf(r) # {}
    <3> DEFINE of == EvidenceOf(p).of
    <3>1. /\ of \in LinkedOf(r)
          /\ {q \in LinkedOf(r) : link[q].canonicalEvidence} = {of}
          /\ EvidenceOf(p).item = ItemOf[p]
          /\ \A q \in LinkedOf(r) : ItemOf[q] = EvidenceOf(p).item
      BY <2>2, AdoptedEvidence
    <3>2. {q \in LinkedOf(r)' : link'[q].canonicalEvidence} = {of}
      BY <1>2, <1>3, <1>5, <1>6, <2>2, <3>1
    <3>. QED
      BY <1>2, <1>5, <3>1, <3>2 DEF EvidenceLineage
  <2>. QED
    BY <2>1, <2>2
<1>8. ContentLineage(r)'
  <2>1. ContentLineage(r) /\ ~(content[r] = Nobody /\ Shown(r) # {})
    <3>1. ContentLineage(r)
      BY <1>1 DEF Inv, Lineage
    <3>. QED
      BY <3>1, HandoffAssumption DEF ContentLineage, Shown, LinkedOf, ProjectionsOf
  <2>2. CASE ContentOf(p) = Nobody
    <3>1. content[r] = Nobody /\ Shown(r) = {}
      BY <2>1, <2>2 DEF ContentOf
    <3>2. Shown(r)' = {}
      BY <1>2, <1>3, <1>5, <1>6, <2>2, <3>1 DEF Shown
    <3>. QED
      BY <3>2 DEF ContentLineage
  <2>3. CASE ContentOf(p) # Nobody
    <3>1. Shown(r)' = Shown(r) \cup {p}
      BY <1>2, <1>3, <1>5, <1>6, <2>3 DEF Shown
    <3>2. \A q \in Shown(r) : link'[q] = link[q] /\ q # p
      BY <1>6 DEF Shown
    <3>3. CASE Shown(r) = {}
      <4>1. {q \in Shown(r)' : link'[q].canonicalContent} = {p}
        BY <1>2, <1>3, <2>3, <3>1, <3>3
      <4>2. ContentOf(p) = p
        BY <2>3, <3>3, AdoptedContent
      <4>. QED
        BY <1>2, <4>1, <4>2 DEF ContentLineage
    <3>4. CASE Shown(r) # {}
      <4>1. {q \in Shown(r) : link[q].canonicalContent} = {ContentOf(p)}
        BY <2>3, <3>4, AdoptedContent
      <4>2. {q \in Shown(r)' : link'[q].canonicalContent} = {ContentOf(p)}
        BY <1>2, <1>3, <3>1, <3>2, <3>4, <4>1
      <4>. QED
        BY <1>2, <4>2 DEF ContentLineage
    <3>. QED
      BY <3>3, <3>4
  <2>. QED
    BY <2>2, <2>3
<1>. QED
  BY <1>7, <1>8

\* The rows of the other raw items.
LEMMA LinkStepOtherLineage ==
  ASSUME Inv, NEW p \in Projections, LinkStep(p), NEW s \in Raws, s # RawOf[p]
  PROVE  (EvidenceLineage(s) /\ ContentLineage(s))'
<1>1. \A q \in ProjectionsOf(s) : q # p /\ link'[q] = link[q]
  BY DEF ProjectionsOf, LinkStep, Inv, Rows
<1>2. evidence'[s] = evidence[s] /\ content'[s] = content[s]
  BY DEF LinkStep, Inv, EvidenceRows
<1>3. LinkedOf(s)' = LinkedOf(s)
  BY <1>1 DEF LinkedOf, ProjectionsOf
<1>4. \A q \in LinkedOf(s) : link'[q] = link[q]
  BY <1>1 DEF LinkedOf
<1>5. Shown(s)' = Shown(s)
  BY <1>3, <1>4 DEF Shown
<1>6. {q \in LinkedOf(s)' : link'[q].canonicalEvidence} = {q \in LinkedOf(s) : link[q].canonicalEvidence}
  BY <1>3, <1>4
<1>7. {q \in Shown(s)' : link'[q].canonicalContent} = {q \in Shown(s) : link[q].canonicalContent}
  BY <1>4, <1>5 DEF Shown
<1>8. EvidenceLineage(s) /\ ContentLineage(s)
  BY DEF Inv, Lineage
<1>9. EvidenceLineage(s)'
  BY <1>2, <1>3, <1>6, <1>8 DEF EvidenceLineage
<1>10. ContentLineage(s)'
  BY <1>2, <1>5, <1>7, <1>8 DEF ContentLineage
<1>. QED
  BY <1>9, <1>10

\* The identity of a new row is in its plain form that of no other raw item.
LEMMA LinkStepEvidenceRows ==
  ASSUME Inv, NEW p \in Projections, LinkStep(p), ~EvidenceConflict(p)
  PROVE  EvidenceRows'
<1> DEFINE r == RawOf[p]
           row == EvidenceOf(p)
<1>1. r \in Raws /\ ItemOf[p] \in Items
  BY HandoffAssumption
<1>2. EvidenceInv(row) /\ row \in Evidence
  BY AdoptedEvidence DEF EvidenceInv
<1>3. ContentOf(p) \in Projections \cup {Nobody}
  BY <1>1 DEF ContentOf, Inv, EvidenceRows
<1>4. \A s \in Raws : evidence'[s] = IF s = r THEN row ELSE evidence[s]
  BY DEF LinkStep, Inv, EvidenceRows
<1>5. /\ evidence' \in [Raws -> Evidence]
      /\ content' \in [Raws -> Projections \cup {Nobody}]
  BY <1>1, <1>2, <1>3 DEF LinkStep, Inv, EvidenceRows
<1>6. \A s \in Raws : EvidenceInv(evidence'[s])
  BY <1>2, <1>4 DEF Inv, EvidenceRows
<1>7. OneRowPerIdentity'
  <2>1. CASE evidence[r] # NoEvidence
    <3>1. row = evidence[r]
      BY <2>1 DEF EvidenceOf
    <3>. QED
      BY <1>4, <3>1 DEF Inv, EvidenceRows, OneRowPerIdentity, SameIdentity
  <2>2. CASE evidence[r] = NoEvidence
    <3>1. \A q \in Raws : evidence[q].item = ItemOf[p] => evidence[q].opaque
      BY <2>2, NoEvidenceConflict
    <3>2. row.item = ItemOf[p] /\ ~row.opaque
      BY <2>2 DEF EvidenceOf
    <3>3. \A q \in Raws \ {r} : ~SameIdentity(evidence[q], row) /\ ~SameIdentity(row, evidence[q])
      BY <3>1, <3>2 DEF SameIdentity
    <3> HIDE DEF row
    <3>4. \A q, s \in Raws : q # s /\ SameIdentity(evidence'[q], evidence'[s]) => evidence'[q] = NoEvidence
      BY <1>4, <3>3 DEF Inv, EvidenceRows, OneRowPerIdentity, SameIdentity
    <3>. QED
      BY <3>4 DEF OneRowPerIdentity, SameIdentity
  <2>. QED
    BY <2>1, <2>2
<1>. QED
  BY <1>5, <1>6, <1>7 DEF EvidenceRows

\* What _link_one has locked, looked at and written together keeps the invariant.
LEMMA LinkStepInv ==
  ASSUME Inv, NEW p \in Projections, LinkStep(p), ~ContentConflict(p), ~EvidenceConflict(p),
         Batches', UNCHANGED <<ready, crashes>>
  PROVE  Inv'
<1>1. RowInv(Linked(p)) /\ Linked(p) \in Link
  BY LinkedRow DEF LinkStep, Inv, RowInv
<1>2. /\ \A q \in Projections \ {p} : link'[q] = link[q]
      /\ link'[p] = Linked(p)
      /\ link' \in [Projections -> Link]
  BY <1>1 DEF LinkStep, Inv, Rows
<1>3. Rows'
  BY <1>1, <1>2 DEF Inv, Rows
<1>4. Discovered'
  BY <1>2 DEF Inv, Discovered, LinkStep
<1>5. EvidenceRows'
  BY LinkStepEvidenceRows
<1>6. Lineage'
  BY LinkStepOwnLineage, LinkStepOtherLineage DEF Lineage
<1>. QED
  BY <1>3, <1>4, <1>5, <1>6 DEF Inv

-----------------------------------------------------------------------------
(* Every step.                                                             *)

\* The clock ages links and batches.
LEMMA TickQuiet ==
  ASSUME Inv, Tick
  PROVE  Inv' /\ Quiet
<1>1. \A p \in Projections : RowInv(link'[p]) /\ QuietStep(link[p], link'[p])
  BY AgeStep, SameStep DEF Tick, Inv, Rows
<1>2. Quiet
  BY <1>1 DEF Tick, Quiet, RowInv
<1>3. \A w \in Workers : batch[w].age \in Nat /\ Older(batch[w].age) \in Nat
  BY HandoffAssumption DEF Inv, Batches, Batch, Older, OldAge
<1>4. Batches'
  <2>1. ASSUME NEW w \in Workers PROVE BatchInv(batch'[w])
    <3> DEFINE next == [batch[w] EXCEPT !.age = Older(@)]
    <3>1. BatchInv(batch[w]) /\ batch[w] \in Batch
      BY DEF Inv, Batches
    <3>2. BatchInv(next)
      BY <1>3, <3>1 DEF BatchInv, Batch
    <3>3. batch'[w] \in {next, batch[w]}
      BY DEF Tick
    <3>. QED
      BY <3>1, <3>2, <3>3
  <2>. QED
    BY <2>1 DEF Batches, BatchInv, Tick
<1>5. \A p \in Projections : link[p].status = "absent" /\ link'[p].status # "absent" => p \in ready'
  BY DEF Tick, Inv, Rows, Link
<1>. QED
  BY <1>2, <1>4, <1>5, QuietKeepsInv DEF Tick, Inv, Discovered

\* Steps that write no row.
LEMMA OtherQuiet ==
  ASSUME Inv, NEW w \in Workers,
         \/ \E p \in Projections : BecomeReady(p)
         \/ StartBatch(w)
         \/ \E p \in batch[w].claimed : ReadOne(w, p)
         \/ ItemFails(w)
         \/ Crash(w)
         \/ UNCHANGED vars
  PROVE  Inv' /\ Quiet
<1>1. NoBatch \in Batch /\ NoBatch.pc = "idle"
  BY DEF NoBatch, Batch, Errors
<1>2. /\ UNCHANGED <<link, evidence, content>>
      /\ ready \subseteq ready' /\ ready' \subseteq Projections /\ crashes' \in Nat
  BY DEF Inv, Discovered, BecomeReady, StartBatch, ReadOne, ItemFails, Crash, vars
<1>3. Batches'
  <2>1. CASE (\E p \in Projections : BecomeReady(p)) \/ UNCHANGED vars
    BY <2>1 DEF BecomeReady, vars, Inv, Batches
  <2>2. CASE StartBatch(w)
    <3>1. [NoBatch EXCEPT !.pc = "recover"] \in Batch /\ [NoBatch EXCEPT !.pc = "recover"].pc = "recover"
      BY DEF NoBatch, Batch, Errors
    <3>. QED
      BY <2>2, <3>1 DEF StartBatch, Inv, Batches, BatchInv
  <2>3. CASE \E p \in batch[w].claimed : ReadOne(w, p)
    <3>1. PICK p \in batch[w].claimed : ReadOne(w, p)
      BY <2>3
    <3>2. p \in Projections /\ {"none", "conflict"} \subseteq Errors
      BY DEF Inv, Batches, Batch, Errors
    <3>3. CASE ItemDone(w, p)
      BY <3>3, ItemDoneBatches DEF Inv
    <3>4. CASE Goto(w, "link", p, "none") \/ Goto(w, "terminal", p, "conflict")
      BY <3>2, <3>4, GotoBatches DEF Inv
    <3>. QED
      BY <3>1, <3>3, <3>4 DEF ReadOne
  <2>4. CASE ItemFails(w)
    <3>1. batch[w].item \in Projections /\ "none" \in Errors
      BY <2>4 DEF ItemFails, Inv, Batches, BatchInv, Errors
    <3>. QED
      BY <2>4, <3>1, GotoBatches DEF ItemFails, Inv
  <2>5. CASE Crash(w)
    BY <1>1, <2>5 DEF Crash, Inv, Batches, BatchInv
  <2>. QED
    BY <2>1, <2>2, <2>3, <2>4, <2>5
<1>. QED
  BY <1>2, <1>3, SameQuiet, QuietKeepsInv

\* _link_one writes its link, its content and its evidence, or nothing.
LEMMA LinkOneCases ==
  ASSUME Inv, NEW w \in Workers, LinkOne(w)
  PROVE  LET p == batch[w].item IN
         /\ p \in Projections
         /\ Inv'
         /\ (Quiet /\ UNCHANGED <<evidence, content>>) \/ LinkStep(p)
<1> DEFINE p == batch[w].item
<1>1. p \in Projections /\ {"conflict", "concurrent_change"} \subseteq Errors
  BY DEF LinkOne, Inv, Batches, BatchInv, Errors
<1>2. CASE /\ \E error \in {"conflict", "concurrent_change"} : Goto(w, "terminal", p, error)
           /\ UNCHANGED <<link, evidence, content, ready, crashes>>
  <2>1. Batches'
    BY <1>1, <1>2, GotoBatches DEF Inv
  <2>2. Quiet
    BY <1>2, SameQuiet
  <2>. QED
    BY <1>1, <1>2, <2>1, <2>2, QuietKeepsInv DEF Inv, Discovered
<1>3. CASE /\ ~ContentConflict(p) /\ ~EvidenceConflict(p)
           /\ LinkStep(p) /\ ItemDone(w, p) /\ UNCHANGED <<ready, crashes>>
  <2>1. Batches'
    BY <1>3, ItemDoneBatches DEF Inv
  <2>. QED
    BY <1>1, <1>3, <2>1, LinkStepInv
<1>. QED
  BY <1>2, <1>3 DEF LinkOne, LinkStep

\* The moves of one link in any step.
RowStep(old, new) ==
    \/ QuietStep(old, new)
    \/ old.status = "processing" /\ new.status = "linked" /\ new.attempts = old.attempts

LEMMA NextInv ==
  ASSUME Inv, [Next]_vars
  PROVE  Inv' /\ \A p \in Projections : RowStep(link[p], link'[p])
<1> SUFFICES Inv' /\ (Quiet \/ \E p \in Projections : LinkStep(p))
  <2>1. ASSUME NEW p \in Projections, LinkStep(p)
        PROVE  \A q \in Projections : RowStep(link[q], link'[q])
    <3>1. Linked(p).status = "linked" /\ Linked(p).attempts = link[p].attempts
      BY <2>1, LinkedRow DEF LinkStep, Inv
    <3>. QED
      BY <2>1, <3>1, SameStep DEF LinkStep, RowStep, Inv, Rows
  <2>. QED
    BY <2>1 DEF Quiet, RowStep
<1>1. CASE Tick
  BY <1>1, TickQuiet
<1>2. CASE \E p \in Projections : BecomeReady(p)
  <2>1. CASE Workers = {}
    <3>1. UNCHANGED <<link, evidence, content, batch, crashes>> /\ ready' \subseteq Projections /\ ready \subseteq ready'
      BY <1>2 DEF BecomeReady, Inv, Discovered
    <3>. QED
      BY <3>1, SameQuiet, QuietKeepsInv DEF Inv, Batches
  <2>2. CASE Workers # {}
    BY <1>2, <2>2, OtherQuiet
  <2>. QED
    BY <2>1, <2>2
<1>3. ASSUME NEW w \in Workers, StartBatch(w) \/ ProcessBatch(w) \/ Crash(w)
      PROVE  Inv' /\ (Quiet \/ \E p \in Projections : LinkStep(p))
  BY <1>3, OtherQuiet, RecoverStaleQuiet, DiscoverReadyQuiet, ClaimQuiet, LinkOneCases,
     TerminalQuiet, RetryQuiet DEF ProcessBatch
<1>4. CASE UNCHANGED vars
  BY <1>4, SameQuiet, QuietKeepsInv DEF vars, Inv, Batches, Discovered
<1>. QED
  BY <1>1, <1>2, <1>3, <1>4 DEF Next

\* The rows that the legacy write path leaves satisfy the invariant.
LEMMA InitInv == Init => Inv
<1> SUFFICES ASSUME Init PROVE Inv
  OBVIOUS
<1>1. NoLink \in Link /\ RowInv(NoLink) /\ NoLink.status = "absent"
  BY HandoffAssumption DEF NoLink, Link, RowInv, LinkStatus, Errors
<1>2. Rows /\ Discovered /\ \A r \in Raws : LinkedOf(r) = {}
  BY <1>1 DEF Init, Rows, Discovered, LinkedOf, ProjectionsOf
<1>3. Lineage
  BY <1>2 DEF Lineage, EvidenceLineage, ContentLineage, Shown
<1>4. Batches /\ crashes \in Nat
  BY DEF Init, Batches, BatchInv, Batch, NoBatch, Errors
<1>5. \A r \in Raws : \A row \in LegacyEvidence(r) : EvidenceInv(row)
  <2> SUFFICES ASSUME NEW r \in Raws, NEW row \in LegacyEvidence(r) PROVE EvidenceInv(row)
    OBVIOUS
  <2>1. CASE row = NoEvidence
    BY <2>1 DEF EvidenceInv, Evidence, NoEvidence
  <2>2. ASSUME NEW p \in ProjectionsOf(r), NEW c \in BOOLEAN, row = [item |-> ItemOf[p], opaque |-> TRUE, of |-> p, content |-> c]
        PROVE  EvidenceInv(row)
    <3>1. p \in Projections /\ ItemOf[p] \in Items
      BY HandoffAssumption DEF ProjectionsOf
    <3>. QED
      BY <2>2, <3>1 DEF EvidenceInv, Evidence
  <2>3. ASSUME NEW i \in Items, row = [item |-> i, opaque |-> TRUE, of |-> Nobody, content |-> FALSE]
        PROVE  EvidenceInv(row)
    BY <2>3 DEF EvidenceInv, Evidence
  <2>. QED
    <3>1. \/ row = NoEvidence
          \/ \E p \in ProjectionsOf(r), c \in BOOLEAN : row = [item |-> ItemOf[p], opaque |-> TRUE, of |-> p, content |-> c]
          \/ \E i \in Items : row = [item |-> i, opaque |-> TRUE, of |-> Nobody, content |-> FALSE]
      BY DEF LegacyEvidence
    <3>. QED
      BY <2>1, <2>2, <2>3, <3>1
<1>6. /\ evidence \in [Raws -> UNION {LegacyEvidence(r) : r \in Raws}]
      /\ \A r \in Raws : EvidenceInv(evidence[r])
  BY <1>5 DEF Init
<1>7. evidence \in [Raws -> Evidence] /\ OneRowPerIdentity
  BY <1>6 DEF Init, EvidenceInv, OneRowPerIdentity, SameIdentity
<1>8. content \in [Raws -> Projections \cup {Nobody}]
  BY DEF Init
<1>. QED
  BY <1>2, <1>3, <1>4, <1>6, <1>7, <1>8 DEF Inv, EvidenceRows

\* Inv is an invariant of the handoff.
THEOREM Invariance == Spec => []Inv
  BY InitInv, NextInv, PTL DEF Spec

\* Inv has the types of the links, rows and batches.
LEMMA InvTypes == Inv => TypeOK
  BY DEF Inv, Rows, Batches, Discovered, EvidenceRows, TypeOK

\* An identity in one form belongs to one raw item, so the lineage of Inv is the canonical
\* lineage.
LEMMA InvLineage == Inv => CanonicalLineage
<1> SUFFICES ASSUME Inv PROVE CanonicalLineage
  OBVIOUS
<1>1. ASSUME NEW r \in Raws, NEW q \in LinkedOf(r), evidence[r].of = q
      PROVE  \A s \in Raws \ {r} : ~SameIdentity(evidence[s], evidence[r])
  <2>1. q \in Projections /\ q # Nobody
    BY HandoffAssumption DEF LinkedOf, ProjectionsOf
  <2>2. evidence[r] # NoEvidence
    BY <1>1, <2>1 DEF NoEvidence
  <2>. QED
    BY <2>2 DEF Inv, EvidenceRows, OneRowPerIdentity, SameIdentity
<1>2. \A r \in Raws : EvidenceLineage(r) /\ ContentLineage(r)
  BY DEF Inv, Lineage
<1>. QED
  BY <1>1, <1>2, InvTypes DEF CanonicalLineage, EvidenceLineage, ContentLineage, Shown

\* The lineage that evidence/handoff.py and the triggers on evidence_projection_links are
\* to keep, whatever the revisions, the raw items and the processes.
THEOREM LineageIsCanonical == Spec => []CanonicalLineage
  BY Invariance, InvLineage, PTL

\* The triggers refuse nothing that _link_one is about to write.
THEOREM ChecksImplyGuards == Spec => []WorkerAgreesWithGuards
<1>1. Inv => WorkerAgreesWithGuards
  <2> SUFFICES ASSUME Inv, NEW w \in Workers, batch[w].pc = "link",
                      link[batch[w].item].status = "processing",
                      ~ContentConflict(batch[w].item), ~EvidenceConflict(batch[w].item)
               PROVE  GuardsAccept(batch[w].item)
    BY DEF WorkerAgreesWithGuards
  <2>1. batch[w].item \in Projections
    BY DEF Inv, Batches, BatchInv
  <2>. QED
    BY <2>1, GuardsFollowChecks
<1>. QED
  BY Invariance, <1>1, PTL

\* No transaction overwrites an evidence or content row: revisions adopt the first.
THEOREM FirstRowsWin == Spec => FirstRowWins
<1>1. Inv /\ [Next]_vars =>
        [\A r \in Raws : /\ evidence[r] # NoEvidence => evidence'[r] = evidence[r]
                         /\ content[r] # Nobody => content'[r] = content[r]]_vars
  <2> SUFFICES ASSUME Inv, Next, NEW r \in Raws
               PROVE  /\ evidence[r] # NoEvidence => evidence'[r] = evidence[r]
                      /\ content[r] # Nobody => content'[r] = content[r]
    OBVIOUS
  <2>1. ASSUME NEW w \in Workers, LinkOne(w)
        PROVE  /\ evidence[r] # NoEvidence => evidence'[r] = evidence[r]
               /\ content[r] # Nobody => content'[r] = content[r]
    <3> DEFINE p == batch[w].item
    <3>1. UNCHANGED <<evidence, content>> \/ LinkStep(p)
      BY <2>1, LinkOneCases
    <3>2. evidence[RawOf[p]] # NoEvidence => EvidenceOf(p) = evidence[RawOf[p]]
      BY DEF EvidenceOf
    <3>3. content[RawOf[p]] # Nobody => ContentOf(p) = content[RawOf[p]]
      BY DEF ContentOf
    <3>. QED
      BY <3>1, <3>2, <3>3 DEF LinkStep, Inv, EvidenceRows
  <2>2. (\A w \in Workers : ~LinkOne(w)) => UNCHANGED <<evidence, content>>
    BY DEF Next, BecomeReady, Tick, StartBatch, ProcessBatch, RecoverStale, DiscoverReady, Claim,
       ReadOne, ItemFails, Terminal, Retry, Crash
  <2>. QED
    BY <2>1, <2>2
<1>. QED
  BY Invariance, <1>1, PTL DEF Spec, FirstRowWins

\* The handoff implements bounded work: every transaction moves every link by a legal
\* step or not at all.
THEOREM Refinement == Spec => ImplementsBoundedWork
<1>1. Init => Work!Init
  BY DEF Init, Work!Init, NoLink
<1>2. Inv /\ [Next]_vars => [Work!Next]_(Work!vars)
  <2> SUFFICES ASSUME Inv, [Next]_vars PROVE Work!Next
    OBVIOUS
  <2>1. Inv' /\ \A p \in Projections : RowStep(link[p], link'[p])
    BY NextInv
  <2>2. \A p \in Projections : link[p] \in Link /\ link'[p] \in Link
    BY <2>1 DEF Inv, Rows
  <2>3. \A p \in Projections :
          \/ Work!Arrive(p) \/ Work!Take(p) \/ Work!PutBack(p)
          \/ Work!Finish(p) \/ Work!GiveUp(p) \/ Work!Stays(p)
    BY <2>1, <2>2 DEF RowStep, QuietStep, Link, LinkStatus, Work!Arrive, Work!Take, Work!PutBack,
       Work!Finish, Work!GiveUp, Work!Stays, Work!Moves, Work!Keeps
  <2>. QED
    BY <2>2, <2>3 DEF Work!Next, Work!States, Link, LinkStatus
<1>. QED
  BY <1>1, <1>2, Invariance, PTL DEF Spec, ImplementsBoundedWork, Work!Spec

=============================================================================
