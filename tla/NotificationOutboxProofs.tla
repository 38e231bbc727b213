---------------------- MODULE NotificationOutboxProofs ----------------------
(***************************************************************************)
(* Proofs about NotificationOutbox.  The inductive invariant adds to        *)
(* RowsAreSound what ties a row to a delivery that is still on its way:    *)
(* a delivery about to write SENT has put its message in the chat.          *)
(***************************************************************************)
EXTENDS NotificationOutbox, TLAPS

\* A delivery about to write SENT has put its message in the chat, whoever holds the
\* row by now.
AnswersAreBacked ==
    \A d \in Deliverers : delivery[d].pc = "sent" => \A c \in delivery[d].item : chat[c] > 0

IInv == TypeOK /\ RowsAreSound /\ AnswersAreBacked

USE DEF Notification, NotificationStatus, Reconcile, Delivery, NoNotification, NoReconcile, NoDelivery

-----------------------------------------------------------------------------
\* A backed-off delay is a natural number below the cap.
LEMMA BackoffType ==
    ASSUME NEW n PROVE Backoff(n) \in Nat
BY OutboxAssumption DEF Backoff

\* A failed row has one more retry and waits.
LEMMA FailedType ==
    ASSUME NEW n \in Notification
    PROVE  /\ Failed(n) \in Notification
           /\ Failed(n).status = "failed"
           /\ Failed(n).retries = n.retries + 1
BY BackoffType DEF Failed

\* What a claim makes of a row.
LEMMA ClaimedType ==
    ASSUME NEW n \in Notification
    PROVE  LET m == [n EXCEPT !.status = "sending", !.age = 0, !.wait = 0]
           IN  m \in Notification /\ m.status = "sending" /\ m.retries = n.retries
<1> DEFINE m == [n EXCEPT !.status = "sending", !.age = 0, !.wait = 0]
<1>1. m \in Notification
    BY "sending" \in NotificationStatus, 0 \in Nat, Zenon
<1>2. m.status = "sending" /\ m.retries = n.retries
    OBVIOUS
<1>. QED BY <1>1, <1>2

\* What the end of a successful send makes of a row.
LEMMA SentType ==
    ASSUME NEW n \in Notification
    PROVE  LET m == [n EXCEPT !.status = "sent", !.age = 0]
           IN  m \in Notification /\ m.status = "sent" /\ m.retries = n.retries
<1> DEFINE m == [n EXCEPT !.status = "sent", !.age = 0]
<1>1. m \in Notification
    BY "sent" \in NotificationStatus, 0 \in Nat, Zenon
<1>2. m.status = "sent" /\ m.retries = n.retries
    OBVIOUS
<1>. QED BY <1>1, <1>2

\* A delivery grows older and stays what it is.
LEMMA AgedType ==
    ASSUME NEW b \in Delivery
    PROVE  LET a == [b EXCEPT !.age = @ + 1]
           IN  a \in Delivery /\ a.pc = b.pc /\ a.item = b.item
<1> DEFINE a == [b EXCEPT !.age = @ + 1]
<1>1. a = [pc |-> b.pc, claimed |-> b.claimed, item |-> b.item, age |-> b.age + 1]
    OBVIOUS
<1>. QED BY <1>1

\* A delivery begins with a page, and goes on to its next row.
LEMMA StepType ==
    ASSUME NEW b \in Delivery, NEW page \in SUBSET Contents
    PROVE  LET begun == [NoDelivery EXCEPT !.pc = "send", !.claimed = page]
               next == [b EXCEPT !.pc = "send", !.item = {}]
           IN  begun \in Delivery /\ begun.pc = "send" /\ next \in Delivery /\ next.pc = "send"
<1> DEFINE begun == [NoDelivery EXCEPT !.pc = "send", !.claimed = page]
           next == [b EXCEPT !.pc = "send", !.item = {}]
<1>1. "send" \in {"idle", "send", "sent", "fail"} /\ {} \in SUBSET Contents /\ NoDelivery \in Delivery
    OBVIOUS
<1>2. begun \in Delivery
    BY <1>1, Zenon
<1>3. next \in Delivery
    BY <1>1, Zenon
<1>4. begun.pc = "send" /\ next.pc = "send"
    OBVIOUS
<1>. QED BY <1>2, <1>3, <1>4

\* The end of a row leaves every delivery a delivery, and none about to write SENT that
\* was not.
LEMMA ItemDoneType ==
    ASSUME NEW d \in Deliverers, delivery \in [Deliverers -> Delivery], ItemDone(d)
    PROVE  /\ delivery' \in [Deliverers -> Delivery]
           /\ \A x \in Deliverers : delivery'[x].pc = "sent" => delivery'[x] = delivery[x]
<1>1. delivery'[d] = NoDelivery \/ delivery'[d] = [delivery[d] EXCEPT !.pc = "send", !.item = {}]
    BY DEF ItemDone
<1>2. delivery'[d] \in Delivery /\ delivery'[d].pc # "sent"
  <2>1. CASE delivery'[d] = NoDelivery
    BY <2>1
  <2>2. CASE delivery'[d] = [delivery[d] EXCEPT !.pc = "send", !.item = {}]
    <3>1. delivery[d] \in Delivery /\ {} \in SUBSET Contents
      OBVIOUS
    <3>2. delivery'[d] \in Delivery /\ delivery'[d].pc = "send"
      BY <2>2, <3>1, StepType, Zenon
    <3>. QED BY <3>2
  <2>. QED BY <1>1, <2>1, <2>2
<1>3. \A x \in Deliverers : x # d => delivery'[x] = delivery[x]
    BY DEF ItemDone
<1>4. DOMAIN delivery' = Deliverers /\ delivery' = [x \in Deliverers |-> delivery'[x]]
    BY DEF ItemDone
<1>. QED BY <1>2, <1>3, <1>4

\* A page is made of the rows it was taken from.
LEMMA PageSubset ==
    ASSUME NEW rows, NEW limit, NEW page \in Page(rows, limit) PROVE page \subseteq rows
BY DEF Page

\* The empty outbox satisfies the invariant.
LEMMA InitIInv == Init => IInv
BY OutboxAssumption DEF Init, IInv, TypeOK, RowsAreSound, AnswersAreBacked

-----------------------------------------------------------------------------
\* Every step of the specification preserves the invariant.
LEMMA StepIInv == IInv /\ [Next]_vars => IInv'
<1> SUFFICES ASSUME IInv, [Next]_vars PROVE IInv'
    OBVIOUS
<1> USE OutboxAssumption
<1>1. ASSUME NEW c \in Contents, NEW status \in {"none", "open"}, CommitContent(c, status) PROVE IInv'
    BY <1>1 DEF IInv, TypeOK, RowsAreSound, AnswersAreBacked, CommitContent
<1>2. CASE ToggleSource
    BY <1>2 DEF IInv, TypeOK, RowsAreSound, AnswersAreBacked, ToggleSource
<1>3. ASSUME NEW r \in Reconcilers, ReconcileRead(r) PROVE IInv'
  <2>1. reconcile' \in [Reconcilers -> Reconcile]
    <3>1. PICK recoveries \in Page(OpenRecoveries, Limit) :
             \E ids : /\ ids \subseteq Contents
                      /\ reconcile' = [reconcile EXCEPT ![r] =
                             [active |-> TRUE, recoveries |-> recoveries, ids |-> ids]]
      BY <1>3, PageSubset DEF ReconcileRead, Scannable, IInv, TypeOK, Page
    <3>2. recoveries \subseteq Contents
      BY <3>1, PageSubset DEF OpenRecoveries, IInv, TypeOK
    <3>. QED BY <3>1, <3>2 DEF IInv, TypeOK
  <2>. QED BY <1>3, <2>1 DEF IInv, TypeOK, RowsAreSound, AnswersAreBacked, ReconcileRead
<1>4. ASSUME NEW r \in Reconcilers, ReconcileWrite(r) PROVE IInv'
  <2>1. notification' \in [Contents -> Notification]
    BY <1>4 DEF IInv, TypeOK, ReconcileWrite
  <2>2. recovery' \in [Contents -> {"none", "open", "resolved"}] /\ scanned' \subseteq Contents
    BY <1>4 DEF IInv, TypeOK, ReconcileWrite
  <2>3. TypeOK'
    BY <1>4, <2>1, <2>2 DEF IInv, TypeOK, ReconcileWrite
  <2>4. RowsAreSound'
    BY <1>4 DEF IInv, TypeOK, ReconcileWrite, RowsAreSound
  <2>. QED BY <1>4, <2>3, <2>4 DEF IInv, AnswersAreBacked, ReconcileWrite
<1>5. ASSUME NEW r \in Reconcilers, ReconcileFails(r) PROVE IInv'
    BY <1>5 DEF IInv, TypeOK, RowsAreSound, AnswersAreBacked, ReconcileFails
<1>6. CASE Tick
  <2>1. \A c \in Contents :
           /\ notification'[c] \in Notification
           /\ notification'[c].status = notification[c].status
           /\ notification'[c].retries = notification[c].retries
    BY <1>6 DEF IInv, TypeOK, Tick
  <2>2. notification' \in [Contents -> Notification]
    BY <1>6, <2>1 DEF Tick
  <2>3. /\ delivery' \in [Deliverers -> Delivery]
        /\ \A d \in Deliverers : /\ delivery'[d].pc = delivery[d].pc
                                 /\ delivery'[d].item = delivery[d].item
    <3>1. \A d \in Deliverers :
             delivery'[d] = IF delivery[d].pc = "idle" THEN delivery[d]
                            ELSE [delivery[d] EXCEPT !.age = @ + 1]
      BY <1>6 DEF Tick
    <3>2. \A d \in Deliverers : delivery[d] \in Delivery
      BY DEF IInv, TypeOK
    <3>3. \A d \in Deliverers : /\ delivery'[d] \in Delivery
                                /\ delivery'[d].pc = delivery[d].pc
                                /\ delivery'[d].item = delivery[d].item
      <4> TAKE d \in Deliverers
      <4>1. CASE delivery[d].pc = "idle"
        BY <3>1, <3>2, <4>1
      <4>2. CASE delivery[d].pc # "idle"
        <5>1. delivery'[d] = [delivery[d] EXCEPT !.age = @ + 1]
          BY <3>1, <4>2
        <5>. QED BY <3>2, <5>1, AgedType, Zenon
      <4>. QED BY <4>1, <4>2
    <3>. QED BY <1>6, <3>3 DEF Tick
  <2>4. TypeOK'
    BY <1>6, <2>2, <2>3 DEF IInv, TypeOK, Tick, intentVars
  <2>. QED BY <1>6, <2>1, <2>3, <2>4 DEF IInv, RowsAreSound, AnswersAreBacked, Tick
<1>7. ASSUME NEW d \in Deliverers, Claim(d) PROVE IInv'
  <2>1. PICK page \in SUBSET Contents :
           /\ \A c \in page : notification[c].retries < MaxAttempts
           /\ notification' = [c \in Contents |->
                IF c \in page THEN [notification[c] EXCEPT !.status = "sending", !.age = 0, !.wait = 0]
                ELSE notification[c]]
           /\ delivery' = [delivery EXCEPT ![d] = [NoDelivery EXCEPT !.pc = "send", !.claimed = page]]
    BY <1>7, PageSubset DEF Claim, Claimable
  <2>2. \A c \in Contents :
           /\ notification'[c] \in Notification
           /\ notification'[c].retries = notification[c].retries
           /\ notification'[c].status # notification[c].status =>
                 notification'[c].status = "sending" /\ notification[c].retries < MaxAttempts
    BY <2>1, ClaimedType DEF IInv, TypeOK
  <2>3. notification' \in [Contents -> Notification]
    BY <2>1, <2>2
  <2>4. delivery'[d] \in Delivery /\ delivery'[d].pc = "send"
    BY <2>1, StepType DEF IInv, TypeOK
  <2>5. TypeOK'
    BY <1>7, <2>1, <2>3, <2>4 DEF IInv, TypeOK, Claim, intentVars
  <2>6. RowsAreSound'
    BY <1>7, <2>2 DEF IInv, TypeOK, RowsAreSound, Claim
  <2>7. AnswersAreBacked'
    BY <1>7, <2>1, <2>4 DEF IInv, TypeOK, AnswersAreBacked, Claim
  <2>. QED BY <2>5, <2>6, <2>7 DEF IInv
<1>8. ASSUME NEW d \in Deliverers, Send(d) PROVE IInv'
  <2>1. PICK c \in delivery[d].claimed : SendAccepted(d, c) \/ SendRefused(d, c) \/ SendLost(d, c)
    BY <1>8 DEF Send
  <2>2. c \in Contents
    BY <2>1 DEF IInv, TypeOK
  <2>3. CASE SendAccepted(d, c)
    BY <2>2, <2>3 DEF SendAccepted, Answered, IInv, TypeOK, RowsAreSound, AnswersAreBacked, intentVars
  <2>4. CASE SendRefused(d, c)
    BY <2>2, <2>4 DEF SendRefused, Answered, IInv, TypeOK, RowsAreSound, AnswersAreBacked, intentVars
  <2>5. CASE SendLost(d, c)
    BY <2>2, <2>5 DEF SendLost, Answered, IInv, TypeOK, RowsAreSound, AnswersAreBacked, intentVars
  <2>. QED BY <2>1, <2>3, <2>4, <2>5
<1>9. ASSUME NEW d \in Deliverers, MarkSent(d) PROVE IInv'
  <2>1. \A c \in Contents :
           /\ notification'[c] \in Notification
           /\ notification'[c].retries = notification[c].retries
           /\ notification'[c].status = "sending" => notification[c].status = "sending"
           /\ notification'[c].status = "sent" => notification[c].status = "sent" \/ c \in delivery[d].item
    BY <1>9, SentType DEF IInv, TypeOK, MarkSent
  <2>2. TypeOK'
    <3>1. notification' \in [Contents -> Notification]
      BY <1>9, <2>1 DEF MarkSent
    <3>. QED BY <1>9, <3>1, ItemDoneType DEF IInv, TypeOK, MarkSent, intentVars
  <2>3. RowsAreSound'
    BY <1>9, <2>1 DEF IInv, TypeOK, RowsAreSound, AnswersAreBacked, MarkSent
  <2>4. AnswersAreBacked'
    BY <1>9, ItemDoneType DEF IInv, TypeOK, AnswersAreBacked, MarkSent
  <2>. QED BY <2>2, <2>3, <2>4 DEF IInv
<1>10. ASSUME NEW d \in Deliverers, MarkFailed(d) PROVE IInv'
  <2>1. \A c \in Contents :
           \/ notification'[c] = notification[c]
           \/ /\ notification[c].status = "sending"
              /\ notification'[c] = Failed(notification[c])
    BY <1>10 DEF MarkFailed
  <2>2. \A c \in Contents :
           /\ notification'[c] \in Notification
           /\ \/ notification'[c] = notification[c]
              \/ /\ notification[c].status = "sending"
                 /\ notification'[c].status = "failed"
                 /\ notification'[c].retries = notification[c].retries + 1
    BY <2>1, FailedType DEF IInv, TypeOK
  <2>3. TypeOK'
    <3>1. notification' \in [Contents -> Notification]
      BY <1>10, <2>2 DEF MarkFailed
    <3>. QED BY <1>10, <3>1, ItemDoneType DEF IInv, TypeOK, MarkFailed, intentVars
  <2>4. RowsAreSound'
    BY <1>10, <2>2 DEF IInv, TypeOK, RowsAreSound, MarkFailed
  <2>5. AnswersAreBacked'
    BY <1>10, ItemDoneType DEF IInv, TypeOK, AnswersAreBacked, MarkFailed
  <2>. QED BY <2>3, <2>4, <2>5 DEF IInv
<1>11. ASSUME NEW d \in Deliverers, Crash(d) PROVE IInv'
    BY <1>11 DEF IInv, TypeOK, RowsAreSound, AnswersAreBacked, Crash, intentVars
<1>12. CASE UNCHANGED vars
    BY <1>12 DEF IInv, TypeOK, RowsAreSound, AnswersAreBacked, vars
<1>. QED BY <1>1, <1>2, <1>3, <1>4, <1>5, <1>6, <1>7, <1>8, <1>9, <1>10, <1>11, <1>12 DEF Next

\* The inductive invariant holds in every reachable state.
THEOREM Invariance == Spec => []IInv
BY InitIInv, StepIInv, PTL DEF Spec

\* OutboxIsSound: rows and tasks have their types, a SENT row is backed by a message in the
\* chat and no row fails more than MAX_ATTEMPTS times, however many deliveries overlap,
\* stall and die.
THEOREM OutboxSound == Spec => []OutboxIsSound
<1>1. IInv => OutboxIsSound
    BY DEF IInv, OutboxIsSound
<1>. QED BY Invariance, <1>1, PTL

-----------------------------------------------------------------------------
\* What may become of one row in a step.
FinalRow(c) ==
    LET n == notification[c] IN
    /\ n.status = "sent" \/ (n.status = "failed" /\ n.retries = MaxAttempts) =>
          /\ notification'[c].status = n.status
          /\ notification'[c].retries = n.retries
    /\ n.status # "absent" /\ notification'[c].status = "pending" => n.status = "pending"

\* Every step respects the outcome of every row.
LEMMA StepFinal == IInv /\ [Next]_vars => \A c \in Contents : FinalRow(c)
<1> SUFFICES ASSUME IInv, [Next]_vars, NEW c \in Contents PROVE FinalRow(c)
    OBVIOUS
<1> USE OutboxAssumption
<1>1. CASE UNCHANGED notification
    BY <1>1 DEF FinalRow
<1>2. ASSUME NEW r \in Reconcilers, ReconcileWrite(r) PROVE FinalRow(c)
    BY <1>2 DEF IInv, TypeOK, ReconcileWrite, CreatePendingIntent, FinalRow
<1>3. CASE Tick
    BY <1>3 DEF IInv, TypeOK, Tick, FinalRow
<1>4. ASSUME NEW d \in Deliverers, Claim(d) PROVE FinalRow(c)
  <2>1. PICK page \in SUBSET Claimable :
           notification' = [x \in Contents |->
                IF x \in page THEN [notification[x] EXCEPT !.status = "sending", !.age = 0, !.wait = 0]
                ELSE notification[x]]
    BY <1>4, PageSubset DEF Claim
  <2>2. CASE c \in page
    <3>1. /\ notification[c].retries < MaxAttempts
          /\ notification[c].status # "sent"
          /\ notification[c].retries \in Nat
      BY <2>2 DEF Claimable, IInv, TypeOK
    <3>2. notification'[c].status = "sending"
      BY <2>1, <2>2, ClaimedType DEF IInv, TypeOK
    <3>. QED BY <3>1, <3>2 DEF FinalRow
  <2>3. CASE c \notin page
    BY <2>1, <2>3 DEF FinalRow
  <2>. QED BY <2>2, <2>3
<1>5. ASSUME NEW d \in Deliverers, MarkSent(d) PROVE FinalRow(c)
    BY <1>5 DEF IInv, TypeOK, MarkSent, FinalRow
<1>6. ASSUME NEW d \in Deliverers, MarkFailed(d) PROVE FinalRow(c)
    BY <1>6, FailedType DEF IInv, TypeOK, MarkFailed, FinalRow
<1>. QED
    BY <1>1, <1>2, <1>3, <1>4, <1>5, <1>6
    DEF Next, vars, CommitContent, ToggleSource, ReconcileRead, ReconcileFails,
        Send, SendAccepted, SendRefused, SendLost, Crash

\* A row that is SENT or has failed for the last time never changes, and no row goes
\* back to PENDING, for every number of deliveries and whatever is late.
THEOREM OutcomesAreFinal == Spec => OutcomeIsFinal
<1>1. IInv /\ [Next]_vars =>
        [\A c \in Contents :
           LET n == notification[c] IN
           /\ n.status = "sent" \/ (n.status = "failed" /\ n.retries = MaxAttempts) =>
                 /\ notification'[c].status = n.status
                 /\ notification'[c].retries = n.retries
           /\ n.status # "absent" /\ notification'[c].status = "pending" => n.status = "pending"]_vars
    BY StepFinal DEF FinalRow
<1>. QED BY Invariance, <1>1, PTL DEF Spec, OutcomeIsFinal

-----------------------------------------------------------------------------
(* Intents: nothing is passed over while the source keeps its authorization. *)

\* What a reconciliation has selected exists, and what has been scanned or resolved
\* without a change of the source has its notification.
IntentsInv ==
    /\ toggles = 0 => enabled
    /\ \A r \in Reconcilers : reconcile[r].recoveries \cup reconcile[r].ids \subseteq created
    /\ SkipsNeedAToggle

LEMMA InitIntents == Init => IntentsInv
BY OutboxAssumption DEF Init, IntentsInv, SkipsNeedAToggle

\* A row that exists stays.
LEMMA RowsStay ==
    ASSUME IInv, [Next]_vars
    PROVE  \A c \in Contents : notification[c].status # "absent" => notification'[c].status # "absent"
<1> SUFFICES ASSUME NEW c \in Contents, notification[c].status # "absent"
             PROVE  notification'[c].status # "absent"
    OBVIOUS
<1>1. CASE UNCHANGED notification
    BY <1>1
<1>2. ASSUME NEW r \in Reconcilers, ReconcileWrite(r) PROVE notification'[c].status # "absent"
    BY <1>2 DEF ReconcileWrite, CreatePendingIntent
<1>3. CASE Tick
    BY <1>3 DEF IInv, TypeOK, Tick
<1>4. ASSUME NEW d \in Deliverers, Claim(d) PROVE notification'[c].status # "absent"
  <2>1. PICK page \in SUBSET Claimable :
           notification' = [x \in Contents |->
                IF x \in page THEN [notification[x] EXCEPT !.status = "sending", !.age = 0, !.wait = 0]
                ELSE notification[x]]
    BY <1>4, PageSubset DEF Claim
  <2>. QED BY <2>1, ClaimedType DEF IInv, TypeOK
<1>5. ASSUME NEW d \in Deliverers, MarkSent(d) PROVE notification'[c].status # "absent"
    BY <1>5, SentType DEF IInv, TypeOK, MarkSent
<1>6. ASSUME NEW d \in Deliverers, MarkFailed(d) PROVE notification'[c].status # "absent"
    BY <1>6, FailedType DEF IInv, TypeOK, MarkFailed
<1>. QED
    BY <1>1, <1>2, <1>3, <1>4, <1>5, <1>6
    DEF Next, vars, CommitContent, ToggleSource, ReconcileRead, ReconcileFails,
        Send, SendAccepted, SendRefused, SendLost, Crash

\* Every step of intents and deliveries keeps them.
LEMMA StepIntents == IInv /\ IntentsInv /\ [Next]_vars => IntentsInv'
<1> SUFFICES ASSUME IInv, IntentsInv, [Next]_vars PROVE IntentsInv'
    OBVIOUS
<1>1. ASSUME UNCHANGED <<created, enabled, toggles, reconcile, scanned, recovery>> PROVE IntentsInv'
  <2>1. SkipsNeedAToggle'
    BY <1>1, RowsStay, OutboxAssumption DEF IntentsInv, SkipsNeedAToggle
  <2>. QED BY <1>1, <2>1 DEF IntentsInv
<1>2. ASSUME NEW c \in Contents, NEW status \in {"none", "open"}, CommitContent(c, status)
      PROVE  IntentsInv'
  <2>1. SkipsNeedAToggle'
    BY <1>2 DEF CommitContent, IntentsInv, SkipsNeedAToggle, IInv, TypeOK
  <2>. QED BY <1>2, <2>1 DEF CommitContent, IntentsInv
<1>3. CASE ToggleSource
    BY <1>3 DEF ToggleSource, IntentsInv, SkipsNeedAToggle, IInv, TypeOK
<1>4. ASSUME NEW r \in Reconcilers, ReconcileRead(r) PROVE IntentsInv'
  <2>1. PICK recoveries \in SUBSET created, ids \in SUBSET created :
           reconcile' = [reconcile EXCEPT ![r] =
                           [active |-> TRUE, recoveries |-> recoveries, ids |-> ids]]
    <3>1. PICK recoveries \in Page(OpenRecoveries, Limit) :
             \E ids : /\ ids \subseteq created
                      /\ reconcile' = [reconcile EXCEPT ![r] =
                             [active |-> TRUE, recoveries |-> recoveries, ids |-> ids]]
      BY <1>4, PageSubset DEF ReconcileRead, Scannable, Page
    <3>2. recoveries \subseteq created
      BY <3>1, PageSubset DEF OpenRecoveries
    <3>. QED BY <3>1, <3>2
  <2>2. \A x \in Reconcilers : reconcile'[x].recoveries \cup reconcile'[x].ids \subseteq created
    BY <2>1 DEF IntentsInv, IInv, TypeOK
  <2>. QED BY <1>4, <2>2 DEF ReconcileRead, IntentsInv, SkipsNeedAToggle
<1>5. ASSUME NEW r \in Reconcilers, ReconcileWrite(r) PROVE IntentsInv'
  <2> DEFINE all == reconcile[r].recoveries \cup reconcile[r].ids
  <2>1. /\ notification' = [c \in Contents |->
                              IF c \in all /\ CreatePendingIntent(c)
                              THEN [NoNotification EXCEPT !.status = "pending"] ELSE notification[c]]
        /\ \A c \in scanned' : c \in scanned \/ c \in all
        /\ \A c \in Contents : recovery'[c] = "resolved" => recovery[c] = "resolved" \/ c \in all
        /\ reconcile' = [reconcile EXCEPT ![r] = NoReconcile]
        /\ UNCHANGED <<created, enabled, toggles>>
    BY <1>5 DEF ReconcileWrite
  <2>2. all \subseteq created
    BY DEF IntentsInv
  \* A selected content the policy accepts is a candidate: it has a row, or gets one.
  <2>3. ASSUME toggles = 0, NEW c \in AfterCutover \cap Displayable, c \in all
        PROVE  notification'[c].status # "absent"
    <3>1. c \in Contents /\ Candidate(c)
      BY <2>2, <2>3, OutboxAssumption DEF Candidate, IntentsInv
    <3>2. CASE notification[c].status = "absent"
      BY <2>1, <2>3, <3>1, <3>2 DEF CreatePendingIntent
    <3>3. CASE notification[c].status # "absent"
      BY <3>1, <3>3, RowsStay
    <3>. QED BY <3>2, <3>3
  <2>4. SkipsNeedAToggle'
    <3> SUFFICES ASSUME toggles = 0, NEW c \in AfterCutover \cap Displayable,
                        c \in scanned' \/ recovery'[c] = "resolved"
                 PROVE  notification'[c].status # "absent"
      BY <2>1 DEF SkipsNeedAToggle
    <3>1. c \in Contents
      BY OutboxAssumption
    <3>2. c \in all \/ c \in scanned \/ recovery[c] = "resolved"
      BY <2>1, <3>1
    <3>3. c \notin all => notification[c].status # "absent"
      BY <3>2 DEF IntentsInv, SkipsNeedAToggle
    <3>. QED BY <2>3, <3>1, <3>3, RowsStay
  <2>5. \A x \in Reconcilers : reconcile'[x].recoveries \cup reconcile'[x].ids \subseteq created
    BY <2>1 DEF IntentsInv, IInv, TypeOK
  <2>. QED BY <2>1, <2>4, <2>5 DEF IntentsInv
<1>6. ASSUME NEW r \in Reconcilers, ReconcileFails(r) PROVE IntentsInv'
  <2>1. \A x \in Reconcilers : reconcile'[x].recoveries \cup reconcile'[x].ids \subseteq created
    BY <1>6 DEF ReconcileFails, IntentsInv, IInv, TypeOK
  <2>. QED BY <1>6, <2>1 DEF ReconcileFails, IntentsInv, SkipsNeedAToggle
<1>7. CASE \/ Tick \/ UNCHANGED vars
           \/ \E d \in Deliverers : Claim(d) \/ Send(d) \/ MarkSent(d) \/ MarkFailed(d) \/ Crash(d)
    BY ZenonT(60), <1>1, <1>7 DEF Tick, Claim, Send, SendAccepted, SendRefused, SendLost, MarkSent, MarkFailed, Crash,
       intentVars, vars
<1>. QED BY <1>2, <1>3, <1>4, <1>5, <1>6, <1>7 DEF Next

\* SkipsNeedAToggle holds for every number of reconcilers and contents and whatever limit:
\* what a reconciliation selects and has no row for when it writes gets one, by
\* create_pending_intent, before its record is resolved or its scan recorded.
THEOREM NoIntentIsLost == Spec => []SkipsNeedAToggle
<1>1. IntentsInv => SkipsNeedAToggle
    BY DEF IntentsInv
<1>. QED BY Invariance, InitIntents, StepIntents, <1>1, PTL DEF Spec

-----------------------------------------------------------------------------
(* Claims: what a delivery holds nobody else sends, while no batch outlasts *)
(* the age at which its claim is stale.                                     *)

Held(d) == delivery[d].claimed \cup delivery[d].item

\* The item in hand is out of the claimed ones, and the clock waits for a batch.
BatchesInv ==
    \A d \in Deliverers :
        /\ delivery[d].pc \in {"idle", "send"} => delivery[d].item = {}
        /\ delivery[d].pc = "idle" => delivery[d].claimed = {}
        /\ delivery[d].claimed \cap delivery[d].item = {}
        /\ delivery[d].age <= MaxBatch

\* A held row is SENDING, and was claimed when its batch began.
ClaimsInv ==
    /\ \A d \in Deliverers : \A c \in Held(d) :
          notification[c].status = "sending" /\ notification[c].age <= delivery[d].age
    /\ \A d, e \in Deliverers : d # e => Held(d) \cap Held(e) = {}

\* The message that is not a duplicate: the one whose row says so, or is about to.
Delivered(c) ==
    \/ notification[c].status = "sent"
    \/ \E d \in Deliverers : delivery[d].pc = "sent" /\ c \in delivery[d].item

ChatInv == \A c \in Contents : chat[c] <= crashes + lost + (IF Delivered(c) THEN 1 ELSE 0)

DeliveryInv == BatchesInv /\ ClaimsInv /\ ChatInv

LEMMA InitDelivery == Init => DeliveryInv
<1> SUFFICES ASSUME Init PROVE DeliveryInv
    OBVIOUS
<1>1. \A d \in Deliverers : Held(d) = {} /\ delivery[d] = NoDelivery
    BY DEF Init, Held
<1>2. BatchesInv /\ ClaimsInv
    BY <1>1, OutboxAssumption DEF BatchesInv, ClaimsInv
<1>3. ChatInv
    BY DEF Init, ChatInv
<1>. QED BY <1>2, <1>3 DEF DeliveryInv

\* A step that is none of delivery's and faults leaves what is held and what is delivered,
\* and no row that exists is touched.
LEMMA QuietDelivery ==
    ASSUME IInv, DeliveryInv, UNCHANGED <<delivery, chat, lost>>, crashes' \in Nat, crashes' >= crashes,
           \A c \in Contents : notification[c].status # "absent" => notification'[c] = notification[c]
    PROVE  DeliveryInv'
<1>1. \A d \in Deliverers : Held(d)' = Held(d) /\ Held(d) \subseteq Contents
    BY DEF Held, IInv, TypeOK
<1>2. BatchesInv'
    BY DEF DeliveryInv, BatchesInv
<1>3. ClaimsInv'
    BY <1>1 DEF DeliveryInv, ClaimsInv
<1>4. \A c \in Contents : Delivered(c) => Delivered(c)'
    BY DEF Delivered
<1>5. ChatInv'
  <2> SUFFICES ASSUME NEW c \in Contents
               PROVE  chat[c] <= crashes' + lost + (IF Delivered(c)' THEN 1 ELSE 0)
    BY DEF ChatInv
  <2>1. chat[c] <= crashes + lost + (IF Delivered(c) THEN 1 ELSE 0)
    BY DEF DeliveryInv, ChatInv
  <2>. QED BY <1>4, <2>1 DEF IInv, TypeOK
<1>. QED BY <1>2, <1>3, <1>5 DEF DeliveryInv

\* Time passes for rows and batches alike.
LEMMA TickDelivery ==
    ASSUME IInv, DeliveryInv, Tick
    PROVE  DeliveryInv'
<1>1. \A d \in Deliverers :
         /\ delivery[d] \in Delivery
         /\ delivery'[d] = IF delivery[d].pc = "idle" THEN delivery[d]
                           ELSE [delivery[d] EXCEPT !.age = @ + 1]
    BY DEF Tick, IInv, TypeOK
<1>2. \A d \in Deliverers :
         /\ delivery'[d].pc = delivery[d].pc /\ delivery'[d].item = delivery[d].item
         /\ delivery'[d].claimed = delivery[d].claimed
         /\ delivery'[d].age = IF delivery[d].pc = "idle" THEN delivery[d].age ELSE delivery[d].age + 1
  <2> SUFFICES ASSUME NEW d \in Deliverers
               PROVE  /\ delivery'[d].pc = delivery[d].pc /\ delivery'[d].item = delivery[d].item
                      /\ delivery'[d].claimed = delivery[d].claimed
                      /\ delivery'[d].age = IF delivery[d].pc = "idle" THEN delivery[d].age
                                            ELSE delivery[d].age + 1
    OBVIOUS
  <2>. QED BY <1>1
<1>3. \A d \in Deliverers : Held(d)' = Held(d) /\ Held(d) \subseteq Contents
    BY <1>1, <1>2 DEF Held
<1>4. BatchesInv'
  <2> SUFFICES ASSUME NEW d \in Deliverers PROVE delivery'[d].age <= MaxBatch
    BY <1>2 DEF DeliveryInv, BatchesInv
  <2>1. delivery[d].age \in Nat /\ delivery[d].age <= MaxBatch /\ MaxBatch \in Nat
    BY <1>1, OutboxAssumption DEF DeliveryInv, BatchesInv
  <2>2. delivery[d].pc # "idle" => delivery[d].age < MaxBatch
    BY DEF Tick
  <2>. QED BY <1>2, <2>1, <2>2
<1>5. \A c \in Contents :
         /\ notification'[c].status = notification[c].status
         /\ notification'[c].age <= notification[c].age + 1
    BY DEF Tick, IInv, TypeOK
<1>6. ClaimsInv'
  <2>1. ASSUME NEW d \in Deliverers, NEW c \in Held(d)
        PROVE  notification'[c].status = "sending" /\ notification'[c].age <= delivery'[d].age
    <3>1. c \in Contents /\ notification[c].status = "sending" /\ notification[c].age <= delivery[d].age
      BY <1>3, <2>1 DEF DeliveryInv, ClaimsInv
    <3>2. delivery'[d].age = delivery[d].age + 1
      BY <1>2, <2>1 DEF Held, DeliveryInv, BatchesInv
    <3>3. notification[c].age \in Nat /\ notification'[c].age \in Nat /\ delivery[d].age \in Nat
      BY <1>1, <3>1, StepIInv DEF IInv, TypeOK, Next
    <3>. QED BY <1>5, <3>1, <3>2, <3>3
  <2>. QED BY <1>3, <2>1 DEF DeliveryInv, ClaimsInv
<1>7. \A c \in Contents : Delivered(c)' = Delivered(c)
  <2> SUFFICES ASSUME NEW c \in Contents PROVE Delivered(c)' <=> Delivered(c)
    BY Zenon DEF Delivered
  <2>. QED BY <1>2, <1>5 DEF Delivered
<1>8. ChatInv'
    BY <1>7 DEF Tick, DeliveryInv, ChatInv
<1>. QED BY <1>4, <1>6, <1>8 DEF DeliveryInv

\* Only rows nobody holds are claimed.
LEMMA ClaimDelivery ==
    ASSUME MaxBatch <= StaleAfter, IInv, DeliveryInv, NEW d \in Deliverers, Claim(d)
    PROVE  DeliveryInv'
<1>1. PICK page \in SUBSET Claimable :
         /\ notification' = [c \in Contents |->
              IF c \in page THEN [notification[c] EXCEPT !.status = "sending", !.age = 0, !.wait = 0]
              ELSE notification[c]]
         /\ delivery' = [delivery EXCEPT ![d] = [NoDelivery EXCEPT !.pc = "send", !.claimed = page]]
         /\ UNCHANGED <<chat, crashes, lost>>
    BY PageSubset DEF Claim
<1>2. \A e \in Deliverers : page \cap Held(e) = {}
  <2> SUFFICES ASSUME NEW e \in Deliverers, NEW c \in page, c \in Held(e) PROVE FALSE
    OBVIOUS
  <2>1. c \in Contents /\ notification[c].status = "sending" /\ notification[c].age <= delivery[e].age
    BY DEF Claimable, DeliveryInv, ClaimsInv
  <2>2. delivery[e].age <= MaxBatch /\ delivery[e].age \in Nat /\ notification[c].age \in Nat
    BY <2>1 DEF DeliveryInv, BatchesInv, IInv, TypeOK
  <2>3. notification[c].age > StaleAfter
    BY <2>1 DEF Claimable
  <2>. QED BY <2>1, <2>2, <2>3, OutboxAssumption
<1>3. /\ delivery'[d].pc = "send" /\ delivery'[d].item = {} /\ delivery'[d].claimed = page
      /\ delivery'[d].age = 0 /\ delivery[d].pc = "idle"
      /\ \A e \in Deliverers \ {d} : delivery'[e] = delivery[e]
    BY <1>1 DEF Claim, IInv, TypeOK
<1>4. Held(d)' = page /\ page \subseteq Contents /\ \A e \in Deliverers \ {d} : Held(e)' = Held(e)
    BY <1>3 DEF Held, Claimable
<1>5. \A c \in page : /\ notification'[c].status = "sending" /\ notification'[c].age = 0
                      /\ notification[c].status # "sent"
  <2> SUFFICES ASSUME NEW c \in page
               PROVE  /\ notification'[c].status = "sending" /\ notification'[c].age = 0
                      /\ notification[c].status # "sent"
    OBVIOUS
  <2>1. c \in Contents /\ notification[c] \in Notification /\ notification[c].status # "sent"
    BY DEF Claimable, IInv, TypeOK
  <2>. QED BY <1>1, <2>1
<1>6. \A c \in Contents \ page : notification'[c] = notification[c]
    BY <1>1
<1>7. BatchesInv'
    BY <1>3, OutboxAssumption DEF DeliveryInv, BatchesInv
<1>8. ClaimsInv'
  <2>1. ASSUME NEW e \in Deliverers, NEW c \in Held(e)'
        PROVE  notification'[c].status = "sending" /\ notification'[c].age <= delivery'[e].age
    <3>1. CASE e = d
      BY <1>3, <1>4, <1>5, <2>1, <3>1
    <3>2. CASE e # d
      <4>1. c \in Held(e) /\ c \notin page /\ c \in Contents
        BY <1>2, <1>4, <2>1, <3>2 DEF Held, IInv, TypeOK
      <4>. QED BY <1>3, <1>6, <3>2, <4>1 DEF DeliveryInv, ClaimsInv
    <3>. QED BY <3>1, <3>2
  <2>2. \A e, f \in Deliverers : e # f => Held(e)' \cap Held(f)' = {}
    BY <1>2, <1>4 DEF DeliveryInv, ClaimsInv
  <2>. QED BY <2>1, <2>2 DEF ClaimsInv
<1>9. \A c \in Contents : Delivered(c) => Delivered(c)'
  <2>1. \A c \in Contents : notification[c].status = "sent" => notification'[c].status = "sent"
    BY <1>5, <1>6
  <2>2. \A e \in Deliverers : delivery[e].pc = "sent" => delivery'[e] = delivery[e]
    BY <1>3
  <2>. QED BY <2>1, <2>2 DEF Delivered
<1>10. ChatInv'
  <2> SUFFICES ASSUME NEW c \in Contents
               PROVE  chat[c] <= crashes + lost + (IF Delivered(c)' THEN 1 ELSE 0)
    BY <1>1 DEF ChatInv
  <2>1. /\ chat[c] <= crashes + lost + (IF Delivered(c) THEN 1 ELSE 0)
        /\ chat[c] \in Nat /\ crashes \in Nat /\ lost \in Nat
    BY DEF DeliveryInv, ChatInv, IInv, TypeOK
  <2>. QED BY <1>9, <2>1
<1>. QED BY <1>7, <1>8, <1>10 DEF DeliveryInv

\* A message goes out for a row its sender alone holds.
LEMMA SendDelivery ==
    ASSUME IInv, DeliveryInv, NEW d \in Deliverers, Send(d)
    PROVE  DeliveryInv'
<1>1. PICK c \in delivery[d].claimed : SendAccepted(d, c) \/ SendRefused(d, c) \/ SendLost(d, c)
    BY DEF Send
<1>2. /\ c \in Contents /\ delivery[d] \in Delivery /\ delivery[d].pc = "send" /\ delivery[d].item = {}
      /\ delivery[d].age <= MaxBatch /\ UNCHANGED <<notification, crashes>>
    BY <1>1 DEF SendAccepted, SendRefused, SendLost, IInv, TypeOK, DeliveryInv, BatchesInv
<1>3. PICK step \in {"sent", "fail"} :
         /\ Answered(d, c, step)
         /\ step = "sent" => chat' = [chat EXCEPT ![c] = @ + 1] /\ lost' = lost
         /\ step = "fail" => \/ chat' = chat /\ lost' = lost
                             \/ chat' = [chat EXCEPT ![c] = @ + 1] /\ lost' = lost + 1
    BY <1>1 DEF SendAccepted, SendRefused, SendLost
<1>4. /\ delivery'[d].pc = step /\ delivery'[d].item = {c}
      /\ delivery'[d].claimed = delivery[d].claimed \ {c} /\ delivery'[d].age = delivery[d].age
      /\ \A e \in Deliverers \ {d} : delivery'[e] = delivery[e]
  <2> DEFINE x == [delivery[d] EXCEPT !.pc = step, !.claimed = delivery[d].claimed \ {c}, !.item = {c}]
  <2>1. delivery' = [delivery EXCEPT ![d] = x]
    BY <1>3 DEF Answered
  <2>2. /\ x.pc = step /\ x.item = {c} /\ x.claimed = delivery[d].claimed \ {c}
        /\ x.age = delivery[d].age
    BY <1>2
  <2> HIDE DEF x
  <2>. QED BY <2>1, <2>2 DEF IInv, TypeOK
<1>5. \A e \in Deliverers : Held(e)' = Held(e)
    BY <1>1, <1>2, <1>4 DEF Held
<1>6. BatchesInv'
    BY <1>2, <1>4 DEF DeliveryInv, BatchesInv
<1>7. ClaimsInv'
    BY <1>2, <1>4, <1>5 DEF DeliveryInv, ClaimsInv
\* Before the send no message of the row is delivered.
<1>8. ~Delivered(c)
  <2>1. notification[c].status # "sent"
    BY <1>1 DEF Held, DeliveryInv, ClaimsInv
  <2>2. \A e \in Deliverers : delivery[e].pc = "sent" => c \notin delivery[e].item
    BY <1>1, <1>2 DEF Held, DeliveryInv, ClaimsInv
  <2>. QED BY <2>1, <2>2 DEF Delivered
<1>9. step = "sent" => Delivered(c)'
    BY <1>4 DEF Delivered
<1>10. \A e \in Contents : Delivered(e) => Delivered(e)'
    BY <1>2, <1>4 DEF Delivered
<1>11. ChatInv'
  <2> SUFFICES ASSUME NEW e \in Contents
               PROVE  chat'[e] <= crashes + lost' + (IF Delivered(e)' THEN 1 ELSE 0)
    BY <1>2 DEF ChatInv
  <2>1. /\ chat[e] <= crashes + lost + (IF Delivered(e) THEN 1 ELSE 0)
        /\ chat[e] \in Nat /\ crashes \in Nat /\ lost \in Nat
    BY DEF DeliveryInv, ChatInv, IInv, TypeOK
  <2>2. CASE e = c
    <3>1. \/ step = "sent" /\ chat'[e] = chat[e] + 1 /\ lost' = lost
          \/ chat'[e] = chat[e] /\ lost' = lost
          \/ chat'[e] = chat[e] + 1 /\ lost' = lost + 1
      BY <1>2, <1>3, <2>2 DEF IInv, TypeOK
    <3>2. chat[e] <= crashes + lost
      BY <1>8, <2>1, <2>2
    <3>. QED BY <1>9, <2>1, <2>2, <3>1, <3>2
  <2>3. CASE e # c
    <3>1. chat'[e] = chat[e] /\ (lost' = lost \/ lost' = lost + 1)
      BY <1>2, <1>3, <2>3 DEF IInv, TypeOK
    <3>. QED BY <1>10, <2>1, <3>1
  <2>. QED BY <2>2, <2>3
<1>. QED BY <1>6, <1>7, <1>11 DEF DeliveryInv

\* The end of a row: what is held shrinks, and a row leaves SENDING only as it is let go.
LEMMA DoneDelivery ==
    ASSUME IInv, DeliveryInv, NEW d \in Deliverers, ItemDone(d), UNCHANGED <<chat, crashes, lost>>,
           \A c \in Contents \ delivery[d].item : notification'[c] = notification[c],
           \A c \in Contents : notification[c].status = "sent" => notification'[c].status = "sent",
           delivery[d].pc = "sent" => \A c \in delivery[d].item : notification'[c].status = "sent"
    PROVE  DeliveryInv'
<1>1. delivery[d] \in Delivery /\ MaxBatch \in Nat
    BY OutboxAssumption DEF IInv, TypeOK
<1>2. /\ \A e \in Deliverers \ {d} : delivery'[e] = delivery[e]
      /\ delivery'[d].pc \in {"idle", "send"} /\ delivery'[d].item = {}
      /\ delivery'[d].pc = "idle" => delivery'[d].claimed = {}
      /\ delivery'[d].claimed = delivery[d].claimed
      /\ delivery'[d].claimed = {} \/ delivery'[d].age = delivery[d].age
      /\ delivery'[d].age \in {0, delivery[d].age}
  <2>1. CASE delivery[d].claimed = {}
    <3>1. delivery' = [delivery EXCEPT ![d] = NoDelivery]
      BY <2>1 DEF ItemDone
    <3>. QED BY <2>1, <3>1 DEF IInv, TypeOK
  <2>2. CASE delivery[d].claimed # {}
    <3> DEFINE x == [delivery[d] EXCEPT !.pc = "send", !.item = {}]
    <3>1. delivery' = [delivery EXCEPT ![d] = x]
      BY <2>2 DEF ItemDone
    <3>2. x.pc = "send" /\ x.item = {} /\ x.claimed = delivery[d].claimed /\ x.age = delivery[d].age
      BY <1>1
    <3> HIDE DEF x
    <3>. QED BY <3>1, <3>2 DEF IInv, TypeOK
  <2>. QED BY <2>1, <2>2
<1>3. \A e \in Deliverers : Held(e)' \subseteq Held(e) /\ Held(e) \subseteq Contents
    BY <1>2 DEF Held, IInv, TypeOK
<1>4. BatchesInv'
    BY <1>1, <1>2 DEF DeliveryInv, BatchesInv
<1>5. ClaimsInv'
  <2>1. ASSUME NEW e \in Deliverers, NEW c \in Held(e)'
        PROVE  notification'[c].status = "sending" /\ notification'[c].age <= delivery'[e].age
    <3>1. c \in Contents /\ notification[c].status = "sending" /\ notification[c].age <= delivery[e].age
      BY <1>3, <2>1 DEF DeliveryInv, ClaimsInv
    <3>2. c \notin delivery[d].item
      <4>1. CASE e = d
        BY <1>2, <2>1, <4>1 DEF Held, DeliveryInv, BatchesInv
      <4>2. CASE e # d
        BY <1>3, <2>1, <4>2 DEF Held, DeliveryInv, ClaimsInv
      <4>. QED BY <4>1, <4>2
    <3>3. delivery'[e].age = delivery[e].age
      BY <1>2, <2>1 DEF Held
    <3>. QED BY <3>1, <3>2, <3>3
  <2>. QED BY <1>3, <2>1 DEF DeliveryInv, ClaimsInv
<1>6. \A c \in Contents : Delivered(c) => Delivered(c)'
  <2> SUFFICES ASSUME NEW c \in Contents, Delivered(c) PROVE Delivered(c)'
    OBVIOUS
  <2>1. ASSUME NEW e \in Deliverers, delivery[e].pc = "sent", c \in delivery[e].item PROVE Delivered(c)'
    <3>1. CASE e = d
      BY <2>1, <3>1 DEF Delivered
    <3>2. CASE e # d
      BY <1>2, <2>1, <3>2 DEF Delivered
    <3>. QED BY <3>1, <3>2
  <2>2. CASE notification[c].status = "sent"
    BY <2>2 DEF Delivered
  <2>. QED BY <2>1, <2>2 DEF Delivered
<1>7. ChatInv'
    BY <1>6 DEF DeliveryInv, ChatInv, IInv, TypeOK
<1>. QED BY <1>4, <1>5, <1>7 DEF DeliveryInv

\* A delivery that dies may leave a message nobody has recorded.
LEMMA CrashDelivery ==
    ASSUME IInv, DeliveryInv, NEW d \in Deliverers, Crash(d)
    PROVE  DeliveryInv'
<1>1. /\ crashes' = crashes + 1 /\ delivery' = [delivery EXCEPT ![d] = NoDelivery]
      /\ UNCHANGED <<notification, chat, lost>>
    BY DEF Crash
<1>2. delivery'[d] = NoDelivery /\ \A e \in Deliverers \ {d} : delivery'[e] = delivery[e]
    BY <1>1 DEF IInv, TypeOK
<1>3. Held(d)' = {} /\ \A e \in Deliverers \ {d} : Held(e)' = Held(e)
    BY <1>2 DEF Held
<1>4. BatchesInv'
    BY <1>2, OutboxAssumption DEF DeliveryInv, BatchesInv
<1>5. ClaimsInv'
    BY <1>1, <1>2, <1>3 DEF DeliveryInv, ClaimsInv
<1>6. ChatInv'
  <2> SUFFICES ASSUME NEW c \in Contents
               PROVE  chat[c] <= crashes + 1 + lost + (IF Delivered(c)' THEN 1 ELSE 0)
    BY <1>1 DEF ChatInv
  <2>1. chat[c] <= crashes + lost + (IF Delivered(c) THEN 1 ELSE 0)
    BY DEF DeliveryInv, ChatInv
  <2>. QED BY <2>1 DEF IInv, TypeOK
<1>. QED BY <1>4, <1>5, <1>6 DEF DeliveryInv

LEMMA StepDelivery ==
    ASSUME MaxBatch <= StaleAfter
    PROVE  IInv /\ DeliveryInv /\ [Next]_vars => DeliveryInv'
<1> SUFFICES ASSUME IInv, DeliveryInv, [Next]_vars PROVE DeliveryInv'
    OBVIOUS
<1>1. CASE \/ \E c \in Contents, status \in {"none", "open"} : CommitContent(c, status)
           \/ ToggleSource \/ UNCHANGED vars
           \/ \E r \in Reconcilers : ReconcileRead(r) \/ ReconcileWrite(r) \/ ReconcileFails(r)
  <2>1. UNCHANGED <<delivery, chat, lost>>
    BY <1>1 DEF CommitContent, ToggleSource, ReconcileRead, ReconcileWrite, ReconcileFails, vars
  <2>2. crashes \in Nat /\ (crashes' = crashes \/ crashes' = crashes + 1)
    BY <1>1 DEF CommitContent, ToggleSource, ReconcileRead, ReconcileWrite, ReconcileFails, vars, IInv, TypeOK
  <2>3. \A c \in Contents : notification[c].status # "absent" => notification'[c] = notification[c]
    BY <1>1 DEF CommitContent, ToggleSource, ReconcileRead, ReconcileWrite, CreatePendingIntent,
       ReconcileFails, vars
  <2>. QED BY <2>1, <2>2, <2>3, QuietDelivery
<1>2. ASSUME NEW d \in Deliverers, MarkSent(d) PROVE DeliveryInv'
  <2>1. /\ delivery[d].pc = "sent" /\ ItemDone(d) /\ UNCHANGED <<chat, crashes, lost>>
        /\ notification' = [c \in Contents |->
              IF c \in delivery[d].item /\ notification[c].status = "sending"
              THEN [notification[c] EXCEPT !.status = "sent", !.age = 0] ELSE notification[c]]
    BY <1>2 DEF MarkSent
  <2>2. \A c \in Contents : /\ c \notin delivery[d].item => notification'[c] = notification[c]
                            /\ notification[c].status = "sent" => notification'[c].status = "sent"
    BY <2>1
  <2>3. \A c \in delivery[d].item : notification'[c].status = "sent"
    <3> SUFFICES ASSUME NEW c \in delivery[d].item PROVE notification'[c].status = "sent"
      OBVIOUS
    <3>1. c \in Contents /\ notification[c] \in Notification /\ notification[c].status = "sending"
      BY DEF Held, DeliveryInv, ClaimsInv, IInv, TypeOK
    <3>. QED BY <2>1, <3>1, SentType
  <2>. QED BY <2>1, <2>2, <2>3, DoneDelivery
<1>3. ASSUME NEW d \in Deliverers, MarkFailed(d) PROVE DeliveryInv'
  <2>1. /\ delivery[d].pc = "fail" /\ ItemDone(d) /\ UNCHANGED <<chat, crashes, lost>>
        /\ notification' = [c \in Contents |->
              IF c \in delivery[d].item /\ notification[c].status = "sending"
              THEN Failed(notification[c]) ELSE notification[c]]
    BY <1>3 DEF MarkFailed
  <2>2. \A c \in Contents : /\ c \notin delivery[d].item => notification'[c] = notification[c]
                            /\ notification[c].status = "sent" => notification'[c].status = "sent"
    BY <2>1
  <2>. QED BY <2>1, <2>2, DoneDelivery
<1>. QED BY <1>1, <1>2, <1>3, TickDelivery, ClaimDelivery, SendDelivery, CrashDelivery DEF Next

\* DuplicatesNeedAFault, for every number of deliveries and size of batch, while a batch
\* ends before its claim is stale: without a death or a lost answer deliver puts
\* a notification in the chat at most once.
THEOREM DuplicatesAreFaults ==
    ASSUME MaxBatch <= StaleAfter PROVE Spec => []DuplicatesNeedAFault
<1>1. IInv /\ DeliveryInv => DuplicatesNeedAFault
    BY DEF DeliveryInv, ChatInv, DuplicatesNeedAFault, IInv, TypeOK
<1>2. Init => IInv /\ DeliveryInv
    BY InitIInv, InitDelivery
<1>3. IInv /\ DeliveryInv /\ [Next]_vars => (IInv /\ DeliveryInv)'
    BY StepIInv, StepDelivery
<1>. QED BY <1>1, <1>2, <1>3, PTL DEF Spec

=============================================================================
