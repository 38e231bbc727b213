------------------------- MODULE NotificationOutbox -------------------------
(***************************************************************************)
(* From content to Telegram: the reconciler that turns content into        *)
(* notification rows (notifications/intent.py) and the delivery that sends  *)
(* them (notifications/delivery.py).  The rows are the only state machine;  *)
(* tasks are sent by beat, may overlap and may die between any two          *)
(* transactions.                                                            *)
(*                                                                         *)
(* A reconciliation is one transaction, but what it selects is the snapshot *)
(* of its SELECT, and each candidate is read again later: it is a read and  *)
(* a write here.  Row locks only narrow what other reconcilers can do in    *)
(* between and are left out.                                                *)
(*                                                                         *)
(* scheduled_at is the age of a SENDING row and what is left of the delay   *)
(* of a FAILED one, in ticks.  There is one source; Telegram is a count of  *)
(* the messages that have reached the chat.                                 *)
(***************************************************************************)
EXTENDS Naturals, FiniteSets

CONSTANTS
    Contents,      \* content items
    AfterCutover,  \* those created after the cutover watermark
    Displayable,   \* those whose kind, title, date and URL the policy accepts
    Selected,      \* those the scan selects: it looks at the kind, not at the text
    Reconcilers,   \* processes that run notification.intent.reconcile
    Deliverers,    \* processes that run notification.telegram.deliver
    Limit,         \* limit of both tasks
    MaxAttempts,   \* MAX_ATTEMPTS
    StaleAfter,    \* ten minutes
    BackoffBase,   \* thirty seconds
    BackoffCap,    \* one hour
    MaxBatch,      \* bound on the ticks from the claim of a batch to its end
    MaxToggles,    \* bound on the changes of the source's authorization
    MaxCrashes,    \* bound on the deliveries that die
    MaxLost        \* bound on the answers of Telegram that are lost

ASSUME OutboxAssumption ==
    /\ AfterCutover \subseteq Contents
    /\ Displayable \subseteq Selected /\ Selected \subseteq Contents
    /\ {Limit, MaxAttempts, BackoffBase, BackoffCap} \subseteq Nat \ {0}
    /\ {StaleAfter, MaxBatch, MaxToggles, MaxCrashes, MaxLost} \subseteq Nat

VARIABLES
    created,       \* contents that exist
    enabled,       \* whether the source is enabled and authorized
    toggles,       \* changes of `enabled`
    recovery,      \* the notification_intent_recovery record of each content
    scanned,       \* contents with a SCAN_ACTION record
    reconcile,     \* what each reconciliation has selected
    notification,  \* the notification row of each content
    delivery,      \* where each delivery is
    chat,          \* messages about each content that reached the chat
    crashes,       \* deliveries that died
    lost           \* answers of Telegram that were lost

intentVars == <<created, enabled, toggles, recovery, scanned, reconcile>>
vars == <<created, enabled, toggles, recovery, scanned, reconcile,
          notification, delivery, chat, crashes, lost>>

-----------------------------------------------------------------------------
NotificationStatus == {"absent", "pending", "sending", "failed", "sent"}

Notification == [status : NotificationStatus, retries : Nat, age : Nat, wait : Nat]

NoNotification == [status |-> "absent", retries |-> 0, age |-> 0, wait |-> 0]

Reconcile == [active : BOOLEAN, recoveries : SUBSET Contents, ids : SUBSET Contents]

NoReconcile == [active |-> FALSE, recoveries |-> {}, ids |-> {}]

Delivery == [pc : {"idle", "send", "sent", "fail"}, claimed : SUBSET Contents,
             item : SUBSET Contents, age : Nat]

NoDelivery == [pc |-> "idle", claimed |-> {}, item |-> {}, age |-> 0]

\* Every row and every task has the type of what it models.
TypeOK ==
    /\ created \subseteq Contents /\ scanned \subseteq Contents
    /\ enabled \in BOOLEAN /\ toggles \in Nat
    /\ recovery \in [Contents -> {"none", "open", "resolved"}]
    /\ reconcile \in [Reconcilers -> Reconcile]
    /\ notification \in [Contents -> Notification]
    /\ delivery \in [Deliverers -> Delivery]
    /\ chat \in [Contents -> Nat]
    /\ crashes \in Nat /\ lost \in Nat

Init ==
    /\ created = {} /\ scanned = {}
    /\ enabled = TRUE /\ toggles = 0
    /\ recovery = [c \in Contents |-> "none"]
    /\ reconcile = [r \in Reconcilers |-> NoReconcile]
    /\ notification = [c \in Contents |-> NoNotification]
    /\ delivery = [d \in Deliverers |-> NoDelivery]
    /\ chat = [c \in Contents |-> 0]
    /\ crashes = 0 /\ lost = 0

\* Any `limit` of the rows, or all if there are fewer.
Page(rows, limit) ==
    {page \in SUBSET rows : Cardinality(page) = limit \/ (Cardinality(rows) < limit /\ page = rows)}

-----------------------------------------------------------------------------
(* Intents.                                                                *)

\* Collection and the handoff commit a content item, with or without a recovery
\* record for its intent.
CommitContent(c, status) ==
    /\ c \notin created
    /\ created' = created \cup {c}
    /\ recovery' = [recovery EXCEPT ![c] = status]
    /\ UNCHANGED <<enabled, toggles, scanned, reconcile, notification, delivery, chat, crashes, lost>>

\* An operator disables or enables the source, or changes its authorization.
ToggleSource ==
    /\ toggles < MaxToggles
    /\ enabled' = ~enabled
    /\ toggles' = toggles + 1
    /\ UNCHANGED <<created, recovery, scanned, reconcile, notification, delivery, chat, crashes, lost>>

OpenRecoveries == {c \in created : recovery[c] = "open"}

\* Contents after the watermark without a notification or a SCAN_ACTION record.
Scannable ==
    {c \in created \cap AfterCutover \cap Selected :
        enabled /\ notification[c].status = "absent" /\ c \notin scanned}

\* The selections of reconcile: recoveries first, the scan with what is left of the
\* limit.  It does not see again what the recoveries are about to create.
ReconcileRead(r) ==
    /\ ~reconcile[r].active
    /\ \E recoveries \in Page(OpenRecoveries, Limit) :
          LET rest == {c \in Scannable : c \notin recoveries \/ c \notin Displayable} IN
          \E ids \in IF Cardinality(recoveries) = Limit THEN {{}}
                     ELSE Page(rest, Limit - Cardinality(recoveries)) :
             reconcile' = [reconcile EXCEPT ![r] =
                             [active |-> TRUE, recoveries |-> recoveries, ids |-> ids]]
    /\ UNCHANGED <<created, enabled, toggles, recovery, scanned, notification, delivery, chat, crashes, lost>>

Candidate(c) == c \in created \cap AfterCutover \cap Displayable /\ enabled

\* Mutant of CreatePendingIntent: an upsert instead of ON CONFLICT DO NOTHING.
CreatePendingIntent_Upsert(c) == Candidate(c)

\* create_pending_intent returns an identity: a candidate, and no row with its key.
CreatePendingIntent(c) == Candidate(c) /\ notification[c].status = "absent"

\* Mutant of ReconcileWrite: recoveries are resolved without creating their intents.
ReconcileWrite_ResolvesOnly(r) ==
    /\ reconcile[r].active
    /\ notification' = [c \in Contents |->
                          IF c \in reconcile[r].ids /\ CreatePendingIntent(c)
                          THEN [NoNotification EXCEPT !.status = "pending"] ELSE notification[c]]
    /\ scanned' = scanned \cup {c \in reconcile[r].ids : ~CreatePendingIntent(c)}
    /\ recovery' = [c \in Contents |->
                      IF c \in reconcile[r].recoveries THEN "resolved" ELSE recovery[c]]
    /\ reconcile' = [reconcile EXCEPT ![r] = NoReconcile]
    /\ UNCHANGED <<created, enabled, toggles, delivery, chat, crashes, lost>>

\* The rest of the transaction: intents for both lists, recoveries resolved, and a
\* SCAN_ACTION record for every scanned content that got no new row.
ReconcileWrite(r) ==
    LET all == reconcile[r].recoveries \cup reconcile[r].ids IN
    /\ reconcile[r].active
    /\ notification' = [c \in Contents |->
                          IF c \in all /\ CreatePendingIntent(c)
                          THEN [NoNotification EXCEPT !.status = "pending"] ELSE notification[c]]
    /\ scanned' = scanned \cup {c \in reconcile[r].ids : ~CreatePendingIntent(c)}
    /\ recovery' = [c \in Contents |->
                      IF c \in reconcile[r].recoveries THEN "resolved" ELSE recovery[c]]
    /\ reconcile' = [reconcile EXCEPT ![r] = NoReconcile]
    /\ UNCHANGED <<created, enabled, toggles, delivery, chat, crashes, lost>>

\* The transaction fails or its process dies: nothing is written.
ReconcileFails(r) ==
    /\ reconcile[r].active
    /\ crashes < MaxCrashes
    /\ crashes' = crashes + 1
    /\ reconcile' = [reconcile EXCEPT ![r] = NoReconcile]
    /\ UNCHANGED <<created, enabled, toggles, recovery, scanned, notification, delivery, chat, lost>>

-----------------------------------------------------------------------------
(* Delivery.                                                               *)

\* The age beyond which nothing the code compares can change.
OldAge == StaleAfter + 1

Tick ==
    /\ \A d \in Deliverers : delivery[d].pc # "idle" => delivery[d].age < MaxBatch
    /\ notification' = [c \in Contents |->
          LET n == notification[c] IN
          CASE n.status = "sending" /\ n.age < OldAge -> [n EXCEPT !.age = @ + 1]
            [] n.status = "failed" /\ n.wait > 0 -> [n EXCEPT !.wait = @ - 1]
            [] OTHER -> n]
    /\ delivery' = [d \in Deliverers |->
          IF delivery[d].pc = "idle" THEN delivery[d] ELSE [delivery[d] EXCEPT !.age = @ + 1]]
    /\ UNCHANGED <<intentVars, chat, crashes, lost>>

\* Mutant of Claimable: a SENDING row is claimed at any age.
Claimable_FreshSending ==
    {c \in Contents : /\ notification[c].retries < MaxAttempts
                      /\ \/ notification[c].status \in {"pending", "sending"}
                         \/ notification[c].status = "failed" /\ notification[c].wait = 0}

\* Mutant of Claimable: a row left SENDING is never claimed again.
Claimable_NoStale ==
    {c \in Contents : /\ notification[c].retries < MaxAttempts
                      /\ \/ notification[c].status = "pending"
                         \/ notification[c].status = "failed" /\ notification[c].wait = 0}

\* PENDING, FAILED and due, or SENDING for too long, with an attempt left.
Claimable ==
    {c \in Contents : /\ notification[c].retries < MaxAttempts
                      /\ \/ notification[c].status = "pending"
                         \/ notification[c].status = "failed" /\ notification[c].wait = 0
                         \/ notification[c].status = "sending" /\ notification[c].age > StaleAfter}

Claim(d) ==
    /\ delivery[d].pc = "idle"
    /\ Claimable # {}
    /\ \E page \in Page(Claimable, Limit) :
          /\ notification' = [c \in Contents |->
                IF c \in page THEN [notification[c] EXCEPT !.status = "sending", !.age = 0, !.wait = 0]
                ELSE notification[c]]
          /\ delivery' = [delivery EXCEPT ![d] = [NoDelivery EXCEPT !.pc = "send", !.claimed = page]]
    /\ UNCHANGED <<intentVars, chat, crashes, lost>>

Answered(d, c, step) ==
    delivery' = [delivery EXCEPT ![d].pc = step, ![d].claimed = @ \ {c}, ![d].item = {c}]

\* Telegram accepts the message.  The row is not looked at again before the send.
SendAccepted(d, c) ==
    /\ delivery[d].pc = "send" /\ c \in delivery[d].claimed
    /\ chat' = [chat EXCEPT ![c] = @ + 1]
    /\ Answered(d, c, "sent")
    /\ UNCHANGED <<intentVars, notification, crashes, lost>>

\* The content is gone, the transport fails or Telegram answers with an error.
SendRefused(d, c) ==
    /\ delivery[d].pc = "send" /\ c \in delivery[d].claimed
    /\ Answered(d, c, "fail")
    /\ UNCHANGED <<intentVars, notification, chat, crashes, lost>>

\* The message is accepted but the answer does not arrive.
SendLost(d, c) ==
    /\ delivery[d].pc = "send" /\ c \in delivery[d].claimed
    /\ lost < MaxLost
    /\ lost' = lost + 1
    /\ chat' = [chat EXCEPT ![c] = @ + 1]
    /\ Answered(d, c, "fail")
    /\ UNCHANGED <<intentVars, notification, crashes>>

\* On to the next row of the batch, or to its end.
ItemDone(d) ==
    delivery' = [delivery EXCEPT ![d] =
                   IF @.claimed = {} THEN NoDelivery ELSE [@ EXCEPT !.pc = "send", !.item = {}]]

MarkSent(d) ==
    /\ delivery[d].pc = "sent"
    /\ notification' = [c \in Contents |->
          IF c \in delivery[d].item /\ notification[c].status = "sending"
          THEN [notification[c] EXCEPT !.status = "sent", !.age = 0] ELSE notification[c]]
    /\ ItemDone(d)
    /\ UNCHANGED <<intentVars, chat, crashes, lost>>

Backoff(retries) ==
    LET delay == BackoffBase * 2 ^ (retries - 1) IN
    IF delay \in 0..BackoffCap THEN delay ELSE BackoffCap

Failed(n) == [status |-> "failed", retries |-> n.retries + 1, age |-> 0, wait |-> Backoff(n.retries + 1)]

\* Mutant of MarkFailed: the status read under the row lock is not looked at.
MarkFailed_AnyStatus(d) ==
    /\ delivery[d].pc = "fail"
    /\ notification' = [c \in Contents |->
          IF c \in delivery[d].item THEN Failed(notification[c]) ELSE notification[c]]
    /\ ItemDone(d)
    /\ UNCHANGED <<intentVars, chat, crashes, lost>>

MarkFailed(d) ==
    /\ delivery[d].pc = "fail"
    /\ notification' = [c \in Contents |->
          IF c \in delivery[d].item /\ notification[c].status = "sending"
          THEN Failed(notification[c]) ELSE notification[c]]
    /\ ItemDone(d)
    /\ UNCHANGED <<intentVars, chat, crashes, lost>>

\* The process dies, or a transaction raises and deliver with it: what it has claimed
\* stays SENDING.
Crash(d) ==
    /\ delivery[d].pc # "idle"
    /\ crashes < MaxCrashes
    /\ crashes' = crashes + 1
    /\ delivery' = [delivery EXCEPT ![d] = NoDelivery]
    /\ UNCHANGED <<intentVars, notification, chat, lost>>

Send(d) ==
    \E c \in delivery[d].claimed : SendAccepted(d, c) \/ SendRefused(d, c) \/ SendLost(d, c)

Next ==
    \/ \E c \in Contents, status \in {"none", "open"} : CommitContent(c, status)
    \/ ToggleSource
    \/ \E r \in Reconcilers : ReconcileRead(r) \/ ReconcileWrite(r) \/ ReconcileFails(r)
    \/ Tick
    \/ \E d \in Deliverers : Claim(d) \/ Send(d) \/ MarkSent(d) \/ MarkFailed(d) \/ Crash(d)

\* Time passes, beat keeps sending both tasks, and a task that does not die goes on.
Fairness ==
    /\ WF_vars(Tick)
    /\ WF_vars(\E r \in Reconcilers : ReconcileRead(r))
    /\ \A r \in Reconcilers : WF_vars(ReconcileWrite(r))
    /\ WF_vars(\E d \in Deliverers : Claim(d))
    /\ \A d \in Deliverers : WF_vars(Send(d) \/ MarkSent(d) \/ MarkFailed(d))

Spec == Init /\ [][Next]_vars /\ Fairness

-----------------------------------------------------------------------------
(* Properties.                                                             *)

\* What a row says of its message and of its failures.
RowsAreSound ==
    \A c \in Contents :
        /\ notification[c].status = "sent" => chat[c] > 0
        /\ notification[c].status = "sending" => notification[c].retries < MaxAttempts
        /\ notification[c].retries <= MaxAttempts

\* Everything has its type, a row that says SENT is backed by a message in the chat,
\* however many deliveries claimed the row, and a row has at most MAX_ATTEMPTS failures
\* although late deliveries still report on it.
OutboxIsSound == TypeOK /\ RowsAreSound

\* A message goes out twice only if a delivery died or an answer was lost in between:
\* claims exclude each other while every batch ends before its claim is stale.
DuplicatesNeedAFault == \A c \in Contents : chat[c] <= 1 + crashes + lost

\* What has been sent, or has failed for the last time, never changes again, and no
\* other notification returns to PENDING.
OutcomeIsFinal ==
    [][\A c \in Contents :
         LET n == notification[c] IN
         /\ n.status = "sent" \/ (n.status = "failed" /\ n.retries = MaxAttempts) =>
               /\ notification'[c].status = n.status
               /\ notification'[c].retries = n.retries
         /\ n.status # "absent" /\ notification'[c].status = "pending" => n.status = "pending"]_vars

\* Content the policy accepts is passed over, by the scan or by the resolution of its
\* recovery record, only if the source's authorization has changed: no race of
\* reconcilers, replay or failed transaction loses an intent.  (A source disabled
\* between the scan and _candidate does leave a scan record on valid content.)
SkipsNeedAToggle ==
    toggles = 0 =>
        \A c \in AfterCutover \cap Displayable :
            c \in scanned \/ recovery[c] = "resolved" => notification[c].status # "absent"

\* While the source stays authorized, every content the policy accepts is notified and
\* its notification is sent or has spent its attempts, whatever dies on the way.
EveryContentEnds ==
    \A c \in AfterCutover \cap Displayable :
        c \in created ~> \/ notification[c].status = "sent"
                         \/ notification[c].status = "failed" /\ notification[c].retries = MaxAttempts

=============================================================================
