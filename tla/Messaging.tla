----------------------------- MODULE Messaging -----------------------------
(***************************************************************************)
(* One message with a client_id, from the composer to its recipients: the  *)
(* browser's pending list (+page.svelte), which outlives the session, the  *)
(* SendMessage arm of handle_client_event run once per replay, on any      *)
(* replica, the rows it saves, the outbox retry of their notifications     *)
(* and, through module Delivery, the deliveries.                           *)
(***************************************************************************)
EXTENDS Delivery

CONSTANTS
    Recipient,  \* users the message notifies
    Sessions,   \* sessions the browser has, one after the other
    Req,        \* connections of the browser whose handlers may be running
    NoReq

(* A delivery row is for a recipient and the message row of a session.     *)
ASSUME MessagingAssumption ==
    Sessions \in Nat \ {0} /\ Job = Recipient \X (1..Sessions)

VARIABLES
    session,    \* the browser's session
    cur,        \* its live connection
    handler,    \* [at, own] of each connection's SendMessage handler: where
                \* it is, and the session of its socket
    rows,       \* rows saved with this client_id, per owner_session
    altered,    \* sessions whose row was edited or deleted since
    retry,      \* outbox rows message.notifications, per message row: "lost"
                \* where queueing failed too or the outbox gave up
    seen        \* sessions whose row the browser has been sent an event of

sendVars == <<session, cur, handler, rows, altered, seen>>
noticeVars == <<retry, deliveryVars>>
vars == <<sendVars, noticeVars>>

Session == 1..Sessions
JobsOf(s) == Recipient \X {s}
Idle == [at |-> "idle", own |-> 1]

Labels == {"idle", "lookup", "save", "conflict", "notify", "queue",
           "broadcast", "reconcile", "answer"}

(* The message is in pendingMessages until an event carries its client_id. *)
Pending == seen = {}

SendTypeOK ==
    /\ session \in Session
    /\ cur \in Req \union {NoReq}
    /\ handler \in [Req -> [at : Labels, own : Session]]
    /\ rows \in [Session -> 0..2]
    /\ altered \subseteq Session /\ seen \subseteq Session
    /\ retry \in [Session -> {"none", "queued", "over", "lost"}]

TypeOK == DeliveryTypeOK /\ SendTypeOK

Init ==
    /\ DeliveryInit
    /\ session = 1 /\ cur = NoReq
    /\ handler = [r \in Req |-> Idle]
    /\ rows = [s \in Session |-> 0]
    /\ altered = {} /\ seen = {}
    /\ retry = [s \in Session |-> "none"]

At(r, label) == handler[r].at = label
To(r, label) == handler' = [handler EXCEPT ![r].at = label]
Return(r) == handler' = [handler EXCEPT ![r] = Idle]
-----------------------------------------------------------------------------
(* The browser connects, joins its room and flushPendingMessages sends.    *)
Reconnect(r) ==
    /\ cur = NoReq /\ At(r, "idle")
    /\ cur' = r
    /\ handler' = [handler EXCEPT ![r] =
            IF Pending THEN [at |-> "lookup", own |-> session] ELSE Idle]
    /\ UNCHANGED <<session, rows, altered, seen, noticeVars>>

(* The connection drops; its handler is not told.                          *)
Drop ==
    /\ cur # NoReq
    /\ cur' = NoReq
    /\ UNCHANGED <<session, handler, rows, altered, seen, noticeVars>>

(* The session ends and the user signs in again: the socket is closed, the *)
(* pending list is kept.                                                   *)
SignIn ==
    /\ session < Sessions
    /\ session' = session + 1
    /\ cur' = NoReq
    /\ UNCHANGED <<handler, rows, altered, seen, noticeVars>>

(* find_message_by_client_id in the handler's session, and the comparison  *)
(* with what was sent.                                                     *)
Lookup(r) ==
    LET s == handler[r].own
    IN  /\ handler[r].at \in {"lookup", "conflict"}
        /\ IF rows[s] > 0
           THEN IF s \in altered THEN Return(r) ELSE To(r, "reconcile")
           ELSE IF At(r, "lookup") THEN To(r, "save") ELSE Return(r)
        /\ UNCHANGED <<session, cur, rows, altered, seen, noticeVars>>

SaveUnchecked(r, outcome) ==
    LET s == handler[r].own
    IN  /\ At(r, "save")
        /\ rows' = [rows EXCEPT ![s] = IF @ < 2 THEN @ + 1 ELSE @]
        /\ To(r, "notify")
        /\ UNCHANGED <<session, cur, altered, seen, noticeVars>>

(* save_message: the unique index on (owner_session, client_id) refuses a  *)
(* second row.  A refusal, another failure and a commit whose answer is    *)
(* lost are all looked up.                                                 *)
Save(r, outcome) ==
    LET s == handler[r].own
        inserted == outcome # "failed" /\ rows[s] = 0
    IN  /\ At(r, "save")
        /\ rows' = IF inserted THEN [rows EXCEPT ![s] = 1] ELSE rows
        /\ To(r, IF inserted /\ outcome = "ok" THEN "notify" ELSE "conflict")
        /\ UNCHANGED <<session, cur, altered, seen, noticeVars>>

(* create_message_notifications: the notifications and their deliveries in *)
(* one transaction, keyed by recipient, message and kind.                  *)
CreateMessageNotifications(s) == AddDeliveries(JobsOf(s))

Notify(r) ==
    /\ At(r, "notify")
    /\ CreateMessageNotifications(handler[r].own)
    /\ To(r, "broadcast")
    /\ UNCHANGED <<session, cur, rows, altered, seen, retry>>

NotifyFails(r) ==
    /\ At(r, "notify")
    /\ To(r, "queue")
    /\ UNCHANGED <<session, cur, rows, altered, seen, noticeVars>>

(* INSERT INTO outbox_events .. WHERE NOT EXISTS; failing is only logged.  *)
QueueRetry(r, ok) ==
    /\ At(r, "queue")
    /\ retry' = [retry EXCEPT ![handler[r].own] =
            IF ok THEN "queued" ELSE "lost"]
    /\ To(r, "broadcast")
    /\ UNCHANGED <<session, cur, rows, altered, seen, deliveryVars>>

(* store_message, and the room's event, which reaches the browser too when *)
(* it is connected and has joined (module Rooms says when that fails).     *)
Broadcast(r, delivered) ==
    /\ At(r, "broadcast")
    /\ seen' = IF delivered /\ cur # NoReq
               THEN seen \union {handler[r].own} ELSE seen
    /\ Return(r)
    /\ UNCHANGED <<session, cur, rows, altered, noticeVars>>

ReconcileSkipped(r) ==
    /\ At(r, "reconcile")
    /\ To(r, "answer")
    /\ UNCHANGED <<session, cur, rows, altered, seen, noticeVars>>

(* An idempotent retry creates the notifications again before it answers.  *)
Reconcile(r) ==
    /\ At(r, "reconcile")
    /\ CreateMessageNotifications(handler[r].own)
    /\ To(r, "answer")
    /\ UNCHANGED <<session, cur, rows, altered, seen, retry>>

(* send_event to the connection that asked.                                *)
Answer(r) ==
    /\ At(r, "answer")
    /\ seen' = IF cur = r THEN seen \union {handler[r].own} ELSE seen
    /\ Return(r)
    /\ UNCHANGED <<session, cur, rows, altered, noticeVars>>

(* A fallible step returns an error event, or the replica dies.            *)
Fail(r) ==
    /\ ~At(r, "idle")
    /\ Return(r)
    /\ UNCHANGED <<session, cur, rows, altered, seen, noticeVars>>

(* The owner edits, or someone deletes, a saved message.                   *)
Alter(s) ==
    /\ rows[s] > 0 /\ s \notin altered
    /\ altered' = altered \union {s}
    /\ UNCHANGED <<session, cur, handler, rows, seen, noticeVars>>

(* handle_notification_retry succeeds; the row is published after it, so   *)
(* a lost acknowledgement runs it again.                                   *)
RunRetry(s, published) ==
    /\ retry[s] = "queued"
    /\ CreateMessageNotifications(s)
    /\ retry' = IF published THEN [retry EXCEPT ![s] = "over"] ELSE retry
    /\ UNCHANGED sendVars

(* The outbox row has used up its attempts (module Outbox).                *)
GiveUpRetry(s) ==
    /\ retry[s] = "queued"
    /\ retry' = [retry EXCEPT ![s] = "lost"]
    /\ UNCHANGED <<sendVars, deliveryVars>>

SendStep(r) ==
    \/ Reconnect(r) \/ Lookup(r) \/ Notify(r) \/ NotifyFails(r)
    \/ Reconcile(r) \/ Answer(r) \/ Fail(r)
    \/ \E outcome \in Outcome : Save(r, outcome)
    \/ \E ok \in BOOLEAN : QueueRetry(r, ok) \/ Broadcast(r, ok)

RowStep(s) ==
    \/ Alter(s) \/ GiveUpRetry(s)
    \/ \E published \in BOOLEAN : RunRetry(s, published)

Next ==
    \/ \E r \in Req : SendStep(r)
    \/ Drop \/ SignIn
    \/ \E s \in Session : RowStep(s)
    \/ DeliveryNext /\ UNCHANGED <<sendVars, retry>>

Spec == Init /\ [][Next]_vars /\ DeliveryFairness
-----------------------------------------------------------------------------
(* However often the browser replays the message, over however many        *)
(* replicas, a session saves it once: a second row takes a new sign-in     *)
(* while the message is pending.  It is dropped from the pending list only *)
(* when the row of the event is durable (plan.txt:334 "cleared only after  *)
(* the durable message event is observed").                                *)
ClearedIsDurableOnce ==
    \A s \in Session : rows[s] <= 1 /\ (s \in seen => rows[s] > 0)

(* When the sender has seen a row of the message, the notifications of its *)
(* recipients exist or their creation is queued, also when the handler     *)
(* that saved it died; otherwise queueing failed too or the outbox gave up.*)
SeenMeansNotified ==
    \A s \in seen : \/ JobsOf(s) \subseteq waiting \union sent
                    \/ retry[s] \in {"queued", "lost"}
=============================================================================
