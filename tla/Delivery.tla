------------------------------ MODULE Delivery ------------------------------
(***************************************************************************)
(* run_notification_delivery (backend/src/notifications/delivery.rs): the  *)
(* rows of notification_deliveries, the claim query run by every replica   *)
(* and the task spawned for each claimed row.  Ages are relative to now    *)
(* and saturate just past the claim timeout, as in module Outbox.          *)
(***************************************************************************)
EXTENDS Integers

CONSTANTS
    Job,            \* delivery rows
    Task,           \* spawned tasks that may be in flight, on any replica
    ClaimTimeout,   \* 60000 ms, in clock ticks
    MaxShift,       \* 12: attempts beyond it do not lengthen the delay
    MaxDelay,       \* one hour, in clock ticks
    NoClaim, Free

ASSUME DeliveryAssumption ==
    /\ {ClaimTimeout, MaxShift, MaxDelay} \subseteq Nat
    /\ NoClaim \notin Int
    /\ Free \notin [job : Job, n : 0..MaxShift, at : {"deliver", "ok", "err"}]

VARIABLES
    waiting,    \* rows present with sent_at NULL
    sent,       \* rows with sent_at set
    attempts,   \* attempts, clamped at MaxShift
    wait,       \* next_attempt_at - now, 0 once due
    claimAge,   \* now - claimed_at, or NoClaim
    task,       \* what each spawned task is doing
    accepted,   \* history: calls per row the sink acted on, saturated at 2
    unsure      \* history: rows claimed over an expired claim, or whose sink
                \* acted on a call that returned an error

queue == <<waiting, sent, attempts, wait, claimAge>>
deliveryVars == <<waiting, sent, attempts, wait, claimAge, task, accepted, unsure>>

Expired == ClaimTimeout + 1
Outcome == {"ok", "lost", "failed"}

(* retry_delay_ms                                                          *)
RetryDelay(n) == IF 2^n > MaxDelay THEN MaxDelay ELSE 2^n

DeliveryTypeOK ==
    /\ waiting \subseteq Job /\ sent \subseteq Job /\ waiting \cap sent = {}
    /\ attempts \in [Job -> 0..MaxShift]
    /\ wait \in [Job -> 0..MaxDelay]
    /\ claimAge \in [Job -> (0..Expired) \union {NoClaim}]
    /\ task \in [Task -> [job : Job, n : 0..MaxShift, at : {"deliver", "ok", "err"}]
                         \union {Free}]
    /\ accepted \in [Job -> 0..2]
    /\ unsure \subseteq Job

DeliveryInit ==
    /\ waiting = {} /\ sent = {}
    /\ attempts = [j \in Job |-> 0]
    /\ wait = [j \in Job |-> 0]
    /\ claimAge = [j \in Job |-> NoClaim]
    /\ task = [t \in Task |-> Free]
    /\ accepted = [j \in Job |-> 0]
    /\ unsure = {}

AddDeliveriesAgain(J) ==
    /\ waiting' = waiting \union J
    /\ UNCHANGED <<sent, attempts, wait, claimAge, task, accepted, unsure>>

(* INSERT INTO notification_deliveries .. ON CONFLICT DO NOTHING, due now. *)
AddDeliveries(J) ==
    /\ waiting' = waiting \union (J \ sent)
    /\ UNCHANGED <<sent, attempts, wait, claimAge, task, accepted, unsure>>

ClaimableAtOnce(j) ==
    j \in waiting /\ wait[j] = 0

ClaimableUnclaimed(j) ==
    j \in waiting /\ wait[j] = 0 /\ claimAge[j] = NoClaim

(* The WHERE clause of the claim query.                                    *)
Claimable(j) ==
    j \in waiting /\ wait[j] = 0 /\ claimAge[j] \in {NoClaim, Expired}

(* The claim of one row and the spawn of its task; a batch is a sequence   *)
(* of these, cut by LIMIT and SKIP LOCKED.                                 *)
ClaimJob(t, j) ==
    /\ task[t] = Free
    /\ Claimable(j)
    /\ LET n == IF attempts[j] < MaxShift THEN attempts[j] + 1 ELSE MaxShift
       IN  /\ attempts' = [attempts EXCEPT ![j] = n]
           /\ task' = [task EXCEPT ![t] = [job |-> j, n |-> n, at |-> "deliver"]]
    /\ claimAge' = [claimAge EXCEPT ![j] = 0]
    /\ unsure' = IF claimAge[j] = Expired THEN unsure \union {j} ELSE unsure
    /\ UNCHANGED <<waiting, sent, wait, accepted>>

(* sink.deliver returns.  The POST fails without effect, or took effect    *)
(* though the ten seconds ran out or its answer got lost.                  *)
Deliver(t, outcome) ==
    LET j == task[t].job
    IN  /\ task[t] # Free /\ task[t].at = "deliver"
        /\ task' = [task EXCEPT ![t].at = IF outcome = "ok" THEN "ok" ELSE "err"]
        /\ accepted' = [accepted EXCEPT ![j] =
                IF outcome # "failed" /\ @ < 2 THEN @ + 1 ELSE @]
        /\ unsure' = IF outcome = "lost" THEN unsure \union {j} ELSE unsure
        /\ UNCHANGED queue

RecordUnguarded(j, ok, n) ==
    /\ waiting' = IF ok THEN waiting \ {j} ELSE waiting \union {j}
    /\ sent' = IF ok THEN sent \union {j} ELSE sent \ {j}
    /\ wait' = IF ok THEN wait ELSE [wait EXCEPT ![j] = RetryDelay(n)]
    /\ claimAge' = [claimAge EXCEPT ![j] = NoClaim]

(* The two updates guarded by sent_at IS NULL.                             *)
RecordResult(j, ok, n) ==
    IF j \in sent
    THEN UNCHANGED <<waiting, sent, wait, claimAge>>
    ELSE /\ waiting' = IF ok THEN waiting \ {j} ELSE waiting
         /\ sent' = IF ok THEN sent \union {j} ELSE sent
         /\ wait' = IF ok THEN wait ELSE [wait EXCEPT ![j] = RetryDelay(n)]
         /\ claimAge' = [claimAge EXCEPT ![j] = NoClaim]

(* The task records its result and ends; a failing update is only logged.  *)
FinishTask(t, stored) ==
    /\ task[t] # Free /\ task[t].at # "deliver"
    /\ IF stored
       THEN RecordResult(task[t].job, task[t].at = "ok", task[t].n)
       ELSE UNCHANGED <<waiting, sent, wait, claimAge>>
    /\ task' = [task EXCEPT ![t] = Free]
    /\ UNCHANGED <<attempts, accepted, unsure>>

(* The replica of the task dies.                                           *)
LoseTask(t) ==
    /\ task[t] # Free
    /\ task' = [task EXCEPT ![t] = Free]
    /\ UNCHANGED <<queue, accepted, unsure>>

Tick ==
    /\ wait' = [j \in Job |-> IF wait[j] > 0 THEN wait[j] - 1 ELSE 0]
    /\ claimAge' = [j \in Job |->
            IF claimAge[j] \in {NoClaim, Expired} THEN claimAge[j] ELSE claimAge[j] + 1]
    /\ <<wait', claimAge'>> # <<wait, claimAge>>
    /\ UNCHANGED <<waiting, sent, attempts, task, accepted, unsure>>

DeliverySome(t) ==
    \/ \E outcome \in Outcome : Deliver(t, outcome)
    \/ \E stored \in BOOLEAN : FinishTask(t, stored)

DeliveryNext ==
    \/ \E t \in Task, j \in Job : ClaimJob(t, j)
    \/ \E t \in Task : DeliverySome(t) \/ LoseTask(t)
    \/ Tick

Runs(t, j, at) == task[t] # Free /\ task[t].job = j /\ task[t].at = at

(* The loop of every replica goes on and time passes; a sink, and the row  *)
(* update after it, that are tried again and again succeed eventually.     *)
DeliveryFairness ==
    /\ WF_deliveryVars(Tick)
    /\ \A j \in Job : WF_deliveryVars(\E t \in Task : ClaimJob(t, j))
    /\ \A t \in Task : WF_deliveryVars(DeliverySome(t))
    /\ \A j \in Job :
        /\ SF_deliveryVars(\E t \in Task : Runs(t, j, "deliver") /\ Deliver(t, "ok"))
        /\ SF_deliveryVars(\E t \in Task : Runs(t, j, "ok") /\ FinishTask(t, TRUE))
-----------------------------------------------------------------------------
(* A sent row stays sent and is never claimed again, whatever a task that  *)
(* outlived its claim reports afterwards.                                  *)
SentIsFinal ==
    [][\A j \in sent : j \in sent' /\ attempts'[j] = attempts[j]]_deliveryVars

(* A notification takes effect twice only if a claim on its row expired or *)
(* a call that took effect returned an error: neither the replicas racing  *)
(* for the row nor the sender's retries duplicate it.                      *)
DuplicatesExplained ==
    \A j \in Job \ unsure : accepted[j] <= 1

(* Every delivery row is sent in the end: attempts are not capped, and no  *)
(* crash, failed update or stale claim strands it.                         *)
EventuallySent == \A j \in Job : j \in waiting ~> j \in sent
=============================================================================
