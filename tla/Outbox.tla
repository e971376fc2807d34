------------------------------- MODULE Outbox -------------------------------
(***************************************************************************)
(* The transactional outbox (backend/src/outbox.rs): requests insert event *)
(* rows, and one run_outbox task per replica claims a batch of rows with   *)
(* an expiring claim, dispatches each to its handler and records the       *)
(* outcome.  Replicas crash and restart; database updates may fail.        *)
(*                                                                         *)
(* Time enters the code only through  now - claimed_at,  so the model      *)
(* keeps the age of each claim, saturated just past the claim timeout.     *)
(***************************************************************************)
EXTENDS Integers, FiniteSets

CONSTANTS
    Event,          \* event ids, integers in (created_at, id) order
    Worker,         \* run_outbox tasks, one per replica
    MaxAttempts,    \* 5 in the claim query
    ClaimTimeout,   \* CLAIM_TIMEOUT_MILLIS, in clock ticks
    BatchLimit,     \* LIMIT 32 of the claim query
    NoClaim,        \* claimed_at IS NULL
    Idle            \* no dispatch outcome waits to be recorded

ASSUME EventAssumption == Event \subseteq Int
ASSUME WorkerAssumption == IsFiniteSet(Worker)
ASSUME BoundsAssumption ==
    /\ MaxAttempts \in Nat
    /\ ClaimTimeout \in Nat
    /\ BatchLimit \in Nat \ {0}
ASSUME NoClaimAssumption == NoClaim \notin Int
ASSUME IdleAssumption == Idle \notin Event \X BOOLEAN

VARIABLES
    queued,     \* rows present in outbox_events
    attempts,   \* attempts column
    claimAge,   \* now - claimed_at, or NoClaim
    published,  \* rows with published_at set
    batch,      \* rows a worker claimed and has not finished
    outcome,    \* <<event, delivered>> between dispatch and finish_event
    runs,       \* history: handler runs per event, on every replica
    handled,    \* history: events some handler run succeeded for
    lapsed      \* history: events claimed again over an expired claim

rowVars == <<queued, attempts, claimAge, published>>
vars == <<queued, attempts, claimAge, published, batch, outcome, runs, handled,
          lapsed>>

Expired == ClaimTimeout + 1     \* the saturated age: older than the timeout

TypeOK ==
    /\ queued \subseteq Event
    /\ attempts \in [Event -> 0..MaxAttempts]
    /\ claimAge \in [Event -> (0..Expired) \union {NoClaim}]
    /\ published \subseteq queued
    /\ batch \in [Worker -> SUBSET queued]
    /\ outcome \in [Worker -> (Event \X BOOLEAN) \union {Idle}]
    /\ \A w \in Worker : outcome[w] # Idle => outcome[w][1] \in batch[w]
    /\ runs \in [Event -> Nat]
    /\ handled \subseteq queued
    /\ lapsed \subseteq queued

Init ==
    /\ queued = {}
    /\ attempts = [e \in Event |-> 0]
    /\ claimAge = [e \in Event |-> NoClaim]
    /\ published = {}
    /\ batch = [w \in Worker |-> {}]
    /\ outcome = [w \in Worker |-> Idle]
    /\ runs = [e \in Event |-> 0]
    /\ handled = {}
    /\ lapsed = {}

(* A request's transaction inserts the row with claimed_at NULL and        *)
(* attempts 0.                                                             *)
Enqueue(e) ==
    /\ e \notin queued
    /\ queued' = queued \union {e}
    /\ UNCHANGED <<attempts, claimAge, published, batch, outcome, runs,
                   handled, lapsed>>

ClaimableAnyAttempts(e) ==
    /\ e \in queued \ published
    /\ claimAge[e] = NoClaim \/ claimAge[e] = Expired

ClaimableNeverExpiring(e) ==
    /\ e \in queued \ published
    /\ attempts[e] < MaxAttempts
    /\ claimAge[e] = NoClaim

ClaimableAnyAge(e) ==
    /\ e \in queued \ published
    /\ attempts[e] < MaxAttempts

(* The WHERE clause of the claim query.                                    *)
Claimable(e) ==
    /\ e \in queued \ published
    /\ attempts[e] < MaxAttempts
    /\ claimAge[e] = NoClaim \/ claimAge[e] = Expired

(* ORDER BY created_at, id ... LIMIT BatchLimit                            *)
Oldest(S) ==
    {e \in S : Cardinality({f \in S : f < e}) < BatchLimit}

(* FOR UPDATE SKIP LOCKED passes over a row another worker's finish_event  *)
(* has locked at that moment.                                              *)
LockedByOthers(w) == UNION {batch[v] : v \in Worker \ {w}}

(* claim_events: one SQL statement selects, locks and claims the batch.    *)
ClaimEvents(w) ==
    /\ batch[w] = {}
    /\ \E skipped \in SUBSET LockedByOthers(w) :
        LET chosen == Oldest({e \in Event : Claimable(e)} \ skipped)
        IN  /\ chosen # {}
            /\ batch' = [batch EXCEPT ![w] = chosen]
            /\ attempts' = [e \in Event |->
                    IF e \in chosen THEN attempts[e] + 1 ELSE attempts[e]]
            /\ claimAge' = [e \in Event |->
                    IF e \in chosen THEN 0 ELSE claimAge[e]]
            /\ lapsed' = lapsed \union {e \in chosen : claimAge[e] = Expired}
    /\ UNCHANGED <<queued, published, outcome, runs, handled>>

(* dispatch: the event's handler runs to an Ok or an Err.                  *)
Dispatch(w, e, ok) ==
    /\ e \in batch[w]
    /\ outcome[w] = Idle
    /\ outcome' = [outcome EXCEPT ![w] = <<e, ok>>]
    /\ runs' = [runs EXCEPT ![e] = @ + 1]
    /\ handled' = IF ok THEN handled \union {e} ELSE handled
    /\ UNCHANGED <<rowVars, batch, lapsed>>

FinishRowAlwaysPublishes(e, delivered) ==
    IF e \in published
    THEN UNCHANGED <<published, claimAge>>
    ELSE /\ published' = published \union {e}
         /\ claimAge' = [claimAge EXCEPT ![e] = NoClaim]

(* The row update of finish_event.  Both statements are guarded by         *)
(* published_at IS NULL; neither asks whose claim it releases.             *)
FinishRow(e, delivered) ==
    IF e \in published
    THEN UNCHANGED <<published, claimAge>>
    ELSE /\ published' = IF delivered THEN published \union {e} ELSE published
         /\ claimAge' = [claimAge EXCEPT ![e] = NoClaim]

(* finish_event, and the end of the loop body for that row.  When the      *)
(* update itself fails (stored = FALSE) run_outbox logs and moves on.      *)
FinishEvent(w, stored) ==
    /\ outcome[w] # Idle
    /\ LET e == outcome[w][1]
       IN  /\ IF stored
              THEN FinishRow(e, outcome[w][2])
              ELSE UNCHANGED <<published, claimAge>>
           /\ batch' = [batch EXCEPT ![w] = @ \ {e}]
    /\ outcome' = [outcome EXCEPT ![w] = Idle]
    /\ UNCHANGED <<queued, attempts, runs, handled, lapsed>>

(* The replica dies and restarts: its claims stay in the rows.             *)
Crash(w) ==
    /\ batch[w] # {}
    /\ batch' = [batch EXCEPT ![w] = {}]
    /\ outcome' = [outcome EXCEPT ![w] = Idle]
    /\ UNCHANGED <<rowVars, runs, handled, lapsed>>

Tick ==
    /\ claimAge' = [e \in Event |->
            IF claimAge[e] \in {NoClaim, Expired}
            THEN claimAge[e] ELSE claimAge[e] + 1]
    /\ claimAge' # claimAge
    /\ UNCHANGED <<queued, attempts, published, batch, outcome, runs, handled,
                   lapsed>>

DispatchSome(w) == \E e \in batch[w], ok \in BOOLEAN : Dispatch(w, e, ok)
FinishSome(w) == \E stored \in BOOLEAN : FinishEvent(w, stored)

Next ==
    \/ \E e \in Event : Enqueue(e)
    \/ \E w \in Worker : ClaimEvents(w)
    \/ \E w \in Worker : DispatchSome(w)
    \/ \E w \in Worker : FinishSome(w)
    \/ \E w \in Worker : Crash(w)
    \/ Tick

Spec == Init /\ [][Next]_vars

(* run_outbox is an endless loop on every replica and time passes; nothing *)
(* is assumed about requests, crashes or how dispatches end.               *)
Fairness ==
    /\ WF_vars(Tick)
    /\ \A w \in Worker :
        /\ WF_vars(ClaimEvents(w))
        /\ WF_vars(DispatchSome(w))
        /\ WF_vars(FinishSome(w))

FairSpec == Spec /\ Fairness

(* Moreover a handler that is tried again and again succeeds eventually:   *)
(* outages of Valkey and PostgreSQL end.                                   *)
RecoverySpec ==
    /\ FairSpec
    /\ \A e \in Event : SF_vars(\E w \in Worker : Dispatch(w, e, TRUE))
-----------------------------------------------------------------------------
Holders(e) == {w \in Worker : e \in batch[w]}

(* As long as no claim on an event has been taken over after expiring, at  *)
(* most one replica is processing it: the claim query's FOR UPDATE, the    *)
(* claimed_at test and finish_event together keep replicas apart           *)
(* (README: "multiple replicas do not normally claim the same event").     *)
ExclusiveUnlessLapsed ==
    \A e \in Event \ lapsed :
        \A v, w \in Holders(e) : v = w

(* However replicas crash, race or lose their claims, an event's handler   *)
(* runs at most MaxAttempts times in total (attempts < 5 in claim_events). *)
HandlerRunsBounded == \A e \in Event : runs[e] <= MaxAttempts

(* A row is marked published only if some handler run of it succeeded,     *)
(* also when the worker that marks it is not the one whose claim stands.   *)
PublishedWasHandled == published \subseteq handled

(* Once published, a row is never unpublished, reclaimed or re-released by *)
(* a late worker: the published_at IS NULL guards of outbox.rs.            *)
PublishedIsFinal ==
    [][\A e \in published :
        /\ e \in published'
        /\ claimAge'[e] = claimAge[e]
        /\ attempts'[e] = attempts[e]]_vars

(* Every inserted event ends up published or with its attempts used up:    *)
(* no crash, failed acknowledgement or stale claim strands it.             *)
EventuallySettled ==
    \A e \in Event :
        e \in queued ~> (e \in published \/ attempts[e] = MaxAttempts)

(* Workers that hold e and have not run its handler in this claim.         *)
Pending(e) ==
    {w \in Worker : e \in batch[w] /\ ~(outcome[w] # Idle /\ outcome[w][1] = e)}

(* The inductive strengthening of the four safety properties: a standing   *)
(* claim backs every first holder, published rows carry no claim, outcomes *)
(* are backed by handler runs, and every run was paid for by an attempt.   *)
OutboxInv ==
    /\ TypeOK
    /\ \A e \in Event \ lapsed : \A w \in Holders(e) :
        /\ claimAge[e] # NoClaim
        /\ \A v \in Holders(e) : v = w
    /\ \A e \in published : e \in handled /\ claimAge[e] = NoClaim
    /\ \A w \in Worker :
        (outcome[w] # Idle /\ outcome[w][2]) => outcome[w][1] \in handled
    /\ \A e \in Event : runs[e] + Cardinality(Pending(e)) <= attempts[e]

(* README.md:159: "delivery remains at-least-once for crash recovery":     *)
(* every inserted event is eventually handled by some replica.             *)
EventuallyHandled == \A e \in Event : e \in queued ~> e \in handled

(* The outbox implements the durable job queue.                            *)
Queue == INSTANCE DurableQueue WITH
    Job <- Event,
    Limit <- MaxAttempts,
    phase <- [e \in Event |-> IF e \in published THEN "done"
                              ELSE IF e \in queued THEN "pending"
                              ELSE "absent"],
    accomplished <- handled,
    tries <- runs

ImplementsDurableQueue == Queue!QueueSpec
=============================================================================
