------------------------------- MODULE Login -------------------------------
(***************************************************************************)
(* The way of a password through one replica (backend/src/auth.rs): the    *)
(* rate limiter of enforce_rate_limit, one Valkey command at a time, then  *)
(* verify_password_coalesced, where callers with the same user, hash and   *)
(* password share one verification, a flight.  A flight is a watch channel *)
(* and the task that waits for a verifier permit, verifies and publishes.  *)
(***************************************************************************)
EXTENDS Integers, FiniteSets

CONSTANTS
    Caller,     \* concurrent requests
    Key,        \* verification keys: user, stored hash and password
    Flight,     \* watch channels, numbered: a key's registered one and those
                \* still read by other callers, so |Key| + |Caller| - 1 do
    Permits,    \* password_verifier_limit
    Limit,      \* requests allowed in a window
    MaxCount,   \* the counter saturates here, above the limit
    Unset       \* no flight, no key, no outcome

ASSUME FlightAssumption == Flight \subseteq Nat
ASSUME UnsetAssumption == Unset \notin Flight \union Key
ASSUME PermitsAssumption == Permits \in Nat \ {0}
ASSUME LimitAssumption == Limit \in Nat \ {0} /\ MaxCount \in Nat
                          /\ MaxCount > Limit

VARIABLES
    count, ttl,  \* the rate limit key: its value (0: no key), has it a TTL
    due,         \* history: a caller gave up between INCR and EXPIRE and
                 \* no later one has been through the limiter
    caller,      \* [at, over, key, on]: over the limit, key, flight waited for
    flights,     \* password_verification_flights
    task,        \* [at, key] of each flight, whatever its outcome is; the
                 \* channel shows it at "sent" and still None at "unsent"
    free         \* permits left in the semaphore

limiter == <<count, ttl, due>>
flying == <<flights, task, free>>
vars == <<limiter, caller, flying>>

Idle == [at |-> "idle", over |-> FALSE, key |-> Unset, on |-> Unset]
Landed == [at |-> "landed", key |-> Unset]
Aloft(f) == task[f].at \in {"queued", "verifying", "finished"}

TypeOK ==
    /\ count \in 0..MaxCount /\ ttl \in BOOLEAN /\ due \in BOOLEAN
    /\ ttl => count > 0
    /\ caller \in [Caller ->
            [at : {"idle", "expire", "ttl", "verify", "wait"}, over : BOOLEAN,
             key : Key \union {Unset}, on : Flight \union {Unset}]]
    /\ flights \in [Key -> Flight \union {Unset}]
    /\ task \in [Flight ->
            [at : {"queued", "verifying", "finished", "sent", "unsent", "landed"},
             key : Key \union {Unset}]]
    /\ free \in 0..Permits

Init ==
    /\ count = 0 /\ ttl = FALSE /\ due = FALSE
    /\ caller = [c \in Caller |-> Idle]
    /\ flights = [k \in Key |-> Unset]
    /\ task = [f \in Flight |-> Landed]
    /\ free = Permits

MoveTo(c, at) == caller' = [caller EXCEPT ![c].at = at]
Return(c) == caller' = [caller EXCEPT ![c] = Idle]
-----------------------------------------------------------------------------
(* INCR; past MaxCount, which is over the limit, counts are not told apart *)
Incr(c, k) ==
    /\ caller[c].at = "idle"
    /\ count' = IF count < MaxCount THEN count + 1 ELSE count
    /\ caller' = [caller EXCEPT ![c] =
            [at |-> IF count' = 1 THEN "expire" ELSE "ttl",
             over |-> count' > Limit, key |-> k, on |-> Unset]]
    /\ UNCHANGED <<ttl, due, flying>>

(* 429 over the limit, else on to the verification.                        *)
Limited(c) == IF caller[c].over THEN Return(c) ELSE MoveTo(c, "verify")

ReadTtlIgnored(c) ==
    /\ caller[c].at = "ttl"
    /\ Limited(c) /\ due' = FALSE
    /\ UNCHANGED <<count, ttl, flying>>

(* TTL: -1 for a key without one, -2 when there is no key.                 *)
ReadTtl(c) ==
    /\ caller[c].at = "ttl"
    /\ \/ count > 0 /\ ~ttl /\ MoveTo(c, "expire") /\ UNCHANGED due
       \/ (count = 0 \/ ttl) /\ Limited(c) /\ due' = FALSE
    /\ UNCHANGED <<count, ttl, flying>>

(* EXPIRE, which does nothing without a key.                               *)
SetExpire(c) ==
    /\ caller[c].at = "expire"
    /\ ttl' = (count > 0)
    /\ due' = FALSE
    /\ Limited(c)
    /\ UNCHANGED <<count, flying>>

WindowEnds ==
    /\ ttl
    /\ count' = 0 /\ ttl' = FALSE
    /\ UNCHANGED <<due, caller, flying>>

(* A Valkey error, or the client's disconnection drops the handler.        *)
GiveUp(c) ==
    /\ caller[c].at # "idle"
    /\ due' = (due \/ caller[c].at \in {"expire", "ttl"})
    /\ Return(c)
    /\ UNCHANGED <<count, ttl, flying>>
-----------------------------------------------------------------------------
NewFlight(f, k) ==
    task' = [task EXCEPT ![f] = [at |-> "queued", key |-> k]]

(* The least channel that nothing refers to.                               *)
Unused(f) ==
    LET In(g) == task[g].at = "landed" /\ \A c \in Caller : caller[c].on # g
    IN  In(f) /\ \A g \in Flight : In(g) => f <= g

SubscribeAlone(c) ==
    /\ caller[c].at = "verify"
    /\ \E f \in Flight :
        /\ Unused(f)
        /\ flights' = [flights EXCEPT ![caller[c].key] = f]
        /\ NewFlight(f, caller[c].key)
        /\ caller' = [caller EXCEPT ![c].at = "wait", ![c].on = f]
    /\ UNCHANGED <<limiter, free>>

(* The map is looked up and extended under one lock.                       *)
Subscribe(c) ==
    LET k == caller[c].key
    IN  /\ caller[c].at = "verify"
        /\ \E f \in Flight :
            /\ \/ flights[k] = f /\ UNCHANGED <<flights, task>>
               \/ /\ flights[k] = Unset /\ Unused(f)
                  /\ flights' = [flights EXCEPT ![k] = f]
                  /\ NewFlight(f, k)
            /\ caller' = [caller EXCEPT ![c].at = "wait", ![c].on = f]
        /\ UNCHANGED <<limiter, free>>

(* A permit within five seconds, or Overloaded.                            *)
Acquire(f) ==
    /\ task[f].at = "queued"
    /\ \/ /\ free > 0
          /\ free' = free - 1
          /\ task' = [task EXCEPT ![f].at = "verifying"]
       \/ /\ task' = [task EXCEPT ![f].at = "finished"]
          /\ UNCHANGED free
    /\ UNCHANGED <<limiter, caller, flights>>

VerifyKeepingPermitOnPanic(f) ==
    /\ task[f].at = "verifying"
    /\ task' = [task EXCEPT ![f].at = "finished"]
    /\ \E panics \in BOOLEAN : free' = IF panics THEN free ELSE free + 1
    /\ UNCHANGED <<limiter, caller, flights>>

VerifyUnwrapped(f) ==
    /\ task[f].at = "verifying"
    /\ \/ task' = [task EXCEPT ![f].at = "finished"]
       \/ task' = [task EXCEPT ![f].at = "landed"]
    /\ free' = free + 1
    /\ UNCHANGED <<limiter, caller, flights>>

(* The blocking verification returns, or panics, which is Unavailable; its *)
(* permit is dropped either way, by unwinding in the second.               *)
Verify(f) ==
    /\ task[f].at = "verifying"
    /\ task' = [task EXCEPT ![f].at = "finished"]
    /\ free' = free + 1
    /\ UNCHANGED <<limiter, caller, flights>>

(* sender.send(Some(outcome)) stores nothing once every caller has dropped *)
(* its receiver; one who subscribes after that finds None.                 *)
Send(f) ==
    /\ task[f].at = "finished"
    /\ task' = [task EXCEPT ![f].at =
            IF \E c \in Caller : caller[c].on = f THEN "sent" ELSE "unsent"]
    /\ UNCHANGED <<limiter, caller, flights, free>>

(* flights.remove(key) and the end of the task.                            *)
Unregister(f) ==
    /\ task[f].at \in {"sent", "unsent"}
    /\ flights' = [flights EXCEPT ![task[f].key] = Unset]
    /\ task' = [task EXCEPT ![f] = Landed]
    /\ UNCHANGED <<limiter, caller, free>>

(* The task and the map have dropped their senders.                        *)
Closed(f) == task[f].at = "landed" /\ \A k \in Key : flights[k] # f

(* The loop on borrow() and changed() ends with the value, which may be    *)
(* there already, or with 503 when the channel is closed without one.      *)
Answer(c) ==
    /\ caller[c].at = "wait"
    /\ task[caller[c].on].at = "sent" \/ Closed(caller[c].on)
    /\ Return(c)
    /\ UNCHANGED <<limiter, flying>>

CallerStep(c) == ReadTtl(c) \/ SetExpire(c) \/ Subscribe(c) \/ Answer(c)
FlightStep(f) == Acquire(f) \/ Verify(f) \/ Send(f) \/ Unregister(f)

Next ==
    \/ \E c \in Caller : CallerStep(c) \/ GiveUp(c) \/ \E k \in Key : Incr(c, k)
    \/ \E f \in Flight : FlightStep(f)
    \/ WindowEnds

(* Tokio runs every task that is ready and the five second timer fires.    *)
Fairness ==
    /\ \A c \in Caller : WF_vars(CallerStep(c))
    /\ \A f \in Flight : WF_vars(FlightStep(f))

Spec == Init /\ [][Next]_vars /\ Fairness
-----------------------------------------------------------------------------
(* Callers with one key never verify it twice at a time: a key has at most *)
(* one flight whose outcome is still open, and the map leads to it.        *)
OneFlightPerKey ==
    /\ \A f, g \in Flight :
        Aloft(f) /\ Aloft(g) /\ task[f].key = task[g].key => f = g
    /\ \A f \in Flight : Aloft(f) => flights[task[f].key] = f

(* Permits are neither lost nor made up, whatever becomes of the callers   *)
(* and of the verifications, so at most Permits of them run at a time.     *)
PermitsAccounted ==
    free + Cardinality({f \in Flight : task[f].at = "verifying"}) = Permits

(* A rate limit counter always goes away: it has an expiry unless a caller *)
(* is about to see to it, or one gave up there and the next call heals it. *)
CountersExpire ==
    count > 0 /\ ~ttl =>
        due \/ \E c \in Caller : caller[c].at \in {"expire", "ttl"}

(* Every caller gets an answer, also when all permits stay taken, the      *)
(* verification panics, or the caller subscribes to a flight whose outcome *)
(* is already sent, or was not stored as all its callers had given up.     *)
CallersAnswered ==
    \A c \in Caller : caller[c].at # "idle" ~> caller[c].at = "idle"
=============================================================================
