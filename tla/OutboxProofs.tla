---------------------------- MODULE OutboxProofs ----------------------------
(***************************************************************************)
(* Proofs about the transactional outbox, for any events, any finite set   *)
(* of replicas, and any attempt limit, claim timeout and batch size.       *)
(***************************************************************************)
EXTENDS Outbox, FiniteSetTheorems, TLAPS

(* A claim takes only claimable rows.                                      *)
LEMMA OldestSubset == ASSUME NEW S PROVE Oldest(S) \subseteq S
BY Zenon DEF Oldest

(* Counting facts about sets of workers, one of which gains, loses or      *)
(* keeps at most one element of the other.                                 *)
LEMMA CountSubset ==
    ASSUME NEW S \in SUBSET Worker, NEW T \in SUBSET S
    PROVE  /\ Cardinality(S) \in Nat
           /\ Cardinality(T) \in Nat
           /\ Cardinality(T) <= Cardinality(S)
<1>1. IsFiniteSet(S)
  BY Zenon, WorkerAssumption, FS_Subset
<1>2. IsFiniteSet(T) /\ Cardinality(T) <= Cardinality(S)
  BY Zenon, <1>1, FS_Subset
<1>. QED
  BY Zenon, <1>1, <1>2, FS_CardinalityType

LEMMA CountAdd ==
    ASSUME NEW S \in SUBSET Worker, NEW w \in Worker, NEW T \in SUBSET (S \union {w})
    PROVE  /\ Cardinality(S) \in Nat
           /\ Cardinality(T) \in Nat
           /\ Cardinality(T) <= Cardinality(S) + 1
<1>1. IsFiniteSet(S) /\ Cardinality(S) \in Nat
  BY Zenon, WorkerAssumption, FS_Subset, FS_CardinalityType
<1>2. Cardinality(S \union {w}) = IF w \in S THEN Cardinality(S) ELSE Cardinality(S) + 1
  BY ONLY <1>1, FS_AddElement, Zenon
<1>3. Cardinality(T) \in Nat /\ Cardinality(T) <= Cardinality(S \union {w})
  BY Zenon, CountSubset
<1>. QED
  BY <1>1, <1>2, <1>3

LEMMA CountRemove ==
    ASSUME NEW S \in SUBSET Worker, NEW w \in S, NEW T \in SUBSET (S \ {w})
    PROVE  /\ Cardinality(S) \in Nat
           /\ Cardinality(T) \in Nat
           /\ Cardinality(T) <= Cardinality(S) - 1
<1>1. IsFiniteSet(S) /\ Cardinality(S) \in Nat
  BY Zenon, WorkerAssumption, FS_Subset, FS_CardinalityType
<1>2. Cardinality(S \ {w}) = Cardinality(S) - 1
  BY Zenon, <1>1, FS_RemoveElement
<1>3. Cardinality(T) \in Nat /\ Cardinality(T) <= Cardinality(S \ {w})
  BY Zenon, CountSubset
<1>. QED
  BY Zenon, <1>1, <1>2, <1>3
-----------------------------------------------------------------------------
(* The type invariant holds initially and every action preserves it.       *)
LEMMA InitTypeOK == Init => TypeOK
BY BoundsAssumption DEF Init, TypeOK, Expired

LEMMA NextTypeOK == TypeOK /\ [Next]_vars => TypeOK'
<1> SUFFICES ASSUME TypeOK, [Next]_vars PROVE TypeOK'
  BY Zenon
<1> USE BoundsAssumption
<1>1. ASSUME NEW e \in Event, Enqueue(e) PROVE TypeOK'
  BY Zenon, <1>1 DEF Enqueue, TypeOK, Expired
<1>2. ASSUME NEW w \in Worker, ClaimEvents(w) PROVE TypeOK'
  <2>1. PICK skipped \in SUBSET LockedByOthers(w) :
            ClaimEvents(w)!2!(skipped)
    BY Zenon, <1>2 DEF ClaimEvents
  <2> DEFINE chosen == Oldest({e \in Event : Claimable(e)} \ skipped)
  <2>2. \A e \in chosen : e \in queued /\ attempts[e] < MaxAttempts /\ e \in Event
    BY Zenon, OldestSubset DEF Claimable
  <2>3. attempts' \in [Event -> 0..MaxAttempts]
    <3>1. attempts' = [e \in Event |->
                IF e \in chosen THEN attempts[e] + 1 ELSE attempts[e]]
      BY Zenon, <2>1
    <3> HIDE DEF chosen
    <3>. QED
      BY <3>1, <2>2 DEF TypeOK
  <2>4. claimAge' \in [Event -> (0..Expired) \union {NoClaim}]
    <3>1. claimAge' = [e \in Event |-> IF e \in chosen THEN 0 ELSE claimAge[e]]
      BY Zenon, <2>1
    <3> HIDE DEF chosen
    <3>. QED
      BY <3>1 DEF TypeOK, Expired
  <2>5. batch' \in [Worker -> SUBSET queued]
    <3>1. batch' = [batch EXCEPT ![w] = chosen] /\ chosen \subseteq queued
      BY Zenon, <2>1, <2>2
    <3> HIDE DEF chosen
    <3>. QED
      BY Zenon, <3>1 DEF TypeOK
  <2>6. \A v \in Worker : outcome'[v] # Idle => outcome'[v][1] \in batch'[v]
    <3>1. outcome[w] = Idle
      BY Zenon, <1>2 DEF ClaimEvents, TypeOK
    <3>2. batch' = [batch EXCEPT ![w] = chosen] /\ outcome' = outcome
      BY Zenon, <2>1, <1>2 DEF ClaimEvents
    <3> HIDE DEF chosen
    <3>. QED
      BY Zenon, <3>1, <3>2 DEF TypeOK
  <2>7. lapsed' \subseteq queued
    BY Zenon, <2>1, <2>2 DEF TypeOK
  <2>. QED
    BY Zenon, <1>2, <2>3, <2>4, <2>5, <2>6, <2>7 DEF ClaimEvents, TypeOK
<1>3. ASSUME NEW w \in Worker, NEW e \in batch[w], NEW ok \in BOOLEAN,
             Dispatch(w, e, ok)
      PROVE  TypeOK'
  <2>1. e \in Event /\ e \in queued
    BY Zenon DEF TypeOK
  <2>2. outcome' \in [Worker -> (Event \X BOOLEAN) \union {Idle}]
    BY Zenon, <1>3, <2>1 DEF Dispatch, TypeOK
  <2>3. \A v \in Worker : outcome'[v] # Idle => outcome'[v][1] \in batch'[v]
    BY Zenon, <1>3 DEF Dispatch, TypeOK
  <2>4. runs' \in [Event -> Nat] /\ handled' \subseteq queued
    BY <1>3, <2>1 DEF Dispatch, TypeOK
  <2>. QED
    BY Zenon, <1>3, <2>2, <2>3, <2>4 DEF Dispatch, TypeOK, rowVars
<1>4. ASSUME NEW w \in Worker, NEW stored \in BOOLEAN, FinishEvent(w, stored)
      PROVE  TypeOK'
  <2> DEFINE e == outcome[w][1]
  <2>1. e \in batch[w] /\ e \in queued /\ e \in Event /\ outcome[w][2] \in BOOLEAN
    BY Zenon, <1>4 DEF FinishEvent, TypeOK
  <2>2. /\ published' \subseteq queued
        /\ claimAge' \in [Event -> (0..Expired) \union {NoClaim}]
    BY <1>4, <2>1 DEF FinishEvent, FinishRow, TypeOK
  <2>3. batch' \in [Worker -> SUBSET queued]
    BY Zenon, <1>4 DEF FinishEvent, TypeOK
  <2>4. /\ outcome' \in [Worker -> (Event \X BOOLEAN) \union {Idle}]
        /\ \A v \in Worker : outcome'[v] # Idle => outcome'[v][1] \in batch'[v]
    BY Zenon, <1>4 DEF FinishEvent, TypeOK
  <2>. QED
    BY Zenon, <1>4, <2>2, <2>3, <2>4 DEF FinishEvent, TypeOK
<1>5. ASSUME NEW w \in Worker, Crash(w) PROVE TypeOK'
  BY Zenon, <1>5 DEF Crash, TypeOK, rowVars
<1>6. ASSUME Tick PROVE TypeOK'
  BY <1>6 DEF Tick, TypeOK, Expired
<1>7. CASE UNCHANGED vars
  BY Zenon, <1>7 DEF vars, TypeOK
<1>. QED
  BY Zenon, <1>1, <1>2, <1>3, <1>4, <1>5, <1>6, <1>7
  DEF Next, DispatchSome, FinishSome

(* Every reachable state of the outbox is well typed.                      *)
THEOREM TypeCorrect == Spec => []TypeOK
BY InitTypeOK, NextTypeOK, PTL DEF Spec
-----------------------------------------------------------------------------
(* What each action does to the set of workers that owe a handler run.     *)
LEMMA PendingNotMore ==
    ASSUME TypeOK, NEW e, Pending(e)' \subseteq Pending(e),
           runs[e] + Cardinality(Pending(e)) <= attempts[e],
           runs[e] \in Nat, attempts[e] \in Nat,
           runs'[e] = runs[e], attempts'[e] = attempts[e]
    PROVE  runs'[e] + Cardinality(Pending(e)') <= attempts'[e]
<1>1. /\ Cardinality(Pending(e)') \in Nat
      /\ Cardinality(Pending(e)') <= Cardinality(Pending(e))
      /\ Cardinality(Pending(e)) \in Nat
  <2>1. Pending(e) \in SUBSET Worker
    BY Zenon DEF Pending
  <2>. QED
    BY Zenon, <2>1, CountSubset
<1>. QED
  BY <1>1

LEMMA InitOutboxInv == Init => OutboxInv
<1> SUFFICES ASSUME Init PROVE OutboxInv
  BY Zenon
<1>1. TypeOK
  BY Zenon, InitTypeOK
<1>2. \A e \in Event : runs[e] + Cardinality(Pending(e)) <= attempts[e]
  <2> TAKE e \in Event
  <2>1. Pending(e) = {}
    BY Zenon DEF Pending, Init
  <2>. QED
    BY <2>1, FS_EmptySet DEF Init
<1>. QED
  BY Zenon, <1>1, <1>2 DEF Init, OutboxInv, Holders

(* The inductive step, one case per action of outbox.rs.                   *)
LEMMA NextOutboxInv == OutboxInv /\ [Next]_vars => OutboxInv'
<1> SUFFICES ASSUME OutboxInv, [Next]_vars PROVE OutboxInv'
  BY Zenon
<1> DEFINE Exclusive == \A e \in Event \ lapsed : \A w \in Holders(e) :
                /\ claimAge[e] # NoClaim
                /\ \A v \in Holders(e) : v = w
           Published == \A e \in published : e \in handled /\ claimAge[e] = NoClaim
           Outcomes == \A w \in Worker :
                (outcome[w] # Idle /\ outcome[w][2]) => outcome[w][1] \in handled
           PaidFor(e) == runs[e] + Cardinality(Pending(e)) <= attempts[e]
<1>t. TypeOK /\ TypeOK'
  BY Zenon, NextTypeOK DEF OutboxInv
<1>x. Exclusive /\ Published /\ Outcomes /\ \A e \in Event : PaidFor(e)
  BY Zenon DEF OutboxInv
<1>n. \A e \in Event : runs[e] \in Nat /\ attempts[e] \in Nat
  BY <1>t DEF TypeOK
<1>c. NoClaim \notin 0..Expired
  BY NoClaimAssumption
<1>1. ASSUME NEW e \in Event, Enqueue(e) PROVE OutboxInv'
  <2>1. Exclusive' /\ Published' /\ Outcomes'
    BY Zenon, <1>1, <1>x DEF Enqueue, Holders
  <2>2. ASSUME NEW f \in Event PROVE PaidFor(f)'
    <3>1. Pending(f)' \subseteq Pending(f) /\ runs'[f] = runs[f] /\ attempts'[f] = attempts[f]
      BY Zenon, <1>1 DEF Enqueue, Pending
    <3>. QED
      BY Zenon, <3>1, <1>t, <1>x, <1>n, PendingNotMore
  <2>. QED
    BY Zenon, <2>1, <2>2, <1>t DEF OutboxInv
<1>2. ASSUME NEW w \in Worker, ClaimEvents(w) PROVE OutboxInv'
  <2>1. PICK skipped \in SUBSET LockedByOthers(w) : ClaimEvents(w)!2!(skipped)
    BY Zenon, <1>2 DEF ClaimEvents
  <2> DEFINE chosen == Oldest({e \in Event : Claimable(e)} \ skipped)
  <2>2. /\ \A e \in chosen : e \in Event /\ Claimable(e)
        /\ batch' = [batch EXCEPT ![w] = chosen]
        /\ attempts' = [e \in Event |-> IF e \in chosen THEN attempts[e] + 1 ELSE attempts[e]]
        /\ claimAge' = [e \in Event |-> IF e \in chosen THEN 0 ELSE claimAge[e]]
        /\ lapsed' = lapsed \union {e \in chosen : claimAge[e] = Expired}
    BY Zenon, <2>1, OldestSubset
  <2>3. /\ batch[w] = {} /\ outcome[w] = Idle
        /\ UNCHANGED <<queued, published, outcome, runs, handled>>
    BY Zenon, <1>2, <1>t DEF ClaimEvents, TypeOK
  <2> HIDE DEF chosen
  <2>4. Exclusive'
    <3> SUFFICES ASSUME NEW e \in Event, e \notin lapsed', NEW v \in Holders(e)'
                 PROVE  claimAge'[e] # NoClaim /\ \A u \in Holders(e)' : u = v
      BY Zenon
    <3>1. CASE e \in chosen
      <4>1. claimAge[e] = NoClaim /\ e \notin lapsed
        BY Zenon, <3>1, <2>2 DEF Claimable
      <4>2. Holders(e) = {}
        BY Zenon, <4>1, <1>x
      <4>3. Holders(e)' \subseteq {w}
        BY Zenon, <4>2, <2>2, <1>t DEF Holders, TypeOK
      <4>. QED
        BY <4>3, <3>1, <2>2, NoClaimAssumption
    <3>2. CASE e \notin chosen
      <4>1. Holders(e)' \subseteq Holders(e) /\ e \notin lapsed /\ claimAge'[e] = claimAge[e]
        BY Zenon, <3>2, <2>2, <1>t DEF Holders, TypeOK
      <4>. QED
        BY Zenon, <4>1, <1>x
    <3>. QED
      BY Zenon, <3>1, <3>2
  <2>5. Published'
    BY Zenon, <2>2, <2>3, <1>x, <1>t DEF Claimable, TypeOK
  <2>6. Outcomes'
    BY Zenon, <2>3, <1>x
  <2>7. ASSUME NEW e \in Event PROVE PaidFor(e)'
    <3>1. CASE e \in chosen
      <4>1. Pending(e)' \subseteq Pending(e) \union {w}
        BY Zenon, <3>1, <2>2, <2>3, <1>t DEF Pending, TypeOK
      <4>2. /\ Cardinality(Pending(e)') \in Nat
            /\ Cardinality(Pending(e)') <= Cardinality(Pending(e)) + 1
            /\ Cardinality(Pending(e)) \in Nat
        <5>1. Pending(e) \in SUBSET Worker
          BY Zenon DEF Pending
        <5>. QED
          BY Zenon, <4>1, <5>1, CountAdd
      <4>5. attempts'[e] = attempts[e] + 1 /\ runs'[e] = runs[e]
        BY Zenon, <3>1, <2>2, <2>3
      <4>6. PaidFor(e)
        BY Zenon, <1>x
      <4>. QED
        BY <4>2, <4>5, <4>6, <1>n
    <3>2. CASE e \notin chosen
      <4>1. Pending(e)' \subseteq Pending(e)
        BY Zenon, <3>2, <2>2, <2>3, <1>t DEF Pending, TypeOK
      <4>2. attempts'[e] = attempts[e] /\ runs'[e] = runs[e]
        BY Zenon, <3>2, <2>2, <2>3
      <4>. QED
        BY Zenon, <4>1, <4>2, <1>t, <1>x, <1>n, PendingNotMore
    <3>. QED
      BY Zenon, <3>1, <3>2
  <2>. QED
    BY Zenon, <2>4, <2>5, <2>6, <2>7, <1>t DEF OutboxInv
<1>3. ASSUME NEW w \in Worker, NEW e \in batch[w], NEW ok \in BOOLEAN,
             Dispatch(w, e, ok)
      PROVE  OutboxInv'
  <2>1. e \in Event
    BY Zenon, <1>t DEF TypeOK
  <2>2. Exclusive' /\ Published'
    BY Zenon, <1>3, <1>x DEF Dispatch, Holders, rowVars
  <2>3. Outcomes'
    BY Zenon, <1>3, <1>x, <1>t DEF Dispatch, TypeOK
  <2>4. ASSUME NEW f \in Event PROVE PaidFor(f)'
    <3>1. CASE f = e
      <4>1. Pending(e)' \subseteq Pending(e) \ {w} /\ w \in Pending(e)
        BY <1>3, <1>t, IdleAssumption DEF Dispatch, Pending, TypeOK
      <4>2. /\ Cardinality(Pending(e)') \in Nat
            /\ Cardinality(Pending(e)') <= Cardinality(Pending(e)) - 1
            /\ Cardinality(Pending(e)) \in Nat
        <5>1. Pending(e) \in SUBSET Worker
          BY Zenon DEF Pending
        <5>. QED
          BY Zenon, <4>1, <5>1, CountRemove
      <4>4. runs'[e] = runs[e] + 1 /\ attempts'[e] = attempts[e]
        BY Zenon, <1>3, <2>1, <1>t DEF Dispatch, TypeOK, rowVars
      <4>5. PaidFor(e)
        BY Zenon, <1>x, <2>1
      <4>. QED
        BY <3>1, <4>2, <4>4, <4>5, <1>n, <2>1
    <3>2. CASE f # e
      <4>1. Pending(f)' \subseteq Pending(f)
        BY Zenon, <3>2, <1>3, <1>t DEF Dispatch, Pending, TypeOK
      <4>2. runs'[f] = runs[f] /\ attempts'[f] = attempts[f]
        BY Zenon, <3>2, <1>3, <1>t DEF Dispatch, TypeOK, rowVars
      <4>. QED
        BY Zenon, <4>1, <4>2, <1>t, <1>x, <1>n, PendingNotMore
    <3>. QED
      BY Zenon, <3>1, <3>2
  <2>. QED
    BY Zenon, <2>2, <2>3, <2>4, <1>t DEF OutboxInv
<1>4. ASSUME NEW w \in Worker, NEW stored \in BOOLEAN, FinishEvent(w, stored)
      PROVE  OutboxInv'
  <2> DEFINE e == outcome[w][1]
  <2>1. e \in batch[w] /\ e \in Event /\ outcome[w] # Idle
    BY Zenon, <1>4, <1>t DEF FinishEvent, TypeOK
  <2>2. Exclusive'
    <3> SUFFICES ASSUME NEW f \in Event, f \notin lapsed', NEW v \in Holders(f)'
                 PROVE  claimAge'[f] # NoClaim /\ \A u \in Holders(f)' : u = v
      BY Zenon
    <3>1. Holders(f)' \subseteq Holders(f) /\ f \notin lapsed /\ lapsed' = lapsed
      BY Zenon, <1>4, <1>t DEF FinishEvent, Holders, TypeOK
    <3>2. CASE f = e
      <4>1. w \in Holders(f) /\ w \notin Holders(f)'
        BY Zenon, <3>2, <1>4, <2>1, <1>t DEF FinishEvent, Holders, TypeOK
      <4>. QED
        BY <3>1, <3>2, <4>1, <1>x
    <3>3. CASE f # e
      <4>1. claimAge'[f] = claimAge[f]
        BY <3>3, <1>4, <1>t DEF FinishEvent, FinishRow, TypeOK
      <4>. QED
        BY Zenon, <3>1, <4>1, <1>x
    <3>. QED
      BY Zenon, <3>2, <3>3
  <2>3. Published'
    BY <1>4, <2>1, <1>x, <1>t DEF FinishEvent, FinishRow, TypeOK
  <2>4. Outcomes'
    BY <1>4, <1>x, <1>t DEF FinishEvent, TypeOK
  <2>5. ASSUME NEW f \in Event PROVE PaidFor(f)'
    <3>1. Pending(f)' \subseteq Pending(f)
      BY Zenon, <1>4, <2>1, <1>t DEF FinishEvent, Pending, TypeOK
    <3>2. runs'[f] = runs[f] /\ attempts'[f] = attempts[f]
      BY Zenon, <1>4 DEF FinishEvent
    <3>. QED
      BY Zenon, <3>1, <3>2, <1>t, <1>x, <1>n, PendingNotMore
  <2>. QED
    BY Zenon, <2>2, <2>3, <2>4, <2>5, <1>t DEF OutboxInv
<1>5. ASSUME NEW w \in Worker, Crash(w) PROVE OutboxInv'
  <2>1. \A e \in Event : Holders(e)' \subseteq Holders(e)
    BY Zenon, <1>5, <1>t DEF Crash, Holders, TypeOK
  <2>2. Exclusive' /\ Published' /\ Outcomes'
    BY <2>1, <1>5, <1>x, <1>t DEF Crash, rowVars, TypeOK
  <2>3. ASSUME NEW f \in Event PROVE PaidFor(f)'
    <3>1. Pending(f)' \subseteq Pending(f)
      BY Zenon, <1>5, <1>t DEF Crash, Pending, TypeOK
    <3>2. runs'[f] = runs[f] /\ attempts'[f] = attempts[f]
      BY Zenon, <1>5 DEF Crash, rowVars
    <3>. QED
      BY Zenon, <3>1, <3>2, <1>t, <1>x, <1>n, PendingNotMore
  <2>. QED
    BY Zenon, <2>2, <2>3, <1>t DEF OutboxInv
<1>6. ASSUME Tick PROVE OutboxInv'
  <2>1. \A e \in Event : claimAge'[e] = NoClaim <=> claimAge[e] = NoClaim
    BY <1>6, <1>t, <1>c, BoundsAssumption, NoClaimAssumption
    DEF Tick, TypeOK, Expired
  <2>2. Exclusive' /\ Published' /\ Outcomes'
    BY Zenon, <2>1, <1>6, <1>x, <1>t DEF Tick, Holders, TypeOK
  <2>3. ASSUME NEW f \in Event PROVE PaidFor(f)'
    <3>1. Pending(f)' \subseteq Pending(f) /\ runs'[f] = runs[f] /\ attempts'[f] = attempts[f]
      BY Zenon, <1>6 DEF Tick, Pending
    <3>. QED
      BY Zenon, <3>1, <1>t, <1>x, <1>n, PendingNotMore
  <2>. QED
    BY Zenon, <2>2, <2>3, <1>t DEF OutboxInv
<1>7. CASE UNCHANGED vars
  <2>1. Exclusive' /\ Published' /\ Outcomes'
    BY Zenon, <1>7, <1>x DEF vars, Holders
  <2>2. ASSUME NEW f \in Event PROVE PaidFor(f)'
    <3>1. Pending(f)' \subseteq Pending(f) /\ runs'[f] = runs[f] /\ attempts'[f] = attempts[f]
      BY Zenon, <1>7 DEF vars, Pending
    <3>. QED
      BY Zenon, <3>1, <1>t, <1>x, <1>n, PendingNotMore
  <2>. QED
    BY Zenon, <2>1, <2>2, <1>t DEF OutboxInv
<1>. QED
  BY Zenon, <1>1, <1>2, <1>3, <1>4, <1>5, <1>6, <1>7
  DEF Next, DispatchSome, FinishSome

LEMMA OutboxInvariant == Spec => []OutboxInv
BY InitOutboxInv, NextOutboxInv, PTL DEF Spec
-----------------------------------------------------------------------------
(* Replicas never process one event together unless a claim on it was      *)
(* taken over after expiring (claim_events, finish_event).                 *)
THEOREM ClaimsAreExclusive == Spec => []ExclusiveUnlessLapsed
<1>1. OutboxInv => ExclusiveUnlessLapsed
  BY Zenon DEF OutboxInv, ExclusiveUnlessLapsed
<1>. QED
  BY <1>1, OutboxInvariant, PTL

(* No history of crashes, lost claims and failed acknowledgements makes    *)
(* the handler of one event run more than MaxAttempts times.               *)
THEOREM RunsAreBounded == Spec => []HandlerRunsBounded
<1>1. OutboxInv => HandlerRunsBounded
  <2> SUFFICES ASSUME OutboxInv, NEW e \in Event PROVE runs[e] <= MaxAttempts
    BY Zenon DEF HandlerRunsBounded
  <2>1. Pending(e) \in SUBSET Worker
    BY Zenon DEF Pending
  <2>2. Cardinality(Pending(e)) \in Nat
    BY Zenon, <2>1, CountSubset
  <2>3. runs[e] + Cardinality(Pending(e)) <= attempts[e]
    BY Zenon DEF OutboxInv
  <2>4. runs[e] \in Nat /\ attempts[e] \in 0..MaxAttempts
    BY Zenon DEF OutboxInv, TypeOK
  <2>. QED
    BY <2>2, <2>3, <2>4, BoundsAssumption
<1>. QED
  BY <1>1, OutboxInvariant, PTL

(* published_at is set only on events that some replica handled.           *)
THEOREM PublicationIsEarned == Spec => []PublishedWasHandled
<1>1. OutboxInv => PublishedWasHandled
  BY Zenon DEF OutboxInv, PublishedWasHandled
<1>. QED
  BY <1>1, OutboxInvariant, PTL

(* No late worker disturbs a published row.                                *)
THEOREM PublicationIsFinal == Spec => PublishedIsFinal
<1> DEFINE Kept == \A e \in published :
                /\ e \in published'
                /\ claimAge'[e] = claimAge[e]
                /\ attempts'[e] = attempts[e]
<1>1. OutboxInv /\ [Next]_vars => [Kept]_vars
  <2> SUFFICES ASSUME OutboxInv, Next, NEW e \in published
               PROVE  /\ e \in published'
                      /\ claimAge'[e] = claimAge[e]
                      /\ attempts'[e] = attempts[e]
    BY Zenon
  <2>t. TypeOK /\ e \in Event /\ claimAge[e] = NoClaim
    BY Zenon DEF OutboxInv, TypeOK
  <2>1. ASSUME NEW f \in Event, Enqueue(f) PROVE Kept
    BY Zenon, <2>1 DEF Enqueue
  <2>2. ASSUME NEW w \in Worker, ClaimEvents(w)
        PROVE  /\ e \in published'
               /\ claimAge'[e] = claimAge[e]
               /\ attempts'[e] = attempts[e]
    <3>1. PICK skipped \in SUBSET LockedByOthers(w) : ClaimEvents(w)!2!(skipped)
      BY Zenon, <2>2 DEF ClaimEvents
    <3> DEFINE chosen == Oldest({f \in Event : Claimable(f)} \ skipped)
    <3>2. e \notin chosen
      BY Zenon, OldestSubset DEF Claimable
    <3>3. /\ attempts' = [f \in Event |-> IF f \in chosen THEN attempts[f] + 1 ELSE attempts[f]]
          /\ claimAge' = [f \in Event |-> IF f \in chosen THEN 0 ELSE claimAge[f]]
      BY Zenon, <3>1
    <3> HIDE DEF chosen
    <3>. QED
      BY Zenon, <3>2, <3>3, <2>t, <2>2 DEF ClaimEvents
  <2>3. ASSUME NEW w \in Worker, DispatchSome(w) PROVE Kept
    BY Zenon, <2>3 DEF DispatchSome, Dispatch, rowVars
  <2>4. ASSUME NEW w \in Worker, FinishSome(w)
        PROVE  /\ e \in published'
               /\ claimAge'[e] = claimAge[e]
               /\ attempts'[e] = attempts[e]
    BY <2>4, <2>t DEF FinishSome, FinishEvent, FinishRow, TypeOK
  <2>5. ASSUME NEW w \in Worker, Crash(w) PROVE Kept
    BY Zenon, <2>5 DEF Crash, rowVars
  <2>6. ASSUME Tick
        PROVE  /\ e \in published'
               /\ claimAge'[e] = claimAge[e]
               /\ attempts'[e] = attempts[e]
    BY Zenon, <2>6, <2>t DEF Tick
  <2>. QED
    BY Zenon, <2>1, <2>2, <2>3, <2>4, <2>5, <2>6 DEF Next
<1>. QED
  BY <1>1, OutboxInvariant, PTL DEF Spec, PublishedIsFinal
-----------------------------------------------------------------------------
(* Initially no row exists and the abstract queue is empty.                *)
LEMMA InitRefines == Init => Queue!QueueInit
BY Zenon DEF Init, Queue!QueueInit

(* Every step of the outbox is a put, a handler run, a completion or       *)
(* invisible to the abstract queue.                                        *)
LEMMA NextRefines ==
    OutboxInv /\ OutboxInv' /\ [Next]_vars => [Queue!QueueNext]_(Queue!queueVars)
<1> SUFFICES ASSUME OutboxInv, OutboxInv', [Next]_vars
             PROVE  [Queue!QueueNext]_(Queue!queueVars)
  BY Zenon
<1>t. TypeOK /\ TypeOK'
  BY Zenon DEF OutboxInv
<1>r. \A e \in Event : runs'[e] <= MaxAttempts
  <2> TAKE e \in Event
  <2>1. Pending(e)' \in SUBSET Worker
    BY Zenon DEF Pending
  <2>2. Cardinality(Pending(e)') \in Nat
    BY Zenon, <2>1, CountSubset
  <2>3. runs'[e] + Cardinality(Pending(e)') <= attempts'[e]
    BY Zenon DEF OutboxInv
  <2>4. runs'[e] \in Nat /\ attempts'[e] \in 0..MaxAttempts
    BY Zenon, <1>t DEF TypeOK
  <2>. QED
    BY <2>2, <2>3, <2>4, BoundsAssumption
<1>1. ASSUME NEW e \in Event, Enqueue(e) PROVE Queue!Put(e)
  <2>1. e \notin published
    BY Zenon, <1>1, <1>t DEF Enqueue, TypeOK
  <2>. QED
    BY Zenon, <1>1, <2>1 DEF Enqueue, Queue!Put
<1>2. ASSUME NEW w \in Worker, ClaimEvents(w) PROVE UNCHANGED Queue!queueVars
  BY Zenon, <1>2 DEF ClaimEvents, Queue!queueVars
<1>3. ASSUME NEW w \in Worker, NEW e \in batch[w], NEW ok \in BOOLEAN,
             Dispatch(w, e, ok)
      PROVE  e \in Event /\ (Queue!Try(e, TRUE) \/ Queue!Try(e, FALSE))
  <2>1. e \in Event /\ e \in queued
    BY Zenon, <1>t DEF TypeOK
  <2>2. runs'[e] = runs[e] + 1 /\ runs[e] \in Nat
    BY Zenon, <1>3, <2>1, <1>t DEF Dispatch, TypeOK
  <2>3. runs[e] < MaxAttempts
    BY <2>1, <2>2, <1>r, BoundsAssumption
  <2>4. Queue!Try(e, ok)
    BY Zenon, <1>3, <2>1, <2>3 DEF Dispatch, Queue!Try, rowVars
  <2>. QED
    BY Zenon, <2>1, <2>4
<1>4. ASSUME NEW w \in Worker, NEW stored \in BOOLEAN, FinishEvent(w, stored)
      PROVE  [Queue!QueueNext]_(Queue!queueVars)
  <2>1. PICK e \in Event : /\ e = outcome[w][1] /\ e \in queued
                           /\ outcome[w] # Idle /\ outcome[w][2] \in BOOLEAN
    BY <1>4, <1>t DEF FinishEvent, TypeOK
  <2>2. CASE stored /\ e \notin published /\ outcome[w][2]
    <3>1. e \in handled
      BY Zenon, <2>1, <2>2 DEF OutboxInv
    <3>2. published' = published \union {e} /\ UNCHANGED <<queued, handled, runs>>
      BY Zenon, <1>4, <2>1, <2>2 DEF FinishEvent, FinishRow
    <3>3. Queue!Complete(e)
      BY Zenon, <2>1, <2>2, <3>1, <3>2 DEF Queue!Complete
    <3>. QED
      BY Zenon, <3>3 DEF Queue!QueueNext
  <2>3. CASE ~(stored /\ e \notin published /\ outcome[w][2])
    BY Zenon, <1>4, <2>1, <2>3 DEF FinishEvent, FinishRow, Queue!queueVars
  <2>. QED
    BY Zenon, <2>2, <2>3
<1>5. ASSUME NEW w \in Worker, Crash(w) PROVE UNCHANGED Queue!queueVars
  BY Zenon, <1>5 DEF Crash, rowVars, Queue!queueVars
<1>6. ASSUME Tick PROVE UNCHANGED Queue!queueVars
  BY Zenon, <1>6 DEF Tick, Queue!queueVars
<1>7. CASE UNCHANGED vars
  BY Zenon, <1>7 DEF vars, Queue!queueVars
<1>. QED
  BY Zenon, <1>1, <1>2, <1>3, <1>4, <1>5, <1>6, <1>7
     DEF Next, DispatchSome, FinishSome, Queue!QueueNext

(* The outbox with its claims, crashes and races implements the durable    *)
(* queue contract that the request handlers rely on.                       *)
THEOREM OutboxImplementsQueue == Spec => ImplementsDurableQueue
BY InitRefines, NextRefines, OutboxInvariant, PTL
   DEF Spec, ImplementsDurableQueue, Queue!QueueSpec
=============================================================================
