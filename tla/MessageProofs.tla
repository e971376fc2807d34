--------------------------- MODULE MessageProofs ----------------------------
(***************************************************************************)
(* Proofs about a message on its way to its recipients: its sending and    *)
(* its notifications, the deliveries, and the files attached to it.        *)
(***************************************************************************)
EXTENDS Messaging, Files, FiniteSetTheorems, TLAPS
-----------------------------------------------------------------------------
(* Deliveries, for any number of rows, tasks and replicas and any claim    *)
(* timeout.  As long as no claim on a row has expired and no call for it   *)
(* took effect unheard, the row has at most one task, and it has none when *)
(* it may be claimed.                                                      *)

Tasks == [job : Job, n : 0..MaxShift, at : {"deliver", "ok", "err"}]
Holds(t, j) == task[t] # Free /\ task[t].job = j

(* What was accepted is recorded as sent or still claimed by the one task  *)
(* that is about to record it, or that died.                               *)
ClaimInv ==
    \A j \in Job \ unsure :
        /\ claimAge[j] = NoClaim => \A t \in Task : ~Holds(t, j)
        /\ \A t, u \in Task : Holds(t, j) /\ Holds(u, j) => t = u
        /\ accepted[j] # 0 =>
            /\ accepted[j] = 1
            /\ j \in sent \/ claimAge[j] # NoClaim
            /\ \A t \in Task : Holds(t, j) => task[t].at = "ok"

DeliveryInv == DeliveryTypeOK /\ ClaimInv

(* 2^n is the number of subsets of n elements, hence a natural number.     *)
LEMMA RetryDelayType == \A n \in 0..MaxShift : RetryDelay(n) \in 0..MaxDelay
<1> SUFFICES ASSUME NEW n \in 0..MaxShift PROVE RetryDelay(n) \in 0..MaxDelay
    OBVIOUS
<1>1. n \in Nat /\ MaxDelay \in Nat BY DeliveryAssumption
<1>2. IsFiniteSet(1..n) /\ Cardinality(1..n) = n BY <1>1, FS_Interval
<1>3. Cardinality(SUBSET (1..n)) = 2^n BY Zenon, <1>2, FS_SUBSET
<1>4. Cardinality(SUBSET (1..n)) \in Nat BY Zenon, <1>2, FS_SUBSET, FS_CardinalityType
<1>5. 2^n \in Nat BY <1>3, <1>4
<1>6. QED BY <1>1, <1>5 DEF RetryDelay

LEMMA DeliveryInitInv == DeliveryInit => DeliveryInv
<1> SUFFICES ASSUME DeliveryInit PROVE DeliveryInv
    OBVIOUS
<1>1. DeliveryTypeOK BY DeliveryAssumption DEF DeliveryInit, DeliveryTypeOK, Expired
<1>2. ClaimInv BY Zenon DEF DeliveryInit, ClaimInv, Holds
<1>3. QED BY <1>1, <1>2 DEF DeliveryInv

(* The claim of a row: nobody holds it unless its claim had expired.       *)
LEMMA ClaimJobInv ==
    ASSUME DeliveryInv, NEW t \in Task, NEW j \in Job, ClaimJob(t, j)
    PROVE  DeliveryInv'
<1> DEFINE n == IF attempts[j] < MaxShift THEN attempts[j] + 1 ELSE MaxShift
           e == [job |-> j, n |-> n, at |-> "deliver"]
<1>1. /\ task[t] = Free /\ j \in waiting /\ claimAge[j] \in {NoClaim, Expired}
      /\ attempts' = [attempts EXCEPT ![j] = n]
      /\ task' = [task EXCEPT ![t] = e]
      /\ claimAge' = [claimAge EXCEPT ![j] = 0]
      /\ unsure' = IF claimAge[j] = Expired THEN unsure \union {j} ELSE unsure
      /\ UNCHANGED <<waiting, sent, wait, accepted>>
    BY DEF ClaimJob, Claimable
<1>2. n \in 0..MaxShift BY DeliveryAssumption DEF DeliveryInv, DeliveryTypeOK
<1>3. e \in Tasks /\ e # Free BY <1>2, DeliveryAssumption DEF Tasks
<1>4. e.job = j /\ e.at = "deliver" OBVIOUS
<1>5. 0 \in 0..Expired /\ 0 # NoClaim BY DeliveryAssumption DEF Expired
<1> HIDE DEF n, e
<1>6. DeliveryTypeOK'
    BY <1>1, <1>2, <1>3, <1>5 DEF DeliveryInv, DeliveryTypeOK, Tasks
<1>7. ASSUME NEW i \in Job \ unsure', NEW u \in Task
      PROVE  /\ i \notin unsure
             /\ i = j => claimAge[j] = NoClaim
             /\ i # j => claimAge'[i] = claimAge[i] /\ (Holds(u, i)' <=> Holds(u, i))
             /\ i # j /\ Holds(u, i) => task'[u] = task[u]
             /\ i = j => (Holds(u, i)' <=> u = t)
  <2>1. i \notin unsure /\ (i = j => claimAge[j] = NoClaim) BY <1>1
  <2>2. CASE u = t
      BY <1>1, <1>3, <1>4, <2>1, <2>2 DEF Holds, DeliveryInv, DeliveryTypeOK
  <2>3. CASE u # t
    <3>1. task'[u] = task[u] BY <1>1, <2>3 DEF DeliveryInv, DeliveryTypeOK
    <3>2. i = j => ~Holds(u, i) BY <2>1 DEF DeliveryInv, ClaimInv
    <3>3. i # j => claimAge'[i] = claimAge[i]
        BY <1>1 DEF DeliveryInv, DeliveryTypeOK
    <3>4. QED BY <2>1, <2>3, <3>1, <3>2, <3>3 DEF Holds
  <2>4. QED BY <2>2, <2>3
<1>8. accepted[j] # 0 => j \in unsure'
    BY <1>1 DEF DeliveryInv, DeliveryTypeOK, ClaimInv
<1>9. ClaimInv'
  <2> SUFFICES ASSUME NEW i \in Job \ unsure'
               PROVE  /\ claimAge'[i] = NoClaim => \A u \in Task : ~Holds(u, i)'
                      /\ \A u, v \in Task : Holds(u, i)' /\ Holds(v, i)' => u = v
                      /\ accepted'[i] # 0 =>
                            /\ accepted'[i] = 1
                            /\ i \in sent' \/ claimAge'[i] # NoClaim
                            /\ \A u \in Task : Holds(u, i)' => task'[u].at = "ok"
      BY DEF ClaimInv
  <2>1. CASE i = j
    <3>1. claimAge'[i] # NoClaim
        BY <1>1, <1>5, <2>1 DEF DeliveryInv, DeliveryTypeOK
    <3>2. QED BY <1>1, <1>7, <1>8, <2>1, <3>1
  <2>2. CASE i # j BY <1>1, <1>7, <2>2 DEF DeliveryInv, ClaimInv
  <2>3. QED BY <2>1, <2>2
<1>10. QED BY <1>6, <1>9 DEF DeliveryInv

(* The sink's answer is counted while the one task holds the row.          *)
LEMMA DeliverInv ==
    ASSUME DeliveryInv, NEW t \in Task, NEW o \in Outcome, Deliver(t, o)
    PROVE  DeliveryInv'
<1> DEFINE j == task[t].job
           a == IF o = "ok" THEN "ok" ELSE "err"
           b == IF o # "failed" /\ accepted[j] < 2
                THEN accepted[j] + 1 ELSE accepted[j]
<1>1. /\ task[t] # Free /\ task[t].at = "deliver"
      /\ task' = [task EXCEPT ![t].at = a]
      /\ accepted' = [accepted EXCEPT ![j] = b]
      /\ unsure' = IF o = "lost" THEN unsure \union {j} ELSE unsure
      /\ UNCHANGED <<waiting, sent, attempts, wait, claimAge>>
    BY DEF Deliver, queue
<1>2. task[t] \in Tasks /\ j \in Job
    BY <1>1 DEF DeliveryInv, DeliveryTypeOK, Tasks
<1>3. b \in 0..2 BY <1>2 DEF DeliveryInv, DeliveryTypeOK
<1>4. [task[t] EXCEPT !.at = a] \in Tasks BY <1>2 DEF Tasks
<1>5. [task[t] EXCEPT !.at = a] # Free BY <1>4, DeliveryAssumption DEF Tasks
<1>6. /\ task'[t] = [task[t] EXCEPT !.at = a]
      /\ \A u \in Task : u # t => task'[u] = task[u]
    BY <1>1 DEF DeliveryInv, DeliveryTypeOK
<1>7. task'[t].job = j /\ task'[t].at = a BY <1>2, <1>6 DEF Tasks
<1>8. DeliveryTypeOK'
    BY <1>1, <1>2, <1>3, <1>4 DEF DeliveryInv, DeliveryTypeOK, Tasks
<1>9. \A u \in Task, i \in Job : Holds(u, i)' <=> Holds(u, i)
    BY <1>1, <1>5, <1>6, <1>7 DEF Holds
<1>10. Holds(t, j) BY <1>1 DEF Holds
<1>11. \A i \in Job : i # j => accepted'[i] = accepted[i]
    BY <1>1 DEF DeliveryInv, DeliveryTypeOK
<1>12. accepted'[j] = b BY <1>1, <1>2 DEF DeliveryInv, DeliveryTypeOK
<1>13. j \notin unsure => accepted[j] = 0 /\ claimAge[j] # NoClaim
    BY <1>1, <1>2, <1>10 DEF DeliveryInv, ClaimInv
<1>14. j \notin unsure' /\ accepted'[j] # 0 => accepted'[j] = 1 /\ a = "ok"
    BY <1>1, <1>12, <1>13 DEF Outcome
<1> HIDE DEF j, a, b
<1>15. ClaimInv'
  <2> SUFFICES ASSUME NEW i \in Job \ unsure'
               PROVE  /\ claimAge[i] = NoClaim => \A u \in Task : ~Holds(u, i)
                      /\ \A u, v \in Task : Holds(u, i) /\ Holds(v, i) => u = v
                      /\ accepted'[i] # 0 =>
                            /\ accepted'[i] = 1
                            /\ i \in sent \/ claimAge[i] # NoClaim
                            /\ \A u \in Task : Holds(u, i) => task'[u].at = "ok"
      BY <1>1, <1>9 DEF ClaimInv
  <2>0. i \in Job \ unsure BY <1>1
  <2>1. CASE i = j
    <3>1. \A u \in Task : Holds(u, i) => u = t
        BY <1>10, <2>0, <2>1 DEF DeliveryInv, ClaimInv
    <3>2. QED BY <1>7, <1>13, <1>14, <2>0, <2>1, <3>1 DEF DeliveryInv, ClaimInv
  <2>2. CASE i # j
    <3>1. \A u \in Task : Holds(u, i) => u # t BY <2>2 DEF Holds, j
    <3>2. QED BY <1>6, <1>11, <2>0, <2>2, <3>1 DEF DeliveryInv, ClaimInv
  <2>3. QED BY <2>1, <2>2
<1>16. QED BY <1>8, <1>15 DEF DeliveryInv

(* A task that ends leaves the other tasks, and gives the claim back only  *)
(* as their only holder.                                                   *)
LEMMA FreedTask ==
    ASSUME DeliveryInv, NEW t \in Task, task' = [task EXCEPT ![t] = Free]
    PROVE  /\ task' \in [Task -> Tasks \union {Free}]
           /\ \A u \in Task, i \in Job : Holds(u, i)' => Holds(u, i) /\ u # t
           /\ \A u \in Task, i \in Job : Holds(u, i)' => task'[u] = task[u]
<1>1. /\ task'[t] = Free
      /\ \A u \in Task : u # t => task'[u] = task[u]
    BY DEF DeliveryInv, DeliveryTypeOK
<1>2. task' \in [Task -> Tasks \union {Free}]
    BY DEF DeliveryInv, DeliveryTypeOK, Tasks
<1>3. QED BY <1>1, <1>2 DEF Holds

LEMMA FinishTaskInv ==
    ASSUME DeliveryInv, NEW t \in Task, NEW stored \in BOOLEAN, FinishTask(t, stored)
    PROVE  DeliveryInv'
<1> DEFINE ok == task[t].at = "ok"
<1>1. /\ task[t] # Free /\ task[t].at # "deliver"
      /\ task' = [task EXCEPT ![t] = Free]
      /\ UNCHANGED <<attempts, accepted, unsure>>
    BY DEF FinishTask
<1>2. task[t] \in Tasks BY <1>1 DEF DeliveryInv, DeliveryTypeOK, Tasks
<1>3. PICK j \in Job : j = task[t].job BY <1>2 DEF Tasks
<1>4. RetryDelay(task[t].n) \in 0..MaxDelay BY <1>2, RetryDelayType DEF Tasks
<1>5. /\ task' \in [Task -> Tasks \union {Free}]
      /\ \A u \in Task, i \in Job : Holds(u, i)' => Holds(u, i) /\ u # t
      /\ \A u \in Task, i \in Job : Holds(u, i)' => task'[u] = task[u]
    BY Zenon, <1>1, FreedTask
<1>6. Holds(t, j) BY <1>1, <1>3 DEF Holds
<1>7. CASE ~stored \/ j \in sent
  <2>1. UNCHANGED <<waiting, sent, wait, claimAge>>
      BY <1>3, <1>7 DEF FinishTask, RecordResult
  <2>2. DeliveryTypeOK' BY <1>1, <1>5, <2>1 DEF DeliveryInv, DeliveryTypeOK, Tasks
  <2>3. ClaimInv' BY <1>1, <1>5, <2>1 DEF DeliveryInv, ClaimInv
  <2>4. QED BY <2>2, <2>3 DEF DeliveryInv
<1>8. CASE stored /\ j \notin sent
  <2>1. /\ waiting' = IF ok THEN waiting \ {j} ELSE waiting
        /\ sent' = IF ok THEN sent \union {j} ELSE sent
        /\ wait' = IF ok THEN wait ELSE [wait EXCEPT ![j] = RetryDelay(task[t].n)]
        /\ claimAge' = [claimAge EXCEPT ![j] = NoClaim]
      BY <1>3, <1>8 DEF FinishTask, RecordResult
  <2>2. DeliveryTypeOK'
      BY <1>1, <1>4, <1>5, <2>1 DEF DeliveryInv, DeliveryTypeOK, Tasks
  <2>3. \A i \in Job : i # j => claimAge'[i] = claimAge[i]
      BY <2>1 DEF DeliveryInv, DeliveryTypeOK
  <2>4. j \notin unsure => /\ \A u \in Task : ~Holds(u, j)'
                           /\ accepted[j] # 0 => accepted[j] = 1 /\ ok
    <3>1. j \notin unsure => \A u \in Task : Holds(u, j) => u = t
        BY <1>6 DEF DeliveryInv, ClaimInv
    <3>2. j \notin unsure /\ accepted[j] # 0 => accepted[j] = 1 /\ ok
        BY <1>6 DEF DeliveryInv, ClaimInv
    <3>3. QED BY <1>5, <3>1, <3>2
  <2>5. \A i \in Job : i \in sent => i \in sent' BY <2>1
  <2>6. ok => j \in sent' BY <2>1
  <2> HIDE DEF ok
  <2>7. ClaimInv'
    <3> SUFFICES ASSUME NEW i \in Job \ unsure
                 PROVE  /\ claimAge'[i] = NoClaim => \A u \in Task : ~Holds(u, i)'
                        /\ \A u, v \in Task : Holds(u, i)' /\ Holds(v, i)' => u = v
                        /\ accepted[i] # 0 =>
                              /\ accepted[i] = 1
                              /\ i \in sent' \/ claimAge'[i] # NoClaim
                              /\ \A u \in Task : Holds(u, i)' => task'[u].at = "ok"
        BY <1>1 DEF ClaimInv
    <3>1. CASE i = j BY <2>4, <2>6, <3>1
    <3>2. CASE i # j BY <1>5, <2>3, <2>5, <3>2 DEF DeliveryInv, ClaimInv
    <3>3. QED BY <3>1, <3>2
  <2>8. QED BY <2>2, <2>7 DEF DeliveryInv
<1>9. QED BY <1>7, <1>8

LEMMA LoseTaskInv ==
    ASSUME DeliveryInv, NEW t \in Task, LoseTask(t)
    PROVE  DeliveryInv'
<1>1. /\ task' = [task EXCEPT ![t] = Free]
      /\ UNCHANGED <<waiting, sent, attempts, wait, claimAge, accepted, unsure>>
    BY DEF LoseTask, queue
<1>2. /\ task' \in [Task -> Tasks \union {Free}]
      /\ \A u \in Task, i \in Job : Holds(u, i)' => Holds(u, i) /\ u # t
      /\ \A u \in Task, i \in Job : Holds(u, i)' => task'[u] = task[u]
    BY Zenon, <1>1, FreedTask
<1>3. DeliveryTypeOK' BY <1>1, <1>2 DEF DeliveryInv, DeliveryTypeOK, Tasks
<1>4. ClaimInv' BY <1>1, <1>2 DEF DeliveryInv, ClaimInv
<1>5. QED BY <1>3, <1>4 DEF DeliveryInv

(* A claim ages but does not go away.                                      *)
LEMMA TickInv == DeliveryInv /\ Tick => DeliveryInv'
<1> SUFFICES ASSUME DeliveryInv, Tick PROVE DeliveryInv'
    OBVIOUS
<1>1. ClaimTimeout \in Nat /\ MaxDelay \in Nat /\ NoClaim \notin Int
    BY DeliveryAssumption
<1>2. /\ wait' = [j \in Job |-> IF wait[j] > 0 THEN wait[j] - 1 ELSE 0]
      /\ claimAge' = [j \in Job |-> IF claimAge[j] \in {NoClaim, Expired}
                                    THEN claimAge[j] ELSE claimAge[j] + 1]
      /\ UNCHANGED <<waiting, sent, attempts, task, accepted, unsure>>
    BY DEF Tick
<1>3. \A j \in Job : wait'[j] \in 0..MaxDelay
    BY <1>1, <1>2 DEF DeliveryInv, DeliveryTypeOK
<1>4. \A j \in Job : /\ claimAge'[j] \in (0..Expired) \union {NoClaim}
                     /\ claimAge'[j] = NoClaim <=> claimAge[j] = NoClaim
  <2> SUFFICES ASSUME NEW j \in Job
               PROVE  /\ claimAge'[j] \in (0..Expired) \union {NoClaim}
                      /\ claimAge'[j] = NoClaim <=> claimAge[j] = NoClaim
      OBVIOUS
  <2>1. CASE claimAge[j] \in {NoClaim, Expired}
      BY <1>2, <2>1 DEF DeliveryInv, DeliveryTypeOK
  <2>2. CASE claimAge[j] \notin {NoClaim, Expired}
    <3>1. claimAge'[j] = claimAge[j] + 1 BY <1>2, <2>2
    <3>2. claimAge[j] \in 0..Expired /\ claimAge[j] # Expired
        BY <2>2 DEF DeliveryInv, DeliveryTypeOK
    <3>3. QED BY <1>1, <2>2, <3>1, <3>2 DEF Expired
  <2>3. QED BY <2>1, <2>2
<1>5. DeliveryTypeOK'
    BY <1>2, <1>3, <1>4 DEF DeliveryInv, DeliveryTypeOK
<1>6. ClaimInv'
  <2>1. \A t \in Task, j \in Job : Holds(t, j)' <=> Holds(t, j) BY <1>2 DEF Holds
  <2>2. QED BY <1>2, <1>4, <2>1 DEF DeliveryInv, ClaimInv
<1>7. QED BY <1>5, <1>6 DEF DeliveryInv

(* New rows are unclaimed, and a sent row is not added again.              *)
LEMMA AddDeliveriesInv ==
    ASSUME DeliveryInv, NEW J \in SUBSET Job, AddDeliveries(J)
    PROVE  DeliveryInv'
<1>1. /\ waiting' = waiting \union (J \ sent)
      /\ UNCHANGED <<sent, attempts, wait, claimAge, task, accepted, unsure>>
    BY DEF AddDeliveries
<1>2. DeliveryTypeOK' BY <1>1 DEF DeliveryInv, DeliveryTypeOK
<1>3. ClaimInv' BY <1>1 DEF DeliveryInv, ClaimInv, Holds
<1>4. QED BY <1>2, <1>3 DEF DeliveryInv

(* Every step of the delivery loops and of their tasks keeps the invariant.*)
LEMMA DeliveryNextInv == DeliveryInv /\ DeliveryNext => DeliveryInv'
    BY Zenon, ClaimJobInv, DeliverInv, FinishTaskInv, LoseTaskInv, TickInv
    DEF DeliveryNext, DeliverySome

LEMMA DeliveryStutters == DeliveryInv /\ UNCHANGED deliveryVars => DeliveryInv'
<1> SUFFICES ASSUME DeliveryInv, UNCHANGED deliveryVars PROVE DeliveryInv'
    OBVIOUS
<1>1. UNCHANGED <<waiting, sent, attempts, wait, claimAge, task, accepted, unsure>>
    BY DEF deliveryVars
<1>2. DeliveryTypeOK' BY <1>1 DEF DeliveryInv, DeliveryTypeOK, Expired
<1>3. ClaimInv' BY <1>1 DEF DeliveryInv, ClaimInv, Holds
<1>4. QED BY <1>2, <1>3 DEF DeliveryInv

(* Only a claim counts an attempt, and it takes a row that is not sent;    *)
(* only the recording of a result touches the sent rows, and adds to them. *)
LEMMA SentStays ==
    DeliveryInv /\ DeliveryNext
        => \A j \in sent : j \in sent' /\ attempts'[j] = attempts[j]
<1> SUFFICES ASSUME DeliveryInv, DeliveryNext, NEW j \in sent
             PROVE  j \in sent' /\ attempts'[j] = attempts[j]
    OBVIOUS
<1>1. j \in Job /\ j \notin waiting BY DEF DeliveryInv, DeliveryTypeOK
<1>2. ASSUME NEW t \in Task, NEW i \in Job, ClaimJob(t, i)
      PROVE  j \in sent' /\ attempts'[j] = attempts[j]
    BY <1>1, <1>2 DEF ClaimJob, Claimable, DeliveryInv, DeliveryTypeOK
<1>3. ASSUME NEW t \in Task, NEW o \in Outcome, Deliver(t, o)
      PROVE  j \in sent' /\ attempts'[j] = attempts[j]
    BY <1>3 DEF Deliver, queue
<1>4. ASSUME NEW t \in Task, NEW stored \in BOOLEAN, FinishTask(t, stored)
      PROVE  j \in sent' /\ attempts'[j] = attempts[j]
    BY <1>4 DEF FinishTask, RecordResult
<1>5. ASSUME NEW t \in Task, LoseTask(t)
      PROVE  j \in sent' /\ attempts'[j] = attempts[j]
    BY <1>5 DEF LoseTask, queue
<1>6. CASE Tick BY <1>6 DEF Tick
<1>7. QED BY Zenon, <1>2, <1>3, <1>4, <1>5, <1>6 DEF DeliveryNext, DeliverySome
-----------------------------------------------------------------------------
(* A row that has been added is kept, waiting or sent.                     *)
LEMMA AddedRowsStay ==
    ASSUME DeliveryInv,
           \/ UNCHANGED deliveryVars \/ DeliveryNext
           \/ \E J \in SUBSET Job : AddDeliveries(J)
    PROVE  waiting \union sent \subseteq waiting' \union sent'
<1>1. CASE UNCHANGED deliveryVars BY <1>1 DEF deliveryVars
<1>2. CASE \E J \in SUBSET Job : AddDeliveries(J) BY <1>2 DEF AddDeliveries
<1>3. ASSUME NEW t \in Task, NEW stored \in BOOLEAN, FinishTask(t, stored)
      PROVE  waiting \union sent \subseteq waiting' \union sent'
    BY <1>3 DEF FinishTask, RecordResult
<1>4. ASSUME NEW t \in Task,
             \/ LoseTask(t)
             \/ \E o \in Outcome : Deliver(t, o)
             \/ \E j \in Job : ClaimJob(t, j)
      PROVE  waiting \union sent \subseteq waiting' \union sent'
    BY <1>4 DEF LoseTask, Deliver, ClaimJob, queue
<1>5. CASE Tick BY <1>5 DEF Tick
<1>6. QED BY Zenon, <1>1, <1>2, <1>3, <1>4, <1>5 DEF DeliveryNext, DeliverySome
-----------------------------------------------------------------------------
(* The sending of a message, for any number of connections, sessions and   *)
(* recipients.                                                             *)

HasRow == {"notify", "queue", "broadcast", "reconcile", "answer"}
Done == {"broadcast", "answer"}
Handlers == [at : Labels, own : Session]
Notified(s) == \/ JobsOf(s) \subseteq waiting \union sent
               \/ retry[s] \in {"queued", "lost"}

(* A handler past its save, like a browser that saw the event, knows of    *)
(* the one row of its session; once past the notifications, it knows that  *)
(* they exist or that their creation was queued.                           *)
SendInv ==
    /\ \A s \in Session : rows[s] \in {0, 1}
    /\ \A r \in Req :
        /\ handler[r].at \in HasRow => rows[handler[r].own] = 1
        /\ handler[r].at \in Done => Notified(handler[r].own)
    /\ \A s \in seen : rows[s] = 1 /\ Notified(s)

MessagingInv == DeliveryInv /\ SendTypeOK /\ SendInv

LEMMA MessagingInitInv == Init => MessagingInv
<1> SUFFICES ASSUME Init PROVE MessagingInv
    OBVIOUS
<1>1. DeliveryInv BY DeliveryInitInv DEF Init
<1>2. 1 \in Session BY MessagingAssumption DEF Session
<1>3. Idle \in Handlers BY <1>2 DEF Idle, Handlers, Labels
<1>4. SendTypeOK BY <1>2, <1>3 DEF Init, SendTypeOK, Handlers
<1>5. \A r \in Req : handler[r].at = "idle" BY DEF Init, Idle
<1>6. \A r \in Req : handler[r].at \notin HasRow \union Done
    BY <1>5 DEF HasRow, Done
<1>7. SendInv BY <1>6 DEF SendInv, Init
<1>8. QED BY <1>1, <1>4, <1>7 DEF MessagingInv

LEMMA JobsOfType == \A s \in Session : JobsOf(s) \in SUBSET Job
    BY MessagingAssumption DEF JobsOf, Session

(* A step on the sender's side leaves the deliveries alone or adds rows.   *)
LEMMA DeliverySteps ==
    ASSUME SendTypeOK, [Next]_vars
    PROVE  \/ UNCHANGED deliveryVars \/ DeliveryNext
           \/ \E J \in SUBSET Job : AddDeliveries(J)
<1>1. ASSUME NEW r \in Req, SendStep(r)
      PROVE  UNCHANGED deliveryVars \/ \E J \in SUBSET Job : AddDeliveries(J)
  <2>1. handler[r].own \in Session BY DEF SendTypeOK
  <2>2. CASE Notify(r) \/ Reconcile(r)
      BY Zenon, <2>1, <2>2, JobsOfType
      DEF Notify, Reconcile, CreateMessageNotifications
  <2>3. QED
      BY Zenon, <1>1, <2>2
      DEF SendStep, Reconnect, Lookup, NotifyFails, Answer, Fail, Save,
          QueueRetry, Broadcast, noticeVars
<1>2. ASSUME NEW s \in Session, RowStep(s)
      PROVE  UNCHANGED deliveryVars \/ \E J \in SUBSET Job : AddDeliveries(J)
    BY Zenon, <1>2, JobsOfType
    DEF RowStep, Alter, GiveUpRetry, RunRetry, CreateMessageNotifications,
        noticeVars
<1>3. QED BY Zenon, <1>1, <1>2 DEF Next, vars, noticeVars, Drop, SignIn

LEMMA DeliverySide == DeliveryInv /\ SendTypeOK /\ [Next]_vars => DeliveryInv'
    BY Zenon, DeliverySteps, DeliveryStutters, AddDeliveriesInv, DeliveryNextInv

(* The inserts are there for every recipient when the transaction commits. *)
LEMMA NotificationsCreated ==
    ASSUME NEW s, CreateMessageNotifications(s)
    PROVE  JobsOf(s) \subseteq waiting' \union sent'
    BY DEF CreateMessageNotifications, AddDeliveries

(* Notifications once assured stay so, whatever becomes of the retry.      *)
LEMMA NotifiedStays ==
    ASSUME DeliveryInv, SendTypeOK, [Next]_vars, NEW s \in Session, Notified(s)
    PROVE  \/ JobsOf(s) \subseteq waiting' \union sent'
           \/ retry'[s] \in {"queued", "lost"}
<1>1. CASE JobsOf(s) \subseteq waiting \union sent
  <2>1. waiting \union sent \subseteq waiting' \union sent'
      BY Zenon, DeliverySteps, AddedRowsStay
  <2>2. QED BY Zenon, <1>1, <2>1
<1>2. CASE retry[s] \in {"queued", "lost"}
  <2>1. ASSUME NEW r \in Req, SendStep(r) PROVE retry'[s] \in {"queued", "lost"}
    <3>1. CASE UNCHANGED retry BY <1>2, <3>1
    <3>2. ASSUME NEW ok \in BOOLEAN, QueueRetry(r, ok)
          PROVE  retry'[s] \in {"queued", "lost"}
        BY <1>2, <3>2 DEF QueueRetry, SendTypeOK
    <3>3. QED
        BY Zenon, <2>1, <3>1, <3>2
        DEF SendStep, Reconnect, Lookup, Notify, NotifyFails, Reconcile, Answer,
            Fail, Save, Broadcast, noticeVars
  <2>2. ASSUME NEW q \in Session, RowStep(q)
        PROVE  \/ JobsOf(s) \subseteq waiting' \union sent'
               \/ retry'[s] \in {"queued", "lost"}
    <3>1. CASE Alter(q) BY <1>2, <3>1 DEF Alter, noticeVars
    <3>2. CASE GiveUpRetry(q) BY <1>2, <3>2 DEF GiveUpRetry, SendTypeOK
    <3>3. ASSUME NEW published \in BOOLEAN, RunRetry(q, published)
          PROVE  \/ JobsOf(s) \subseteq waiting' \union sent'
                 \/ retry'[s] \in {"queued", "lost"}
      <4>1. CASE q = s
          BY Zenon, <3>3, <4>1, NotificationsCreated DEF RunRetry
      <4>2. CASE q # s BY <1>2, <3>3, <4>2 DEF RunRetry, SendTypeOK
      <4>3. QED BY <4>1, <4>2
    <3>4. QED BY Zenon, <2>2, <3>1, <3>2, <3>3 DEF RowStep
  <2>3. CASE UNCHANGED retry BY <1>2, <2>3
  <2>4. QED
      BY Zenon, <2>1, <2>2, <2>3 DEF Next, vars, noticeVars, Drop, SignIn
<1>3. QED BY Zenon, <1>1, <1>2 DEF Notified

(* What a handler must have established when it moves to a label.          *)
LEMMA MoveInv ==
    ASSUME SendTypeOK, SendInv, NEW r \in Req, NEW h \in Handlers,
           handler' = [handler EXCEPT ![r] = h],
           \A s \in Session : rows'[s] \in {0, 1} /\ (rows[s] = 1 => rows'[s] = 1),
           \A s \in Session : Notified(s) => Notified(s)',
           h.at \in HasRow => rows'[h.own] = 1,
           h.at \in Done => Notified(h.own)',
           \A s \in seen' \ seen : rows'[s] = 1 /\ Notified(s)'
    PROVE  SendInv'
<1>1. /\ handler'[r] = h
      /\ \A q \in Req : q # r => handler'[q] = handler[q]
    BY DEF SendTypeOK
<1>2. \A q \in Req : handler[q].own \in Session BY DEF SendTypeOK
<1>3. seen \subseteq Session BY DEF SendTypeOK
<1>4. ASSUME NEW q \in Req
      PROVE  /\ handler'[q].at \in HasRow => rows'[handler'[q].own] = 1
             /\ handler'[q].at \in Done => Notified(handler[q].own)'
  <2>1. CASE q = r BY Zenon, <1>1, <2>1
  <2>2. CASE q # r BY Zenon, <1>1, <1>2, <2>2 DEF SendInv
  <2>3. QED BY Zenon, <2>1, <2>2
<1>5. ASSUME NEW s \in seen' PROVE rows'[s] = 1 /\ Notified(s)'
    BY Zenon, <1>3 DEF SendInv
<1>6. QED BY Zenon, <1>4, <1>5 DEF SendInv

(* A handler goes on in its session, or ends.                              *)
LEMMA HandlerMoves ==
    ASSUME SendTypeOK, NEW r \in Req, NEW label \in Labels, To(r, label)
    PROVE  \E h \in Handlers : /\ handler' = [handler EXCEPT ![r] = h]
                               /\ h.at = label /\ h.own = handler[r].own
<1> DEFINE h == [handler[r] EXCEPT !.at = label]
<1>1. h \in Handlers /\ h.at = label /\ h.own = handler[r].own
    BY DEF SendTypeOK, Handlers
<1>2. handler' = [handler EXCEPT ![r] = h] BY DEF To
<1>3. QED BY Zenon, <1>1, <1>2

LEMMA HandlerEnds ==
    ASSUME NEW r \in Req, Return(r)
    PROVE  \E h \in Handlers : /\ handler' = [handler EXCEPT ![r] = h]
                               /\ h.at = "idle"
<1>1. Idle \in Handlers /\ Idle.at = "idle"
    BY MessagingAssumption DEF Idle, Handlers, Labels, Session
<1>2. handler' = [handler EXCEPT ![r] = Idle] BY DEF Return
<1>3. QED BY Zenon, <1>1, <1>2

LEMMA MovedType ==
    ASSUME SendTypeOK, NEW r \in Req, NEW h \in Handlers,
           handler' = [handler EXCEPT ![r] = h]
    PROVE  handler' \in [Req -> Handlers]
    BY DEF SendTypeOK, Handlers

(* The steps of the handlers.                                              *)
LEMMA SendStepInv ==
    ASSUME DeliveryInv, SendTypeOK, SendInv, NEW r \in Req, SendStep(r)
    PROVE  SendTypeOK' /\ SendInv'
<1> DEFINE o == handler[r].own
<1>o. o \in Session /\ handler[r].at \in Labels BY DEF SendTypeOK
<1>p. /\ handler[r].at \in HasRow => rows[o] = 1
      /\ handler[r].at \in Done => Notified(o)
    BY Zenon DEF SendInv
<1>n. \A s \in Session : Notified(s) => Notified(s)'
  <2>1. [Next]_vars BY Zenon DEF Next
  <2>2. QED BY Zenon, <2>1, NotifiedStays DEF Notified
<1>r. \A s \in Session : rows[s] \in {0, 1} BY Zenon DEF SendInv
<1>1. CASE Reconnect(r)
  <2> DEFINE h == IF Pending THEN [at |-> "lookup", own |-> session] ELSE Idle
  <2>1. handler' = [handler EXCEPT ![r] = h] BY <1>1 DEF Reconnect
  <2>2. UNCHANGED <<session, rows, altered, seen, retry>> /\ cur' = r
      BY <1>1 DEF Reconnect, noticeVars
  <2>3. h \in Handlers /\ h.at \notin HasRow \union Done
      BY MessagingAssumption
      DEF SendTypeOK, Handlers, Labels, Idle, Session, HasRow, Done
  <2> HIDE DEF h
  <2>4. SendTypeOK' BY <2>1, <2>2, <2>3, MovedType DEF SendTypeOK, Handlers
  <2>5. SendInv' BY Zenon, <1>n, <1>r, <2>1, <2>2, <2>3, MoveInv
  <2>6. QED BY Zenon, <2>4, <2>5
<1>2. CASE Lookup(r) \/ NotifyFails(r) \/ Fail(r)
  <2>1. UNCHANGED <<session, cur, rows, altered, seen, retry>>
      BY <1>2 DEF Lookup, NotifyFails, Fail, noticeVars
  <2>2. \/ Return(r)
        \/ To(r, "save")
        \/ \E label \in {"reconcile", "queue"} : To(r, label) /\ rows[o] = 1
      BY <1>2, <1>o, <1>p, <1>r DEF Lookup, NotifyFails, Fail, At, HasRow
  <2>3. \E h \in Handlers : /\ handler' = [handler EXCEPT ![r] = h]
                            /\ h.at \in HasRow => rows[h.own] = 1
                            /\ h.at \notin Done
    <3>1. CASE Return(r) BY <3>1, HandlerEnds DEF HasRow, Done
    <3>2. CASE To(r, "save")
        BY <3>2, HandlerMoves DEF HasRow, Done, Labels
    <3>3. CASE \E label \in {"reconcile", "queue"} : To(r, label) /\ rows[o] = 1
        BY <3>3, HandlerMoves DEF HasRow, Done, Labels
    <3>4. QED BY Zenon, <2>2, <3>1, <3>2, <3>3
  <2>4. PICK h \in Handlers : /\ handler' = [handler EXCEPT ![r] = h]
                              /\ h.at \in HasRow => rows[h.own] = 1
                              /\ h.at \notin Done
      BY Zenon, <2>3
  <2>5. SendTypeOK' BY <2>1, <2>4, MovedType DEF SendTypeOK, Handlers
  <2>6. SendInv' BY ZenonT(30), <1>n, <1>r, <2>1, <2>4, MoveInv
  <2>7. QED BY ZenonT(30), <2>5, <2>6
<1>3. CASE Notify(r) \/ Reconcile(r)
  <2>1. /\ UNCHANGED <<session, cur, rows, altered, seen, retry>>
        /\ rows[o] = 1 /\ CreateMessageNotifications(o)
      BY <1>3, <1>p DEF Notify, Reconcile, At, HasRow
  <2>2. \E label \in Done : To(r, label) BY <1>3 DEF Notify, Reconcile, Done
  <2>3. PICK h \in Handlers : handler' = [handler EXCEPT ![r] = h] /\ h.own = o
      BY <2>2, HandlerMoves DEF Done, Labels
  <2>4. Notified(h.own)'
    <3>1. JobsOf(o) \subseteq waiting' \union sent'
        BY Zenon, <2>1, NotificationsCreated
    <3>2. QED BY Zenon, <2>3, <3>1 DEF Notified, JobsOf
  <2>5. SendTypeOK' BY <2>1, <2>3, MovedType DEF SendTypeOK, Handlers
  <2>6. SendInv' BY Zenon, <1>n, <1>r, <2>1, <2>3, <2>4, MoveInv
  <2>7. QED BY Zenon, <2>5, <2>6
<1>4. ASSUME NEW outcome \in Outcome, Save(r, outcome)
      PROVE  SendTypeOK' /\ SendInv'
  <2>1. /\ UNCHANGED <<session, cur, altered, seen, retry>>
        /\ rows' = rows \/ (rows' = [rows EXCEPT ![o] = 1])
        /\ \/ To(r, "conflict")
           \/ To(r, "notify") /\ rows' = [rows EXCEPT ![o] = 1]
      BY <1>4 DEF Save, noticeVars
  <2>2. /\ rows' \in [Session -> 0..2]
        /\ rows' = [rows EXCEPT ![o] = 1] => rows'[o] = 1
        /\ \A s \in Session : rows'[s] \in {0, 1} /\ (rows[s] = 1 => rows'[s] = 1)
      BY SMTT(30), <1>o, <1>r, <2>1 DEF SendTypeOK
  <2>3. PICK h \in Handlers : /\ handler' = [handler EXCEPT ![r] = h]
                              /\ h.at \in HasRow => rows'[h.own] = 1
                              /\ h.at \notin Done
      BY <2>1, <2>2, HandlerMoves DEF HasRow, Done, Labels
  <2>4. SendTypeOK' BY <2>1, <2>2, <2>3, MovedType DEF SendTypeOK, Handlers
  <2>5. SendInv' BY Zenon, <1>n, <2>1, <2>2, <2>3, MoveInv
  <2>6. QED BY Zenon, <2>4, <2>5
<1>5. ASSUME NEW ok \in BOOLEAN, QueueRetry(r, ok)
      PROVE  SendTypeOK' /\ SendInv'
  <2>1. /\ UNCHANGED <<session, cur, rows, altered, seen>>
        /\ To(r, "broadcast") /\ rows[o] = 1
        /\ retry' = [retry EXCEPT ![o] = IF ok THEN "queued" ELSE "lost"]
      BY <1>5, <1>p DEF QueueRetry, At, HasRow
  <2>2. /\ retry' \in [Session -> {"none", "queued", "over", "lost"}]
        /\ retry'[o] \in {"queued", "lost"}
      BY <1>o, <2>1 DEF SendTypeOK
  <2>3. PICK h \in Handlers : handler' = [handler EXCEPT ![r] = h] /\ h.own = o
      BY <2>1, HandlerMoves DEF Labels
  <2>4. Notified(h.own)' BY Zenon, <2>2, <2>3 DEF Notified
  <2>5. SendTypeOK' BY <2>1, <2>2, <2>3, MovedType DEF SendTypeOK, Handlers
  <2>6. SendInv' BY Zenon, <1>n, <1>r, <2>1, <2>3, <2>4, MoveInv
  <2>7. QED BY ZenonT(30), <2>5, <2>6
<1>6. CASE Answer(r) \/ \E ok \in BOOLEAN : Broadcast(r, ok)
  <2>1. /\ UNCHANGED <<session, cur, rows, altered, retry>>
        /\ Return(r) /\ rows[o] = 1 /\ Notified(o)
        /\ seen' = seen \/ seen' = seen \union {o}
      BY SMTT(30), <1>6, <1>p DEF Answer, Broadcast, noticeVars, At, HasRow, Done
  <2>2. PICK h \in Handlers : /\ handler' = [handler EXCEPT ![r] = h]
                              /\ h.at \notin HasRow \union Done
      BY <2>1, HandlerEnds DEF HasRow, Done
  <2>3. SendTypeOK' BY <1>o, <2>1, <2>2, MovedType DEF SendTypeOK, Handlers
  <2>4. PICK c \in Session : c = o BY <1>o
  <2>5. Notified(c)' BY ZenonT(30), <1>n, <2>1, <2>4
  <2>6. \A s \in seen' \ seen : s = c BY <2>1, <2>4
  <2>7. \A s \in seen' \ seen : rows'[s] = 1 /\ Notified(s)'
      BY Zenon, <2>1, <2>4, <2>5, <2>6
  <2>8. SendInv' BY Zenon, <1>n, <1>r, <2>1, <2>2, <2>7, MoveInv
  <2>9. QED BY ZenonT(30), <2>3, <2>8
<1>7. QED BY Zenon, <1>1, <1>2, <1>3, <1>4, <1>5, <1>6 DEF SendStep

(* The steps that leave the handlers where they are.                       *)
LEMMA StayInv ==
    ASSUME SendTypeOK, SendInv, UNCHANGED <<handler, rows, seen>>,
           \A s \in Session : Notified(s) => Notified(s)'
    PROVE  SendInv'
<1>1. \A q \in Req : handler[q].own \in Session BY DEF SendTypeOK
<1>2. seen \subseteq Session BY DEF SendTypeOK
<1>3. QED BY Zenon, <1>1, <1>2 DEF SendInv

LEMMA MessagingNextInv == MessagingInv /\ [Next]_vars => MessagingInv'
<1> SUFFICES ASSUME MessagingInv, [Next]_vars PROVE MessagingInv'
    OBVIOUS
<1>t. DeliveryInv /\ SendTypeOK /\ SendInv BY DEF MessagingInv
<1>d. DeliveryInv' BY <1>t, DeliverySide
<1>n. \A s \in Session : Notified(s) => Notified(s)'
    BY Zenon, <1>t, NotifiedStays DEF Notified
<1>1. CASE \E r \in Req : SendStep(r)
    BY <1>1, <1>t, SendStepInv, <1>d DEF MessagingInv
<1>2. CASE UNCHANGED <<handler, rows, seen>> /\ SendTypeOK'
    BY Zenon, <1>2, <1>t, <1>d, <1>n, StayInv DEF MessagingInv
<1>3. CASE Drop \/ SignIn \/ UNCHANGED <<sendVars, retry>>
  <2>1. /\ UNCHANGED <<handler, rows, altered, seen, retry>>
        /\ cur' \in {cur, NoReq}
        /\ session' = session \/ (session < Sessions /\ session' = session + 1)
      BY <1>3 DEF Drop, SignIn, sendVars, noticeVars
  <2>2. session' \in Session
      BY <1>t, <2>1, MessagingAssumption DEF SendTypeOK, Session
  <2>3. SendTypeOK' BY <1>t, <2>1, <2>2 DEF SendTypeOK
  <2>4. QED BY <1>2, <2>1, <2>3
<1>4. ASSUME NEW s \in Session, RowStep(s) PROVE MessagingInv'
  <2>1. /\ UNCHANGED <<session, cur, handler, rows, seen>>
        /\ altered' = altered \/ altered' = altered \union {s}
        /\ \/ retry' = retry
           \/ \E x \in {"over", "lost"} : retry' = [retry EXCEPT ![s] = x]
      BY <1>4 DEF RowStep, Alter, GiveUpRetry, RunRetry, sendVars, noticeVars
  <2>2. SendTypeOK' BY <1>t, <2>1 DEF SendTypeOK
  <2>3. QED BY <1>2, <2>1, <2>2
<1>5. QED BY Zenon, <1>1, <1>3, <1>4 DEF Next, vars, noticeVars

LEMMA MessagingInvariant == Spec => []MessagingInv
<1>1. QED BY MessagingInitInv, MessagingNextInv, PTL DEF Spec

(* Every state of the sending and of the deliveries is well-typed: a row   *)
(* is never both waiting and sent, however replays, replicas and the       *)
(* outbox retry interleave.                                                *)
THEOREM MessagingTypes == Spec => []TypeOK
<1>1. MessagingInv => TypeOK BY DEF MessagingInv, DeliveryInv, TypeOK
<1>2. QED BY <1>1, MessagingInvariant, PTL

(* The delivery loops of all replicas make a notification take effect a    *)
(* second time only when a claim on its row had expired or a call that     *)
(* took effect had returned an error.                                      *)
THEOREM DuplicatesExplainedAlways == Spec => []DuplicatesExplained
<1>1. ASSUME MessagingInv PROVE DuplicatesExplained
  <2>1. ClaimInv BY <1>1 DEF MessagingInv, DeliveryInv
  <2>2. \A j \in Job \ unsure : accepted[j] = 0 \/ accepted[j] = 1
      BY Zenon, <2>1 DEF ClaimInv
  <2>3. ASSUME NEW j \in Job \ unsure PROVE accepted[j] <= 1
    <3>1. accepted[j] \in {0, 1} BY Zenon, <2>2
    <3>2. \A n \in {0, 1} : n <= 1 OBVIOUS
    <3>3. QED BY Zenon, <3>1, <3>2
  <2>4. QED BY Zenon, <2>3 DEF DuplicatesExplained
<1>2. QED BY <1>1, MessagingInvariant, PTL

(* No step takes back, or claims again, a row recorded as sent: neither a  *)
(* task that outlived its claim nor a second insert of the row.            *)
THEOREM SentIsFinalAlways == Spec => SentIsFinal
<1>1. ASSUME MessagingInv, [Next]_vars
      PROVE  [\A j \in sent : j \in sent' /\ attempts'[j] = attempts[j]]_deliveryVars
  <2>1. \/ UNCHANGED deliveryVars \/ DeliveryNext
        \/ \E J \in SUBSET Job : AddDeliveries(J)
      BY Zenon, <1>1, DeliverySteps DEF MessagingInv
  <2>2. CASE \E J \in SUBSET Job : AddDeliveries(J) BY <2>2 DEF AddDeliveries
  <2>3. CASE DeliveryNext BY <1>1, <2>3, SentStays DEF MessagingInv
  <2>4. QED BY Zenon, <2>1, <2>2, <2>3
<1>2. QED BY <1>1, MessagingInvariant, PTL DEF Spec, SentIsFinal

(* A session saves the message once however often it is replayed, over any *)
(* number of sign-ins, and the browser drops it only when the row of the   *)
(* event it was sent is saved.                                             *)
THEOREM ClearedIsDurableOnceAlways == Spec => []ClearedIsDurableOnce
<1>1. ASSUME MessagingInv PROVE ClearedIsDurableOnce
  <2>1. \A s \in Session : rows[s] \in {0, 1} /\ (s \in seen => rows[s] = 1)
      BY Zenon, <1>1 DEF MessagingInv, SendInv
  <2>2. QED BY <2>1 DEF ClearedIsDurableOnce
<1>2. QED BY <1>1, MessagingInvariant, PTL

(* When the sender has seen a row of the message its notifications exist   *)
(* or are queued, unless queueing failed or the outbox gave up: a handler  *)
(* that died in between is made good by the replay's reconciliation.       *)
THEOREM SeenMeansNotifiedAlways == Spec => []SeenMeansNotified
<1>1. MessagingInv => SeenMeansNotified
    BY Zenon DEF MessagingInv, SendInv, Notified, SeenMeansNotified
<1>2. QED BY <1>1, MessagingInvariant, PTL
-----------------------------------------------------------------------------
(* Attached files are kept and no blob is stranded by the cleanup, for any *)
(* number of files, messages and replicas.  A file that a cleanup has in   *)
(* hand is past its upload and never live again; one that a message has in *)
(* hand was answered to its uploader.                                      *)

Past == {"undo", "answered", "failed"}
InHand(c, f) == f \in claimed[c] \/ erased[c] = f

(* What holds of one file: its upload puts the blob before the row, and    *)
(* messages attach it, and cleanups claim it, only after that.             *)
UploadInv ==
    \A f \in File :
        /\ row[f] # "none" => upload[f] \in Past
        /\ upload[f] = "insert" => f \in blob
        /\ links[f] # {} => upload[f] = "answered"
        /\ \A m \in Message : sending[m] = f => upload[f] = "answered"

(* What a cleanup may rely on between its statements.                      *)
CleanupInv ==
    \A c \in Cleaner, f \in File :
        /\ InHand(c, f) => row[f] # "live" /\ upload[f] \in Past
        /\ erased[c] = f => f \notin blob

FilesInv == FilesTypeOK /\ UploadInv /\ CleanupInv /\ AttachedFilesKept /\ BlobsHaveRows

(* It holds before the first upload.                                       *)
LEMMA FilesInitInv == FilesInit => FilesInv
<1> SUFFICES ASSUME FilesInit PROVE FilesInv
    BY Zenon
<1> USE NoFileAssumption DEF FilesInit
<1>1. FilesTypeOK BY Zenon DEF FilesTypeOK
<1>2. UploadInv BY Zenon DEF UploadInv
<1>3. CleanupInv BY Zenon DEF CleanupInv, InHand
<1>4. AttachedFilesKept BY Zenon DEF AttachedFilesKept
<1>5. BlobsHaveRows BY Zenon DEF BlobsHaveRows
<1>6. QED BY Zenon, <1>1, <1>2, <1>3, <1>4, <1>5 DEF FilesInv

(* Every step of an upload preserves it.                                   *)
LEMMA UploadStepInv ==
    ASSUME FilesInv, NEW f \in File, UploadStep(f) \/ Age(f)
    PROVE  FilesInv'
<1> USE NoFileAssumption
        DEF FilesInv, FilesTypeOK, UploadInv, CleanupInv, InHand, Past,
            AttachedFilesKept, BlobsHaveRows, DownloadFile, Put, Delete,
            uploads, messages, cleanups
<1>1. CASE Scan(f) BY <1>1 DEF Scan
<1>2. CASE UploadFile(f)
  <2>1. FilesTypeOK' BY <1>2 DEF UploadFile
  <2>2. UploadInv' BY <1>2 DEF UploadFile
  <2>3. CleanupInv' BY <1>2 DEF UploadFile
  <2>4. AttachedFilesKept' BY <1>2 DEF UploadFile
  <2>5. BlobsHaveRows' BY <1>2 DEF UploadFile
  <2>6. QED BY Zenon, <2>1, <2>2, <2>3, <2>4, <2>5
<1>3. CASE InsertFile(f)
  <2>1. FilesTypeOK' BY <1>3 DEF InsertFile
  <2>2. UploadInv' BY <1>3 DEF InsertFile
  <2>3. CleanupInv' BY <1>3 DEF InsertFile
  <2>4. AttachedFilesKept' BY <1>3 DEF InsertFile
  <2>5. BlobsHaveRows' BY SMTT(30), <1>3 DEF InsertFile
  <2>6. QED BY Zenon, <2>1, <2>2, <2>3, <2>4, <2>5
<1>4. CASE UndoPut(f) BY SMTT(30), <1>4 DEF UndoPut
<1>5. CASE UploadDies(f) BY SMTT(30), <1>5 DEF UploadDies
<1>6. CASE Age(f) BY <1>6 DEF Age
<1>7. QED BY Zenon, <1>1, <1>2, <1>3, <1>4, <1>5, <1>6 DEF UploadStep

(* Every step of a message preserves it.                                   *)
LEMMA MessageStepInv ==
    ASSUME FilesInv, NEW m \in Message,
           MessageStep(m) \/ \E f \in File : CheckFile(m, f)
    PROVE  FilesInv'
<1> USE NoFileAssumption
        DEF FilesInv, FilesTypeOK, UploadInv, CleanupInv, InHand, Past,
            AttachedFilesKept, BlobsHaveRows, DownloadFile, uploads, messages,
            cleanups
<1>1. CASE SaveMessage(m)
  <2>1. sending[m] \in File BY <1>1 DEF SaveMessage
  <2>2. FilesTypeOK' BY <1>1, <2>1 DEF SaveMessage
  <2>3. UploadInv' BY SMTT(30), <1>1, <2>1 DEF SaveMessage
  <2>4. CleanupInv' BY SMTT(30), <1>1 DEF SaveMessage
  <2>5. AttachedFilesKept' BY <1>1, <2>1 DEF SaveMessage
  <2>6. BlobsHaveRows' BY Zenon, <1>1 DEF SaveMessage
  <2>7. QED BY Zenon, <2>2, <2>3, <2>4, <2>5, <2>6
<1>2. CASE SaveFails(m) BY SMTT(30), <1>2 DEF SaveFails
<1>3. CASE PruneExpired(m) BY SMTT(30), <1>3 DEF PruneExpired
<1>4. ASSUME NEW f \in File, CheckFile(m, f) PROVE FilesInv'
    BY <1>4 DEF CheckFile
<1>5. QED BY Zenon, <1>1, <1>2, <1>3, <1>4 DEF MessageStep

(* Every step of a cleanup preserves it.                                   *)
LEMMA CleanerStepInv ==
    ASSUME FilesInv, NEW c \in Cleaner, CleanerStep(c)
    PROVE  FilesInv'
<1> USE NoFileAssumption
        DEF FilesInv, FilesTypeOK, UploadInv, CleanupInv, InHand, Past,
            AttachedFilesKept, BlobsHaveRows, DownloadFile, Delete, uploads,
            messages, cleanups
<1>1. CASE ClaimOrphanFiles(c)
  <2>1. Orphans \subseteq File BY Zenon DEF Orphans
  <2>2. FilesTypeOK' BY Zenon, <1>1, <2>1 DEF ClaimOrphanFiles, Orphans
  <2>3. UploadInv' BY Zenon, <1>1 DEF ClaimOrphanFiles, Orphans
  <2>4. CleanupInv' BY <1>1 DEF ClaimOrphanFiles, Orphans
  <2>5. AttachedFilesKept' BY Zenon, <1>1 DEF ClaimOrphanFiles, Orphans
  <2>6. BlobsHaveRows' BY ZenonT(30), <1>1 DEF ClaimOrphanFiles, Orphans
  <2>7. QED BY Zenon, <2>2, <2>3, <2>4, <2>5, <2>6
<1>2. ASSUME NEW f \in File, DeleteBlob(c, f) PROVE FilesInv'
    BY SMTT(30), <1>2 DEF DeleteBlob
<1>3. ASSUME NEW f \in File, DeleteBlobFails(c, f) PROVE FilesInv'
    BY <1>3 DEF DeleteBlobFails
<1>4. CASE DeleteFileMetadata(c)
  <2>1. erased[c] \in File BY ZenonT(30), <1>4 DEF DeleteFileMetadata
  <2>2. FilesTypeOK' BY <1>4, <2>1 DEF DeleteFileMetadata
  <2>3. UploadInv' BY SMTT(30), <1>4, <2>1 DEF DeleteFileMetadata
  <2>4. CleanupInv' BY <1>4, <2>1 DEF DeleteFileMetadata
  <2>5. AttachedFilesKept' BY <1>4, <2>1 DEF DeleteFileMetadata
  <2>6. BlobsHaveRows' BY ZenonT(30), <1>4, <2>1 DEF DeleteFileMetadata
  <2>7. QED BY Zenon, <2>2, <2>3, <2>4, <2>5, <2>6
<1>5. CASE MetadataFails(c) BY SMTT(30), <1>5 DEF MetadataFails
<1>6. CASE CleanerDies(c) BY <1>6 DEF CleanerDies
<1>7. QED BY Zenon, <1>1, <1>2, <1>3, <1>4, <1>5, <1>6 DEF CleanerStep

(* So does every step.                                                     *)
LEMMA FilesStepInv == FilesInv /\ [FilesNext]_fileVars => FilesInv'
<1> SUFFICES ASSUME FilesInv, [FilesNext]_fileVars PROVE FilesInv'
    BY Zenon
<1>1. CASE FilesNext
    BY ZenonT(30), <1>1, UploadStepInv, MessageStepInv, CleanerStepInv DEF FilesNext
<1>2. CASE UNCHANGED fileVars
    BY <1>2
    DEF fileVars, uploads, messages, cleanups, FilesInv, FilesTypeOK, UploadInv,
       CleanupInv, InHand, AttachedFilesKept, BlobsHaveRows, DownloadFile
<1>3. QED BY Zenon, <1>1, <1>2

(* The types of the module's state, and that only files with a row are     *)
(* attached to messages.                                                   *)
THEOREM FilesTypes == FilesSpec => []FilesTypeOK
<1>1. FilesInv => FilesTypeOK BY Zenon DEF FilesInv
<1>2. QED BY <1>1, FilesInitInv, FilesStepInv, PTL DEF FilesSpec

(* A file attached to a message can be downloaded: claim_orphan_files and  *)
(* the undoing of an upload take nothing that a message refers to, unless  *)
(* it was claimed between the message's check and its save.                *)
THEOREM AttachedFilesKeptAlways == FilesSpec => []AttachedFilesKept
<1>1. FilesInv => AttachedFilesKept BY Zenon DEF FilesInv
<1>2. QED BY <1>1, FilesInitInv, FilesStepInv, PTL DEF FilesSpec

(* The cleanup deletes a row only when the blob is gone, so that the only  *)
(* blobs without a row are those of unfinished or broken uploads.          *)
THEOREM BlobsHaveRowsAlways == FilesSpec => []BlobsHaveRows
<1>1. FilesInv => BlobsHaveRows BY Zenon DEF FilesInv
<1>2. QED BY <1>1, FilesInitInv, FilesStepInv, PTL DEF FilesSpec
=============================================================================
