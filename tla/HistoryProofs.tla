--------------------------- MODULE HistoryProofs ----------------------------
(***************************************************************************)
(* Proofs about the hot copy of a channel's history, for any number of     *)
(* messages, requests, replicas and changes, and any window: the copy is   *)
(* fresh and its window has no gaps, up to the cases the two properties    *)
(* name.                                                                   *)
(***************************************************************************)
EXTENDS History, FiniteSetTheorems, WellFoundedInduction, TLAPS
-----------------------------------------------------------------------------
(* The newest and the oldest members of a set.                             *)

LEMMA NewestSubset == \A S, n : Newest(S, n) \subseteq S
    BY Zenon DEF Newest

(* The newest members are those above some member (ZRANGE -n -1).          *)
LEMMA NewestUpward ==
    ASSUME NEW S, S \subseteq Int, IsFiniteSet(S), NEW n \in Nat,
           NEW x \in Newest(S, n), NEW m \in S, m > x
    PROVE  m \in Newest(S, n)
<1> DEFINE above(k) == {j \in S : j > k}
<1>1. x \in S /\ Cardinality(above(x)) < n BY DEF Newest
<1>2. above(m) \subseteq above(x)
  <2>1. \A i, j, k \in Int : i > j /\ j > k => i > k OBVIOUS
  <2>2. QED BY Zenon, <1>1, <2>1
<1>3. IsFiniteSet(above(x)) BY FS_Subset
<1>4. Cardinality(above(m)) <= Cardinality(above(x)) BY <1>2, <1>3, FS_Subset
<1>5. Cardinality(above(m)) \in Nat /\ Cardinality(above(x)) \in Nat
    BY <1>2, <1>3, FS_Subset, FS_CardinalityType
<1> HIDE DEF above
<1>6. Cardinality(above(m)) < n BY <1>1, <1>4, <1>5
<1>7. QED BY <1>6 DEF Newest, above

(* Of n members or more, at least n are among the newest n.  In a smallest *)
(* subset that has n members, and whose newest n are newest n of the whole *)
(* set, every member is one of the newest: what is above one that is not   *)
(* would be a smaller such subset.                                         *)
LEMMA NewestCardinality ==
    ASSUME NEW S, S \subseteq Int, IsFiniteSet(S), NEW n \in Nat, Cardinality(S) >= n
    PROVE  Cardinality(Newest(S, n)) >= n
<1> DEFINE T == {U \in SUBSET S : Cardinality(U) >= n /\ Newest(U, n) \subseteq Newest(S, n)}
           R == StrictSubsetOrdering(S)
<1>1. S \in T BY Zenon
<1>2. T \subseteq FiniteSubsetsOf(S) BY FS_Subset DEF FiniteSubsetsOf
<1>3. IsWellFoundedOn(R, FiniteSubsetsOf(S))
    BY Zenon, FS_StrictSubsetOrderingWellFounded
<1>4. PICK U \in T : \A V \in T : <<V, U>> \notin R
  <2> HIDE DEF T, R
  <2>1. QED BY Zenon, <1>1, <1>2, <1>3, WFMin
<1>5. U \in SUBSET S /\ Cardinality(U) >= n /\ Newest(U, n) \subseteq Newest(S, n)
    BY Zenon, <1>4
<1>6. IsFiniteSet(U) BY Zenon, <1>5, FS_Subset
<1>7. ASSUME NEW z \in U, z \notin Newest(U, n) PROVE FALSE
  <2> DEFINE V == {k \in U : k > z}
  <2>1. V \in SUBSET U /\ IsFiniteSet(V) BY Zenon, <1>6, FS_Subset
  <2>2. ~(z > z) BY <1>5
  <2>3. V \in SUBSET S /\ z \notin V BY Zenon, <1>5, <2>2
  <2>4. Cardinality(V) \in Nat BY Zenon, <2>1, FS_CardinalityType
  <2>5. ~(Cardinality(V) < n) BY Zenon, <1>7 DEF Newest
  <2>6. Cardinality(V) >= n BY <2>4, <2>5
  <2>7. ASSUME NEW m \in Newest(V, n) PROVE m \in Newest(U, n)
    <3>1. m \in V /\ Cardinality({k \in V : k > m}) < n BY Zenon DEF Newest
    <3>2. \A k \in U : k > m => k > z BY <1>5, <3>1
    <3>3. {k \in V : k > m} = {k \in U : k > m} BY Zenon, <3>2
    <3>4. m \in U BY Zenon, <3>1
    <3>5. QED BY Zenon, <3>1, <3>3, <3>4 DEF Newest
  <2>8. V \in T BY Zenon, <1>5, <2>3, <2>6, <2>7
  <2>9. <<V, U>> \in R BY Zenon, <1>5, <1>7, <2>1, <2>3 DEF StrictSubsetOrdering
  <2>10. QED BY Zenon, <1>4, <2>8, <2>9
<1>8. U \subseteq Newest(S, n) BY Zenon, <1>5, <1>7
<1>9. IsFiniteSet(Newest(S, n)) BY Zenon, NewestSubset, FS_Subset
<1>10. Cardinality(U) <= Cardinality(Newest(S, n)) BY Zenon, <1>8, <1>9, FS_Subset
<1>11. Cardinality(U) \in Nat /\ Cardinality(Newest(S, n)) \in Nat
    BY Zenon, <1>6, <1>9, FS_CardinalityType
<1>12. QED BY <1>5, <1>10, <1>11

Above(S, y) == {k \in S : k > y}

(* Removing members below the newest n leaves n members above whatever had *)
(* n members above it: trims do not undo each other's excuse.              *)
LEMMA TrimKeepsNewest ==
    ASSUME NEW S, S \subseteq Int, IsFiniteSet(S), NEW n \in Nat, NEW R,
           \A z \in R : Cardinality(Above(S, z)) >= n,
           NEW y \in Int, Cardinality(Above(S, y)) >= n
    PROVE  Cardinality(Above(S \ R, y)) >= n
<1> USE DEF Above
<1> DEFINE above(z) == {k \in S : k > z}
           left == {k \in S \ R : k > y}
<1>1. \A z : IsFiniteSet(above(z)) /\ Cardinality(above(z)) \in Nat
    BY FS_Subset, FS_CardinalityType
<1>2. Cardinality(above(y)) <= Cardinality(S) /\ Cardinality(S) \in Nat
    BY FS_Subset, FS_CardinalityType
<1>3. Cardinality(S) >= n BY <1>1, <1>2
<1>4. Cardinality(Newest(S, n)) >= n BY Zenon, <1>3, NewestCardinality
<1>5. \A k \in Newest(S, n) : k \in S /\ Cardinality(above(k)) < n BY DEF Newest
<1>6. ASSUME NEW k \in Newest(S, n) PROVE k \in left
  <2>1. k \notin R
    <3>1. k \in R => Cardinality(above(k)) >= n BY Zenon
    <3> HIDE DEF above
    <3>2. QED BY <1>1, <1>5, <3>1
  <2>2. ASSUME ~(k > y) PROVE FALSE
    <3>1. k \in Int BY Zenon, <1>5
    <3>2. \A i \in S : i > y => i > k BY <2>2, <3>1
    <3>3. above(y) \subseteq above(k) BY Zenon, <3>2
    <3>4. Cardinality(above(y)) <= Cardinality(above(k)) BY <1>1, <3>3, FS_Subset
    <3> HIDE DEF above
    <3>5. Cardinality(above(y)) >= n BY DEF above
    <3>6. QED BY <1>1, <1>5, <3>4, <3>5
  <2>3. QED BY Zenon, <1>5, <2>1, <2>2
<1>7. IsFiniteSet(left) BY FS_Subset
<1>8. Newest(S, n) \subseteq left BY <1>6
<1>9. /\ Cardinality(Newest(S, n)) <= Cardinality(left)
      /\ Cardinality(Newest(S, n)) \in Nat /\ Cardinality(left) \in Nat
    BY <1>7, <1>8, FS_Subset, FS_CardinalityType
<1> HIDE DEF left
<1>10. Cardinality(left) >= n BY <1>4, <1>9
<1>11. QED BY <1>10 DEF left

(* There is one oldest member: bulk moderation refreshes row by row.       *)
LEMMA OldestIsOne ==
    ASSUME NEW S, S \subseteq Int, IsFiniteSet(S), NEW m \in Oldest(S, 1), NEW k \in Oldest(S, 1)
    PROVE  m = k
<1> DEFINE below(j) == {i \in S : i < j}
<1>1. ASSUME NEW j \in Oldest(S, 1) PROVE j \in S /\ below(j) = {}
  <2>1. IsFiniteSet(below(j)) BY FS_Subset
  <2>2. j \in S /\ Cardinality(below(j)) < 1 BY DEF Oldest
  <2>3. Cardinality(below(j)) \in Nat BY <2>1, FS_CardinalityType
  <2> HIDE DEF below
  <2>4. Cardinality(below(j)) = 0 BY <2>2, <2>3
  <2>5. QED BY <2>1, <2>2, <2>4, FS_EmptySet
<1>2. m \in S /\ k \in S /\ below(m) = {} /\ below(k) = {} BY <1>1
<1>3. ~(k < m) /\ ~(m < k) BY <1>2
<1>4. QED BY <1>2, <1>3
-----------------------------------------------------------------------------
(* The inductive invariant.                                                *)

Labels == {"idle", "save", "store", "trim", "zrem", "hdel", "refresh", "delHash",
           "delOrder", "hmget", "load", "hydrate"}
Puts == UNION {[D -> Payloads] : D \in SUBSET Msg}
Requests == [at : Labels, put : Puts, ids : SUBSET Msg, rest : SUBSET Msg]

Held(r) == DOMAIN req[r].put

RowInv ==
    /\ version \in [Msg -> (0..MaxChanges) \union {None}]
    /\ deleted \subseteq Row /\ Row \subseteq used
    /\ used \subseteq Msg /\ IsFiniteSet(used)
    /\ changes \in 0..MaxChanges
    /\ \A m \in Row : version[m] <= changes

CopyInv ==
    /\ hash \in [Msg -> Payloads \union {None}]
    /\ order \subseteq used

CallInv ==
    /\ req \in [Req -> Requests]
    /\ \A r \in Req : /\ Held(r) \subseteq used
                      /\ req[r].ids \subseteq used /\ req[r].rest \subseteq used

TypeInv == RowInv /\ CopyInv /\ CallInv

(* Only a sender, an editor and a reader hold payloads.  A sender, an      *)
(* editor and a refresh work on one message, and a message whose row is    *)
(* not saved yet is known to its sender only.                              *)
ShapeOf(r) ==
    /\ req[r].at \notin {"save", "store", "hydrate"} => Held(r) = {}
    /\ req[r].at \in {"save", "store"} => \A m, k \in Held(r) : m = k
    /\ At(r, "refresh") => \A m, k \in req[r].ids : m = k
    /\ At(r, "save") => \A m \in Held(r) :
        /\ m \notin Row /\ req[r].put[m] = 0
        /\ \A q \in Req : m \in Held(q) => q = r

ShapeInv == \A r \in Req : ShapeOf(r)

(* What a request is about to write is what the database shows, unless the *)
(* row was rewritten meanwhile.                                            *)
HeldOf(r) ==
    req[r].at \in {"store", "hydrate"} =>
        \A m \in Held(r) \cap Row :
            req[r].put[m] = View(m) \/ m \in overlapped \union revived

HeldInv == \A r \in Req : HeldOf(r)

PendingBy(r, m) ==
    \/ At(r, "store") /\ m \in Held(r)
    \/ /\ req[r].at \in {"refresh", "delHash", "delOrder"}
       /\ m \in req[r].ids \union req[r].rest

(* A root message is missing from the copy for a reason: it was trimmed,   *)
(* its sender has yet to store it, or died.                                *)
Outdated(m) == Cardinality({k \in order : k > m}) >= HotLimit
Unstored(m) == \E r \in Req : At(r, "store") /\ m \in Held(r)
Covered(m) == m \in order \/ Unstored(m) \/ m \in abandoned \/ Outdated(m)
Roots == Row \ (Reply \union System)
CoveredFrom(x) == \A m \in Roots : m > x => Covered(m)

(* So may every newer message, for what is in the copy and for what is on  *)
(* its way there; a trim removes only what has a window of newer messages. *)
GapOf(r) ==
    /\ req[r].at \in {"save", "store"} =>
        \A x \in Held(r) \ straddled : req[r].put[x] = 0 => CoveredFrom(x)
    /\ At(r, "hydrate") =>
        \A x \in Held(r) \ straddled, m \in Roots :
            m > x => Covered(m) \/ m \in Held(r)
    /\ At(r, "zrem") => straddled = Msg \/ \A m \in req[r].ids : Outdated(m)

GapInv ==
    /\ \A x \in order \ (backfilled \union straddled) : CoveredFrom(x)
    /\ \A r \in Req : GapOf(r)

HistoryInv ==
    TypeInv /\ ShapeInv /\ HeldInv /\ FreshUnlessOverlapped /\ GapInv
-----------------------------------------------------------------------------
(* How the state of a request changes.                                     *)

LEMMA PutTypes == \A f \in Puts : /\ DOMAIN f \subseteq Msg
                                  /\ \A m \in DOMAIN f : f[m] \in Payloads
<1> SUFFICES ASSUME NEW D \in SUBSET Msg, NEW f \in [D -> Payloads]
             PROVE  DOMAIN f \subseteq Msg /\ \A m \in DOMAIN f : f[m] \in Payloads
    BY Zenon DEF Puts
<1>1. QED OBVIOUS

LEMMA PutOf ==
    ASSUME NEW f, NEW D \in SUBSET Msg, f \in [D -> Payloads]
    PROVE  f \in Puts
    BY Zenon DEF Puts

LEMMA IdlePut ==
    /\ Idle \in Requests /\ Idle.put \in Puts /\ DOMAIN Idle.put = {}
    /\ Idle.at = "idle" /\ Idle.ids = {} /\ Idle.rest = {}
<1> DEFINE e == [m \in {} |-> None]
<1>1. e \in [{} -> Payloads] /\ {} \in SUBSET Msg /\ DOMAIN e = {} OBVIOUS
<1>2. e \in Puts BY Zenon, <1>1, PutOf
<1> HIDE DEF e
<1>3. Idle = [at |-> "idle", put |-> e, ids |-> {}, rest |-> {}]
    BY Zenon DEF Idle, e
<1>4. Idle \in Requests BY <1>2, <1>3 DEF Requests, Labels
<1>5. QED BY <1>1, <1>2, <1>3, <1>4

LEMMA SinglePut ==
    ASSUME NEW m \in Msg, NEW p \in Payloads
    PROVE  /\ Single(m, p) \in Puts /\ DOMAIN Single(m, p) = {m}
           /\ Single(m, p)[m] = p
<1>1. Single(m, p) \in [{m} -> Payloads] /\ {m} \in SUBSET Msg BY DEF Single
<1>2. Single(m, p) \in Puts BY Zenon, <1>1, PutOf
<1>3. QED BY <1>2 DEF Single

LEMMA GoStep ==
    ASSUME req \in [Req -> Requests], NEW r \in Req, NEW at \in Labels, NEW put \in Puts,
           NEW ids \in SUBSET Msg, Go(r, at, put, ids)
    PROVE  /\ req' \in [Req -> Requests]
           /\ \A q \in Req \ {r} : req'[q] = req[q]
           /\ req'[r].at = at /\ req'[r].put = put
           /\ req'[r].ids = ids /\ req'[r].rest = req[r].rest
    BY Zenon DEF Go, Requests

LEMMA DoneStep ==
    ASSUME req \in [Req -> Requests], NEW r \in Req, Done(r)
    PROVE  /\ req' \in [Req -> Requests]
           /\ \A q \in Req \ {r} : req'[q] = req[q]
           /\ req'[r] = Idle
    BY IdlePut DEF Done

(* The refresh takes one message, and keeps the others for later.          *)
LEMMA RefreshFirstStep ==
    ASSUME req \in [Req -> Requests], NEW r \in Req, NEW S, S \subseteq Msg,
           IsFiniteSet(S), RefreshFirst(r, S)
    PROVE  /\ req' \in [Req -> Requests]
           /\ \A q \in Req \ {r} : req'[q] = req[q]
           /\ req'[r].at = "refresh" /\ req'[r].put = req[r].put
           /\ \A m, k \in req'[r].ids : m = k
           /\ req'[r].ids \union req'[r].rest = S
<1> DEFINE first == Oldest(S, 1)
<1>1. req' = [req EXCEPT ![r].at = "refresh", ![r].ids = first, ![r].rest = S \ first]
    BY Zenon DEF RefreshFirst
<1>2. first \subseteq S BY Zenon DEF Oldest
<1>3. \A m, k \in first : m = k BY Zenon, OldestIsOne, MsgAssumption
<1> HIDE DEF first
<1>4. first \in SUBSET Msg /\ S \ first \in SUBSET Msg BY Zenon, <1>2
<1>5. /\ req' \in [Req -> Requests]
      /\ \A q \in Req \ {r} : req'[q] = req[q]
      /\ req'[r].at = "refresh" /\ req'[r].put = req[r].put
      /\ req'[r].ids = first /\ req'[r].rest = S \ first
    BY ZenonT(30), <1>1, <1>4 DEF Requests, Labels
<1>6. first \union (S \ first) = S BY Zenon, <1>2
<1>7. QED BY Zenon, <1>3, <1>5, <1>6
-----------------------------------------------------------------------------
(* What a step of the requests R must guarantee for each conjunct.  The    *)
(* other requests stand still, their unsaved messages stay unsaved, and a  *)
(* row that is shown differently was held by nobody or is marked.          *)

Moves(R) ==
    /\ \A q \in Req \ R : req'[q] = req[q]
    /\ \A m \in Row' \ Row : \A q \in Req \ R : m \notin Held(q)
    /\ \A m \in Row \cap Row' : \/ View(m)' = View(m)
                                \/ m \in overlapped'
                                \/ \A q \in Req : m \notin Held(q)
    /\ overlapped \subseteq overlapped' /\ revived \subseteq revived'
    /\ abandoned \subseteq abandoned'

LEMMA CallStep ==
    ASSUME CallInv, NEW R \in SUBSET Req, used \subseteq used',
           req' \in [Req -> Requests], \A q \in Req \ R : req'[q] = req[q],
           \A r \in R : /\ Held(r)' \subseteq used'
                        /\ req'[r].ids \subseteq used' /\ req'[r].rest \subseteq used'
    PROVE  CallInv'
<1>1. ASSUME NEW q \in Req
      PROVE  /\ Held(q)' \subseteq used'
             /\ req'[q].ids \subseteq used' /\ req'[q].rest \subseteq used'
  <2>1. CASE q \in R BY Zenon, <2>1
  <2>2. CASE q \notin R BY Zenon, <2>2 DEF CallInv, Held
  <2>3. QED BY Zenon, <2>1, <2>2
<1>2. QED BY Zenon, <1>1 DEF CallInv

LEMMA ShapeStep ==
    ASSUME ShapeInv, NEW R \in SUBSET Req, Moves(R),
           \A r \in R : \A m \in Held(r)' :
               m \in Held(r) \/ m \in Row \/ \A q \in Req \ {r} : m \notin Held(q),
           \A r \in R : ShapeOf(r)'
    PROVE  ShapeInv'
<1> SUFFICES ASSUME NEW q \in Req, q \notin R PROVE ShapeOf(q)'
    BY Zenon DEF ShapeInv
<1>1. req'[q] = req[q] BY Zenon DEF Moves
<1>2. ShapeOf(q) BY Zenon DEF ShapeInv
<1>3. ASSUME At(q, "save"), NEW m \in Held(q)
      PROVE  m \notin Row' /\ \A p \in Req : m \in Held(p)' => p = q
  <2>1. m \notin Row /\ \A p \in Req : m \in Held(p) => p = q
      BY Zenon, <1>2, <1>3 DEF ShapeOf
  <2>2. m \notin Row' BY Zenon, <2>1, <1>3 DEF Moves
  <2>3. ASSUME NEW p \in Req, m \in Held(p)', p # q PROVE FALSE
    <3>1. CASE p \in R BY Zenon, <1>3, <2>1, <2>3, <3>1
    <3>2. CASE p \notin R
      <4>1. m \in Held(p) BY Zenon, <2>3, <3>2 DEF Moves, Held
      <4>2. QED BY Zenon, <2>1, <2>3, <4>1
    <3>3. QED BY Zenon, <3>1, <3>2
  <2>4. QED BY Zenon, <2>2, <2>3
<1>4. Held(q)' = Held(q) BY Zenon, <1>1 DEF Held
<1>5. req'[q].at \in {"save", "store"} => \A m, k \in Held(q)' : m = k
  <2>1. req[q].at \in {"save", "store"} => \A m, k \in Held(q) : m = k
      BY <1>2 DEF ShapeOf
  <2>2. QED BY <1>1, <1>4, <2>1
<1>6. At(q, "refresh")' => \A m, k \in req'[q].ids : m = k
    BY Zenon, <1>1, <1>2 DEF ShapeOf, At
<1>7. At(q, "save")' => \A m \in Held(q)' :
        /\ m \notin Row' /\ req'[q].put[m] = 0
        /\ \A p \in Req : m \in Held(p)' => p = q
  <2>1. At(q, "save") => \A m \in Held(q) : req[q].put[m] = 0
      BY Zenon, <1>2 DEF ShapeOf
  <2>2. QED BY Zenon, <1>1, <1>3, <1>4, <2>1 DEF At
<1>8. req'[q].at \notin {"save", "store", "hydrate"} => Held(q)' = {}
    BY Zenon, <1>1, <1>2, <1>4 DEF ShapeOf
<1>9. QED BY Zenon, <1>5, <1>6, <1>7, <1>8 DEF ShapeOf

LEMMA HeldStep ==
    ASSUME HeldInv, NEW R \in SUBSET Req, Moves(R), \A r \in R : HeldOf(r)'
    PROVE  HeldInv'
<1> SUFFICES ASSUME NEW q \in Req, q \notin R PROVE HeldOf(q)'
    BY Zenon DEF HeldInv
<1>1. req'[q] = req[q] BY Zenon DEF Moves
<1>2. Held(q)' = Held(q) BY Zenon, <1>1 DEF Held
<1> SUFFICES ASSUME req[q].at \in {"store", "hydrate"}, NEW m \in Held(q), m \in Row'
             PROVE  req[q].put[m] = View(m)' \/ m \in overlapped' \union revived'
    BY Zenon, <1>1, <1>2 DEF HeldOf
<1>3. m \in Row BY Zenon DEF Moves
<1>4. req[q].put[m] = View(m) \/ m \in overlapped \union revived
    BY Zenon, <1>3 DEF HeldInv, HeldOf
<1>5. QED BY Zenon, <1>3, <1>4 DEF Moves

LEMMA PendingIsBy == \A m : Pending(m) <=> \E r \in Req : PendingBy(r, m)
    BY Zenon DEF Pending, PendingBy, Held

(* A message stays fresh, or becomes so, or someone is about to see to it. *)
LEMMA FreshStep ==
    ASSUME FreshUnlessOverlapped, NEW R \in SUBSET Req, Moves(R),
           \A m \in order' \cap Row' :
               \/ hash'[m] \in {None, View(m)'}
               \/ \E r \in R : PendingBy(r, m)'
               \/ m \in overlapped' \union abandoned' \union revived'
               \/ /\ m \in order \cap Row
                  /\ hash'[m] = hash[m] /\ View(m)' = View(m)
                  /\ \A r \in R : ~PendingBy(r, m)
    PROVE  FreshUnlessOverlapped'
<1> SUFFICES ASSUME NEW m \in order' \cap Row',
                    m \in order \cap Row, hash'[m] = hash[m], View(m)' = View(m),
                    \A r \in R : ~PendingBy(r, m)
             PROVE  \/ hash'[m] \in {None, View(m)'}
                    \/ Pending(m)'
                    \/ m \in overlapped' \union abandoned' \union revived'
  <2>1. \A m \in order' \cap Row' : (\E r \in R : PendingBy(r, m)') => Pending(m)'
      BY Zenon DEF Pending, PendingBy, Held, At
  <2>2. QED BY Zenon, <2>1 DEF FreshUnlessOverlapped
<1>1. \/ hash[m] \in {None, View(m)}
      \/ Pending(m)
      \/ m \in overlapped \union abandoned \union revived
    BY Zenon DEF FreshUnlessOverlapped
<1>2. CASE Pending(m)
  <2>1. PICK q \in Req : PendingBy(q, m) BY Zenon, <1>2, PendingIsBy
  <2>2. req'[q] = req[q] BY Zenon, <2>1 DEF Moves
  <2>3. Pending(m)' BY Zenon, <2>1, <2>2 DEF PendingBy, Pending, Held, At
  <2>4. QED BY Zenon, <2>3
<1>3. QED BY Zenon, <1>1, <1>2 DEF Moves

(* What is covered stays covered when nothing leaves the copy.             *)
LEMMA CoverStep ==
    ASSUME TypeInv, NEW R \in SUBSET Req, Moves(R), order \subseteq order',
           IsFiniteSet(order'), \A r \in R : At(r, "store") => \A m \in Held(r) : Covered(m)'
    PROVE  \A m \in Msg : (Covered(m) => Covered(m)') /\ (Outdated(m) => Outdated(m)')
<1> SUFFICES ASSUME NEW m \in Msg
             PROVE  (Covered(m) => Covered(m)') /\ (Outdated(m) => Outdated(m)')
    BY Zenon
<1>1. Outdated(m) => Outdated(m)'
  <2> DEFINE A == {k \in order : k > m}
             B == {k \in order' : k > m}
  <2>1. IsFiniteSet(B) /\ A \in SUBSET B BY Zenon, FS_Subset
  <2>2. /\ Cardinality(A) <= Cardinality(B)
        /\ Cardinality(A) \in Nat /\ Cardinality(B) \in Nat
      BY Zenon, <2>1, FS_Subset, FS_CardinalityType
  <2>3. HotLimit \in Nat BY LimitAssumption
  <2> HIDE DEF A, B
  <2>4. Cardinality(A) >= HotLimit => Cardinality(B) >= HotLimit BY <2>2, <2>3
  <2>5. QED BY Zenon, <2>4 DEF Outdated, A, B
<1>2. ASSUME Unstored(m) PROVE Covered(m)'
  <2>1. PICK q \in Req : At(q, "store") /\ m \in Held(q) BY Zenon, <1>2 DEF Unstored
  <2>2. CASE q \in R BY Zenon, <2>1, <2>2
  <2>3. CASE q \notin R
    <3>1. req'[q] = req[q] BY Zenon, <2>3 DEF Moves
    <3>2. QED BY Zenon, <2>1, <3>1 DEF Covered, Unstored, At, Held
  <2>4. QED BY Zenon, <2>2, <2>3
<1>3. QED BY Zenon, <1>1, <1>2 DEF Covered, Moves

LEMMA GapStep ==
    ASSUME TypeInv, GapInv, NEW R \in SUBSET Req, Moves(R),
           straddled' = straddled, backfilled \subseteq backfilled',
           \A m \in Msg : (Covered(m) => Covered(m)') /\ (Outdated(m) => Outdated(m)'),
           \A m \in Roots' \ Roots : Covered(m)',
           \A x \in order' \ order :
               x \notin backfilled' \union straddled => CoveredFrom(x)',
           \A r \in R : GapOf(r)'
    PROVE  GapInv'
<1>1. Roots \subseteq Msg BY Zenon DEF Roots, Row
<1>2. \A x : CoveredFrom(x) => CoveredFrom(x)' BY Zenon, <1>1 DEF CoveredFrom
<1>3. \A x \in order' \ (backfilled' \union straddled') : CoveredFrom(x)'
    BY Zenon, <1>2 DEF GapInv
<1>4. ASSUME NEW q \in Req, q \notin R PROVE GapOf(q)'
  <2>1. req'[q] = req[q] BY Zenon, <1>4 DEF Moves
  <2>2. Held(q)' = Held(q) BY Zenon, <2>1 DEF Held
  <2>3. GapOf(q) BY Zenon DEF GapInv
  <2>4. req[q].ids \subseteq Msg BY Zenon DEF TypeInv, CallInv, RowInv
  <2>5. ASSUME NEW m \in Roots', Covered(m) \/ m \notin Roots PROVE Covered(m)'
      BY Zenon, <1>1, <2>5
  <2>6. QED BY Zenon, <1>2, <2>1, <2>2, <2>3, <2>4, <2>5 DEF GapOf, At
<1>5. QED BY Zenon, <1>3, <1>4 DEF GapInv
-----------------------------------------------------------------------------
(* Two kinds of steps.  First those that leave the rows and the sorted set *)
(* alone and at most clear payloads: what the request r awaited, it still  *)
(* awaits, or abandons, or finds cleared, and what it loads is current.    *)

LEMMA OrderFinite ==
    ASSUME TypeInv
    PROVE  IsFiniteSet(order) /\ order \subseteq Msg /\ Msg \subseteq Int
<1>1. order \subseteq used /\ used \subseteq Msg /\ IsFiniteSet(used)
    BY Zenon DEF TypeInv, CopyInv, RowInv
<1>2. Msg \subseteq Int BY Zenon, MsgAssumption
<1>3. QED BY Zenon, <1>1, <1>2, FS_Subset

LEMMA QuietStep ==
    ASSUME HistoryInv, NEW r \in Req,
           UNCHANGED <<version, deleted, changes, used, order,
                       overlapped, revived, backfilled, straddled>>,
           abandoned \subseteq abandoned',
           hash' \in [Msg -> Payloads \union {None}],
           \A m \in Msg : hash'[m] \in {hash[m], None},
           req' \in [Req -> Requests], \A q \in Req \ {r} : req'[q] = req[q],
           req'[r].at \notin {"save", "store"},
           req'[r].ids \subseteq used, req'[r].rest \subseteq used,
           At(r, "refresh")' => \A m, k \in req'[r].ids : m = k,
           At(r, "zrem")' => \A m \in req'[r].ids : Outdated(m),
           Held(r)' \subseteq Row, ~At(r, "hydrate")' => Held(r)' = {},
           \A m \in Held(r)' : req'[r].put[m] = View(m),
           \A x \in Held(r)', m \in Roots : m > x => m \in Held(r)',
           \A m \in Row : PendingBy(r, m)
               => PendingBy(r, m)' \/ m \in abandoned' \/ hash'[m] = None,
           At(r, "store") => Held(r) \subseteq abandoned'
    PROVE  HistoryInv'
<1> DEFINE R == {r}
<1>1. R \in SUBSET Req BY Zenon
<1>2. TypeInv /\ ShapeInv /\ HeldInv /\ FreshUnlessOverlapped /\ GapInv
    BY Zenon DEF HistoryInv
<1>3. Row' = Row BY Zenon DEF Row
<1>4. \A m : View(m)' = View(m) BY Zenon DEF View
<1>5. Moves(R) BY Zenon, <1>3, <1>4 DEF Moves
<1>6. TypeInv'
  <2>1. RowInv' BY Zenon, <1>2, <1>3 DEF TypeInv, RowInv
  <2>2. CopyInv' BY Zenon, <1>2 DEF TypeInv, CopyInv
  <2>3. Held(r)' \subseteq used BY Zenon, <1>2 DEF TypeInv, RowInv
  <2>4. CallInv' BY Zenon, <1>1, <1>2, <2>3, CallStep DEF TypeInv
  <2>5. QED BY Zenon, <2>1, <2>2, <2>4 DEF TypeInv
<1>7. ShapeInv'
  <2>1. ShapeOf(r)' BY DEF ShapeOf, At
  <2>2. QED BY Zenon, <1>1, <1>2, <1>5, <2>1, ShapeStep
<1>8. HeldInv'
  <2>1. HeldOf(r)' BY Zenon, <1>4 DEF HeldOf
  <2>2. QED BY Zenon, <1>1, <1>2, <1>5, <2>1, HeldStep
<1>9. FreshUnlessOverlapped'
  <2>1. ASSUME NEW m \in order' \cap Row'
        PROVE  \/ hash'[m] \in {None, View(m)'}
               \/ \E q \in R : PendingBy(q, m)'
               \/ m \in overlapped' \union abandoned' \union revived'
               \/ /\ m \in order \cap Row
                  /\ hash'[m] = hash[m] /\ View(m)' = View(m)
                  /\ \A q \in R : ~PendingBy(q, m)
    <3>1. m \in order \cap Row /\ m \in Msg BY Zenon, <1>3 DEF Row
    <3>2. QED BY Zenon, <1>4, <3>1
  <2> HIDE DEF R
  <2>2. QED BY Zenon, <1>1, <1>2, <1>5, <2>1, FreshStep
<1>10. GapInv'
  <2>1. Roots' = Roots BY Zenon, <1>3 DEF Roots
  <2>2. \A m \in Msg : (Covered(m) => Covered(m)') /\ (Outdated(m) => Outdated(m)')
    <3>1. \A q \in R : At(q, "store") => \A m \in Held(q) : Covered(m)'
        BY Zenon DEF Covered
    <3>2. IsFiniteSet(order') /\ order \subseteq order' BY Zenon, <1>2, OrderFinite
    <3> HIDE DEF R
    <3>3. QED BY Zenon, <1>1, <1>2, <1>5, <3>1, <3>2, CoverStep
  <2>3. GapOf(r)'
    <3>1. \A m : Outdated(m)' <=> Outdated(m) BY Zenon DEF Outdated
    <3>2. At(r, "zrem")' => \A m \in req'[r].ids : Outdated(m)' BY Zenon, <3>1
    <3>3. \A x \in Held(r)', m \in Roots' : m > x => m \in Held(r)' BY Zenon, <2>1
    <3>4. req'[r].at \notin {"save", "store"} OBVIOUS
    <3>5. QED BY Zenon, <3>2, <3>3, <3>4 DEF GapOf
  <2>4. \A q \in R : GapOf(q)' BY Zenon, <2>3
  <2> HIDE DEF R
  <2>5. QED BY Zenon, <1>1, <1>2, <1>5, <2>1, <2>2, <2>4, GapStep
<1>11. QED BY Zenon, <1>6, <1>7, <1>8, <1>9, <1>10 DEF HistoryInv

(* Then those of an idle request that rewrites the rows C and will see to  *)
(* each of them: an edit, a deletion, a moderation.                        *)
LEMMA ChangeStep ==
    ASSUME HistoryInv, NEW r \in Req, At(r, "idle"), NEW C \in SUBSET Row,
           RowInv', Row' = Row, UNCHANGED <<used, hash, order>>,
           \A m \in Row \ C : View(m)' = View(m),
           \A m \in C : Holding(m) # {} => m \in overlapped',
           overlapped \subseteq overlapped', revived \subseteq revived',
           UNCHANGED <<abandoned, backfilled, straddled>>,
           req' \in [Req -> Requests], \A q \in Req \ {r} : req'[q] = req[q],
           req'[r].at \in {"store", "refresh"},
           req'[r].ids \subseteq used, req'[r].rest \subseteq used,
           Held(r)' \subseteq Row,
           At(r, "refresh")' => Held(r)' = {} /\ \A m, k \in req'[r].ids : m = k,
           At(r, "store")' => \A m, k \in Held(r)' :
               /\ m = k /\ req'[r].put[m] # 0
               /\ req'[r].put[m] = View(m)' \/ m \in revived',
           \A m \in C : PendingBy(r, m)'
    PROVE  HistoryInv'
<1> DEFINE R == {r}
<1>1. R \in SUBSET Req BY Zenon
<1>2. TypeInv /\ ShapeInv /\ HeldInv /\ FreshUnlessOverlapped /\ GapInv
    BY Zenon DEF HistoryInv
<1>3. \A m : Holding(m) = {} => \A q \in Req : m \notin Held(q)
    BY Zenon DEF Holding, Held
<1>4. Moves(R) BY Zenon, <1>3 DEF Moves
<1>5. TypeInv'
  <2>1. CopyInv' BY Zenon, <1>2 DEF TypeInv, CopyInv
  <2>2. Held(r)' \subseteq used BY Zenon, <1>2 DEF TypeInv, RowInv
  <2>3. CallInv' BY Zenon, <1>1, <1>2, <2>2, CallStep DEF TypeInv
  <2>4. QED BY Zenon, <2>1, <2>3 DEF TypeInv
<1>6. req[r].at = "idle" /\ ~At(r, "store") BY DEF At
<1>7. ~At(r, "save")' /\ ~At(r, "zrem")' /\ ~At(r, "hydrate")' BY DEF At
<1>8. req'[r].at # "store" => req'[r].at \notin {"save", "store", "hydrate"} OBVIOUS
<1>9. ShapeInv'
  <2>1. req'[r].at \in {"save", "store"} => \A m, k \in Held(r)' : m = k
      BY Zenon, <1>8 DEF At
  <2>2. req'[r].at \notin {"save", "store", "hydrate"} => Held(r)' = {} BY DEF At
  <2>3. ShapeOf(r)' BY Zenon, <1>7, <2>1, <2>2 DEF ShapeOf
  <2>4. QED BY Zenon, <1>1, <1>2, <1>4, <2>3, ShapeStep
<1>10. HeldInv'
  <2>1. req'[r].at \in {"store", "hydrate"} => At(r, "store")' BY <1>7 DEF At
  <2>2. HeldOf(r)' BY Zenon, <2>1 DEF HeldOf
  <2>3. QED BY Zenon, <1>1, <1>2, <1>4, <2>2, HeldStep
<1>11. FreshUnlessOverlapped'
  <2>1. \A m : ~PendingBy(r, m) BY <1>6 DEF PendingBy, At
  <2>2. ASSUME NEW m \in order' \cap Row'
        PROVE  \/ hash'[m] \in {None, View(m)'}
               \/ \E q \in R : PendingBy(q, m)'
               \/ m \in overlapped' \union abandoned' \union revived'
               \/ /\ m \in order \cap Row
                  /\ hash'[m] = hash[m] /\ View(m)' = View(m)
                  /\ \A q \in R : ~PendingBy(q, m)
    <3>1. CASE m \in C BY Zenon, <3>1
    <3>2. CASE m \notin C
      <4>1. m \in order \cap Row /\ hash'[m] = hash[m] BY Zenon
      <4>2. View(m)' = View(m) BY Zenon, <3>2, <4>1
      <4>3. \A q \in R : ~PendingBy(q, m) BY ZenonT(30), <2>1
      <4>4. QED BY Zenon, <4>1, <4>2, <4>3
    <3>3. QED BY Zenon, <3>1, <3>2
  <2> HIDE DEF R
  <2>3. QED BY Zenon, <1>1, <1>2, <1>4, <2>2, FreshStep
<1>12. GapInv'
  <2>1. Roots' = Roots BY Zenon DEF Roots
  <2>2. \A m \in Msg : (Covered(m) => Covered(m)') /\ (Outdated(m) => Outdated(m)')
    <3>1. \A q \in R : At(q, "store") => \A m \in Held(q) : Covered(m)'
        BY Zenon, <1>6
    <3>2. IsFiniteSet(order') /\ order \subseteq order' BY Zenon, <1>2, OrderFinite
    <3> HIDE DEF R
    <3>3. QED BY Zenon, <1>1, <1>2, <1>4, <3>1, <3>2, CoverStep
  <2>3. req'[r].at \in {"save", "store"} => \A m \in Held(r)' : req'[r].put[m] # 0
      BY Zenon, <1>8 DEF At
  <2>4. GapOf(r)' BY Zenon, <1>7, <2>3 DEF GapOf
  <2>5. \A q \in R : GapOf(q)' BY Zenon, <2>4
  <2> HIDE DEF R
  <2>6. QED BY Zenon, <1>1, <1>2, <1>4, <2>1, <2>2, <2>5, GapStep
<1>13. QED BY Zenon, <1>5, <1>9, <1>10, <1>11, <1>12 DEF HistoryInv
-----------------------------------------------------------------------------
(* The actions, one lemma each.                                            *)

LEMMA Typed ==
    ASSUME HistoryInv
    PROVE  /\ TypeInv /\ RowInv /\ CopyInv /\ CallInv
           /\ req \in [Req -> Requests] /\ hash \in [Msg -> Payloads \union {None}]
           /\ order \subseteq used /\ used \subseteq Msg /\ Row \subseteq used
           /\ IsFiniteSet(used)
    BY Zenon DEF HistoryInv, TypeInv, RowInv, CopyInv, CallInv

LEMMA NotAwaiting ==
    ASSUME NEW r, req[r].at \notin {"store", "refresh", "delHash", "delOrder"}
    PROVE  ~At(r, "store") /\ \A m : ~PendingBy(r, m)
    BY DEF PendingBy, At

(* What lies below the window has a window of newer messages.              *)
LEMMA BelowWindow ==
    ASSUME TypeInv, NEW m \in order, m \notin Newest(order, HotLimit)
    PROVE  Outdated(m)
<1> DEFINE A == {k \in order : k > m}
<1>1. IsFiniteSet(A) BY Zenon, OrderFinite, FS_Subset
<1>2. Cardinality(A) \in Nat BY Zenon, <1>1, FS_CardinalityType
<1>3. ~(Cardinality(A) < HotLimit) BY Zenon DEF Newest
<1>4. HotLimit \in Nat BY LimitAssumption
<1> HIDE DEF A
<1>5. Cardinality(A) >= HotLimit BY <1>2, <1>3, <1>4
<1>6. QED BY <1>5 DEF Outdated, A

(* A request that goes on without payloads, or ends.                       *)
LEMMA GoBare ==
    ASSUME HistoryInv, NEW r \in Req, NEW at \in Labels, NEW ids \in SUBSET used,
           Go(r, at, Idle.put, ids)
    PROVE  /\ req' \in [Req -> Requests] /\ \A q \in Req \ {r} : req'[q] = req[q]
           /\ Held(r)' = {} /\ req'[r].at = at
           /\ req'[r].ids = ids /\ req'[r].ids \subseteq used
           /\ req'[r].rest = req[r].rest /\ req'[r].rest \subseteq used
<1>1. req \in [Req -> Requests] /\ Idle.put \in Puts /\ ids \in SUBSET Msg
    BY Zenon, Typed, IdlePut
<1>2. /\ req' \in [Req -> Requests] /\ \A q \in Req \ {r} : req'[q] = req[q]
      /\ req'[r].at = at /\ req'[r].put = Idle.put
      /\ req'[r].ids = ids /\ req'[r].rest = req[r].rest
    BY ZenonT(30), <1>1, GoStep
<1>3. req[r].rest \subseteq used BY Zenon, Typed DEF CallInv
<1>4. QED BY Zenon, <1>2, <1>3, IdlePut DEF Held

LEMMA DoneBare ==
    ASSUME HistoryInv, NEW r \in Req, Done(r)
    PROVE  /\ req' \in [Req -> Requests] /\ \A q \in Req \ {r} : req'[q] = req[q]
           /\ Held(r)' = {} /\ req'[r].at = "idle"
           /\ req'[r].ids = {} /\ req'[r].rest = {}
    BY Zenon, Typed, DoneStep, IdlePut DEF Held

LEMMA TrimIdsInv ==
    ASSUME HistoryInv, NEW r \in Req, TrimIds(r)
    PROVE  HistoryInv'
<1> DEFINE old == order \ Newest(order, HotLimit)
<1>1. /\ At(r, "trim") /\ (Done(r) \/ Go(r, "zrem", Idle.put, old))
      /\ UNCHANGED <<version, deleted, changes, used, hash, order,
                     overlapped, abandoned, revived, backfilled, straddled>>
    BY Zenon DEF TrimIds, rows, copy, marks
<1>2. req[r].at \notin {"store", "refresh", "delHash", "delOrder"} BY <1>1 DEF At
<1>3. old \in SUBSET used /\ \A m \in old : Outdated(m) BY Zenon, Typed, BelowWindow
<1>4. "zrem" \in Labels BY DEF Labels
<1> HIDE DEF old
<1>5. CASE Done(r)
  <2>1. req'[r].at \notin {"save", "store"} /\ ~At(r, "refresh")' /\ ~At(r, "zrem")'
      BY <1>5, DoneBare DEF At
  <2>2. QED
      BY Zenon, <1>1, <1>2, <1>5, <2>1, DoneBare, QuietStep, Typed, NotAwaiting
<1>6. CASE Go(r, "zrem", Idle.put, old)
  <2>1. /\ req' \in [Req -> Requests] /\ \A q \in Req \ {r} : req'[q] = req[q]
        /\ Held(r)' = {} /\ req'[r].at = "zrem"
        /\ req'[r].ids = old /\ req'[r].ids \subseteq used /\ req'[r].rest \subseteq used
      BY Zenon, <1>3, <1>4, <1>6, GoBare
  <2>2. req'[r].at \notin {"save", "store"} /\ ~At(r, "refresh")' BY <2>1 DEF At
  <2>3. QED BY Zenon, <1>1, <1>2, <1>3, <2>1, <2>2, QuietStep, Typed, NotAwaiting
<1>7. QED BY Zenon, <1>1, <1>5, <1>6

LEMMA TrimHashInv ==
    ASSUME HistoryInv, NEW r \in Req, TrimHash(r)
    PROVE  HistoryInv'
<1>1. /\ At(r, "hdel") /\ Done(r)
      /\ hash' = [m \in Msg |-> IF m \in req[r].ids THEN None ELSE hash[m]]
      /\ UNCHANGED <<version, deleted, changes, used, order,
                     overlapped, abandoned, revived, backfilled, straddled>>
    BY Zenon DEF TrimHash, rows, marks
<1>2. req[r].at \notin {"store", "refresh", "delHash", "delOrder"} BY <1>1 DEF At
<1>3. /\ hash' \in [Msg -> Payloads \union {None}]
      /\ \A m \in Msg : hash'[m] \in {hash[m], None}
    BY <1>1, Typed
<1>4. req'[r].at \notin {"save", "store"} /\ ~At(r, "refresh")' /\ ~At(r, "zrem")'
    BY <1>1, DoneBare DEF At
<1>5. QED BY Zenon, <1>1, <1>2, <1>3, <1>4, DoneBare, QuietStep, NotAwaiting

LEMMA ReadInv ==
    ASSUME HistoryInv, NEW r \in Req, LoadHotHistory(r) \/ ReadPayloads(r)
    PROVE  HistoryInv'
<1>1. /\ req[r].at \in {"idle", "hmget"}
      /\ \/ Done(r)
         \/ \E at \in {"load", "hmget"}, ids \in SUBSET order : Go(r, at, Idle.put, ids)
      /\ UNCHANGED <<version, deleted, changes, used, hash, order,
                     overlapped, abandoned, revived, backfilled, straddled>>
  <2>1. CASE LoadHotHistory(r)
    <3>1. Newest(order, HotLimit) \in SUBSET order BY Zenon, NewestSubset
    <3>2. QED BY <2>1, <3>1 DEF LoadHotHistory, At, rows, copy, marks
  <2>2. CASE ReadPayloads(r) BY <2>2 DEF ReadPayloads, At, rows, copy, marks
  <2>3. QED BY Zenon, <2>1, <2>2
<1>2. req[r].at \notin {"store", "refresh", "delHash", "delOrder"} BY <1>1
<1>3. /\ req' \in [Req -> Requests] /\ \A q \in Req \ {r} : req'[q] = req[q]
      /\ Held(r)' = {} /\ req'[r].at \in {"idle", "load", "hmget"}
      /\ req'[r].ids \subseteq used /\ req'[r].rest \subseteq used
  <2>1. CASE Done(r) BY Zenon, <2>1, DoneBare
  <2>2. ASSUME NEW at \in {"load", "hmget"}, NEW ids \in SUBSET order,
               Go(r, at, Idle.put, ids)
        PROVE  <1>3!:
    <3>1. at \in Labels /\ at \in {"idle", "load", "hmget"} BY DEF Labels
    <3>2. ids \in SUBSET used BY Zenon, Typed
    <3>3. QED BY Zenon, <2>2, <3>1, <3>2, GoBare
  <2>3. QED BY Zenon, <1>1, <2>1, <2>2
<1>4. req'[r].at \notin {"save", "store"} /\ ~At(r, "refresh")' /\ ~At(r, "zrem")'
    BY <1>3 DEF At
<1>5. QED BY Zenon, <1>1, <1>2, <1>3, <1>4, QuietStep, Typed, NotAwaiting

(* load_messages returns the newest roots, so all that is newer than one   *)
(* of them.                                                                *)
LEMMA HydrateSliceUpward ==
    ASSUME TypeInv
    PROVE  /\ HydrateSlice \subseteq Row
           /\ \A x \in HydrateSlice, m \in Roots : m > x => m \in HydrateSlice
<1> DEFINE S == Row \ Reply
           N == Newest(S, HotLimit + 1)
<1>1. HydrateSlice = Newest(N, HotLimit) BY DEF HydrateSlice, LoadMessages
<1>2. HotLimit \in Nat /\ HotLimit + 1 \in Nat BY LimitAssumption
<1>3. Row \subseteq used /\ IsFiniteSet(used) /\ Row \subseteq Msg
    BY Zenon DEF TypeInv, RowInv, Row
<1>4. N \subseteq S BY Zenon, NewestSubset
<1>5. S \subseteq Int /\ N \subseteq Int BY Zenon, <1>3, <1>4, MsgAssumption
<1>6. IsFiniteSet(S) /\ IsFiniteSet(N) BY Zenon, <1>3, <1>4, FS_Subset
<1>7. HydrateSlice \subseteq N BY Zenon, <1>1, NewestSubset
<1>8. ASSUME NEW x \in HydrateSlice, NEW m \in Roots, m > x PROVE m \in HydrateSlice
  <2>1. m \in S /\ x \in N BY Zenon, <1>7 DEF Roots
  <2> HIDE DEF S, N
  <2>2. m \in Newest(S, HotLimit + 1)
      BY Zenon, <1>2, <1>5, <1>6, <1>8, <2>1, NewestUpward DEF N
  <2>3. m \in N /\ x \in Newest(N, HotLimit) BY Zenon, <1>1, <2>2 DEF N
  <2>4. QED BY Zenon, <1>1, <1>2, <1>5, <1>6, <1>8, <2>3, NewestUpward
<1>9. QED BY Zenon, <1>4, <1>7, <1>8

LEMMA LoadRowsInv ==
    ASSUME HistoryInv, NEW r \in Req, LoadRows(r)
    PROVE  HistoryInv'
<1> DEFINE put == [m \in HydrateSlice |-> View(m)]
<1>1. /\ At(r, "load") /\ (Done(r) \/ Go(r, "hydrate", put, {}))
      /\ UNCHANGED <<version, deleted, changes, used, hash, order,
                     overlapped, abandoned, revived, backfilled, straddled>>
    BY Zenon DEF LoadRows, rows, copy, marks
<1>2. req[r].at \notin {"store", "refresh", "delHash", "delOrder"} BY <1>1 DEF At
<1>3. CASE Done(r)
  <2>1. req'[r].at \notin {"save", "store"} /\ ~At(r, "refresh")' /\ ~At(r, "zrem")'
      BY <1>3, DoneBare DEF At
  <2>2. QED
      BY Zenon, <1>1, <1>2, <1>3, <2>1, DoneBare, QuietStep, Typed, NotAwaiting
<1>4. CASE Go(r, "hydrate", put, {})
  <2>1. HydrateSlice \subseteq Row BY Zenon, Typed, HydrateSliceUpward
  <2>2. ASSUME NEW m \in HydrateSlice PROVE View(m) \in Payloads
    <3>1. m \in Msg /\ version[m] # None BY Zenon, <2>1 DEF Row
    <3>2. version[m] \in 0..MaxChanges BY <3>1, Typed DEF RowInv
    <3>3. QED BY Zenon, <3>2 DEF View, Payloads
  <2>3. put \in [HydrateSlice -> Payloads] BY Zenon, <2>2
  <2>4. put \in Puts BY Zenon, <2>1, <2>3, PutOf DEF Row
  <2>5. DOMAIN put = HydrateSlice /\ \A m \in HydrateSlice : put[m] = View(m)
      BY Zenon
  <2> HIDE DEF put
  <2>6. "hydrate" \in Labels /\ {} \in SUBSET Msg BY DEF Labels
  <2>7. /\ req' \in [Req -> Requests] /\ \A q \in Req \ {r} : req'[q] = req[q]
        /\ req'[r].at = "hydrate" /\ req'[r].put = put
        /\ req'[r].ids = {} /\ req'[r].rest = req[r].rest
      BY ZenonT(30), <1>4, <2>4, <2>6, Typed, GoStep
  <2>8. Held(r)' = HydrateSlice BY Zenon, <2>5, <2>7 DEF Held
  <2>9. req'[r].at \notin {"save", "store"} /\ ~At(r, "refresh")' /\ ~At(r, "zrem")'
      BY <2>7 DEF At
  <2>10. req[r].rest \subseteq used BY Zenon, Typed DEF CallInv
  <2>11. \A x \in Held(r)', m \in Roots : m > x => m \in Held(r)'
      BY Zenon, <2>8, Typed, HydrateSliceUpward
  <2>12. \A m \in Held(r)' : req'[r].put[m] = View(m) BY Zenon, <2>5, <2>7, <2>8
  <2>13. At(r, "hydrate")' /\ Held(r)' \subseteq Row /\ req'[r].ids \subseteq used
         /\ req'[r].rest \subseteq used
      BY Zenon, <2>1, <2>7, <2>8, <2>10 DEF At
  <2>14. QED
      BY Zenon, <1>1, <1>2, <2>7, <2>9, <2>11, <2>12, <2>13, QuietStep, Typed, NotAwaiting
<1>5. QED BY Zenon, <1>1, <1>3, <1>4

(* The refresh goes on with the rows that are left.                        *)
LEMMA RefreshNextStep ==
    ASSUME HistoryInv, NEW r \in Req, Held(r) = {}, RefreshNext(r)
    PROVE  /\ req' \in [Req -> Requests] /\ \A q \in Req \ {r} : req'[q] = req[q]
           /\ Held(r)' = {} /\ req'[r].at \in {"idle", "refresh"}
           /\ req'[r].ids \subseteq used /\ req'[r].rest \subseteq used
           /\ \A m, k \in req'[r].ids : m = k
           /\ \A m \in req[r].rest : PendingBy(r, m)'
<1>1. CASE req[r].rest = {}
  <2>1. Done(r) BY Zenon, <1>1 DEF RefreshNext
  <2>2. QED BY Zenon, <1>1, <2>1, DoneBare
<1>2. CASE req[r].rest # {}
  <2>1. RefreshFirst(r, req[r].rest) BY Zenon, <1>2 DEF RefreshNext
  <2>2. req[r].rest \subseteq used BY Zenon, Typed DEF CallInv
  <2>3. req[r].rest \subseteq Msg /\ IsFiniteSet(req[r].rest)
      BY Zenon, <2>2, Typed, FS_Subset
  <2>4. /\ req' \in [Req -> Requests]
        /\ \A q \in Req \ {r} : req'[q] = req[q]
        /\ req'[r].at = "refresh" /\ req'[r].put = req[r].put
        /\ \A m, k \in req'[r].ids : m = k
        /\ req'[r].ids \union req'[r].rest = req[r].rest
      BY Zenon, <2>1, <2>3, Typed, RefreshFirstStep
  <2>5. Held(r)' = {} BY Zenon, <2>4 DEF Held
  <2>6. req'[r].ids \subseteq used /\ req'[r].rest \subseteq used
      BY Zenon, <2>2, <2>4
  <2>7. \A m \in req[r].rest : PendingBy(r, m)' BY Zenon, <2>4 DEF PendingBy
  <2>8. QED BY Zenon, <2>4, <2>5, <2>6, <2>7
<1>3. QED BY Zenon, <1>1, <1>2

LEMMA RefreshModeratedInv ==
    ASSUME HistoryInv, NEW r \in Req, NEW ok \in BOOLEAN, RefreshModerated(r, ok)
    PROVE  HistoryInv'
<1>1. /\ req[r].at = "refresh"
      /\ UNCHANGED <<version, deleted, changes, used, hash, order,
                     overlapped, revived, backfilled, straddled>>
      /\ abandoned' = IF ok THEN abandoned ELSE abandoned \union req[r].ids
    BY Zenon DEF RefreshModerated, rows, copy, At
<1>0. abandoned \subseteq abandoned' /\ (ok \/ req[r].ids \subseteq abandoned')
    BY Zenon, <1>1
<1>2. ~At(r, "store") /\ req[r].at \notin {"save", "store", "hydrate"}
    BY <1>1 DEF At
<1>3. ShapeOf(r) BY Zenon DEF HistoryInv, ShapeInv
<1>4. Held(r) = {} /\ \A m, k \in req[r].ids : m = k
    BY Zenon, <1>1, <1>2, <1>3 DEF ShapeOf, At
<1>5. \A m : PendingBy(r, m) => m \in req[r].ids \union req[r].rest
    BY Zenon, <1>2 DEF PendingBy
<1>6. CASE ok /\ req[r].ids \subseteq Row
  <2>1. Go(r, "delHash", Idle.put, req[r].ids) BY Zenon, <1>6 DEF RefreshModerated
  <2>2. "delHash" \in Labels BY DEF Labels
  <2>3. req[r].ids \in SUBSET used BY Zenon, Typed DEF CallInv
  <2>4. /\ req' \in [Req -> Requests] /\ \A q \in Req \ {r} : req'[q] = req[q]
        /\ Held(r)' = {} /\ req'[r].at = "delHash"
        /\ req'[r].ids = req[r].ids /\ req'[r].ids \subseteq used
        /\ req'[r].rest = req[r].rest /\ req'[r].rest \subseteq used
      BY Zenon, <2>1, <2>2, <2>3, GoBare
  <2>5. req'[r].at \notin {"save", "store"} /\ ~At(r, "refresh")' /\ ~At(r, "zrem")'
      BY <2>4 DEF At
  <2>6. \A m : PendingBy(r, m) => PendingBy(r, m)'
      BY Zenon, <1>5, <2>4 DEF PendingBy
  <2>7. QED BY Zenon, <1>0, <1>1, <1>2, <2>4, <2>5, <2>6, QuietStep, Typed
<1>7. CASE ~ok \/ ~(req[r].ids \subseteq Row)
  <2>1. RefreshNext(r) BY Zenon, <1>7 DEF RefreshModerated
  <2>2. /\ req' \in [Req -> Requests] /\ \A q \in Req \ {r} : req'[q] = req[q]
        /\ Held(r)' = {} /\ req'[r].at \in {"idle", "refresh"}
        /\ req'[r].ids \subseteq used /\ req'[r].rest \subseteq used
        /\ \A m, k \in req'[r].ids : m = k
        /\ \A m \in req[r].rest : PendingBy(r, m)'
      BY Zenon, <1>4, <2>1, RefreshNextStep
  <2>3. req'[r].at \notin {"save", "store"} /\ ~At(r, "zrem")' BY <2>2 DEF At
  <2>4. \A m \in Row : PendingBy(r, m) => PendingBy(r, m)' \/ m \in abandoned'
      BY Zenon, <1>0, <1>4, <1>5, <1>7, <2>2
  <2>5. QED BY Zenon, <1>0, <1>1, <1>2, <2>2, <2>3, <2>4, QuietStep, Typed
<1>8. QED BY Zenon, <1>6, <1>7

LEMMA DelHashInv ==
    ASSUME HistoryInv, NEW r \in Req, NEW ok \in BOOLEAN, DelHash(r, ok)
    PROVE  HistoryInv'
<1> DEFINE ids == IF ok THEN {} ELSE req[r].ids
<1>1. /\ req[r].at = "delHash" /\ Go(r, "delOrder", Idle.put, ids)
      /\ hash' = IF ok THEN [m \in Msg |-> None] ELSE hash
      /\ UNCHANGED <<version, deleted, changes, used, order,
                     overlapped, abandoned, revived, backfilled, straddled>>
    BY Zenon DEF DelHash, rows, marks, At
<1>2. ~At(r, "store") BY <1>1 DEF At
<1>3. \A m : PendingBy(r, m) => m \in req[r].ids \union req[r].rest
    BY Zenon, <1>2 DEF PendingBy
<1>4. /\ hash' \in [Msg -> Payloads \union {None}]
      /\ \A m \in Msg : hash'[m] \in {hash[m], None}
      /\ ok => \A m \in Msg : hash'[m] = None
    BY <1>1, Typed
<1>5. ids \in SUBSET used /\ (~ok => ids = req[r].ids) BY Zenon, Typed DEF CallInv
<1>6. "delOrder" \in Labels BY DEF Labels
<1> HIDE DEF ids
<1>7. /\ req' \in [Req -> Requests] /\ \A q \in Req \ {r} : req'[q] = req[q]
      /\ Held(r)' = {} /\ req'[r].at = "delOrder"
      /\ req'[r].ids = ids /\ req'[r].ids \subseteq used
      /\ req'[r].rest = req[r].rest /\ req'[r].rest \subseteq used
    BY Zenon, <1>1, <1>5, <1>6, GoBare
<1>8. req'[r].at \notin {"save", "store"} /\ ~At(r, "refresh")' /\ ~At(r, "zrem")'
    BY <1>7 DEF At
<1>9. \A m \in Row : PendingBy(r, m) => PendingBy(r, m)' \/ hash'[m] = None
  <2>1. ~ok => \A m : PendingBy(r, m) => PendingBy(r, m)'
      BY Zenon, <1>3, <1>5, <1>7 DEF PendingBy
  <2>2. QED BY Zenon, <1>4, <2>1 DEF Row
<1>10. QED BY Zenon, <1>1, <1>2, <1>4, <1>7, <1>8, <1>9, QuietStep

LEMMA FailInv ==
    ASSUME HistoryInv, NEW r \in Req, Fail(r)
    PROVE  HistoryInv'
<1>1. /\ Done(r)
      /\ UNCHANGED <<version, deleted, changes, used, hash, order,
                     overlapped, revived, backfilled, straddled>>
    BY Zenon DEF Fail, rows, copy
<1>2. /\ abandoned \subseteq abandoned'
      /\ req[r].at \in {"store", "refresh", "delHash", "delOrder"}
            => Held(r) \union req[r].ids \union req[r].rest \subseteq abandoned'
    BY DEF Fail, Held
<1>3. At(r, "store") => Held(r) \subseteq abandoned' BY <1>2 DEF At
<1>4. \A m : PendingBy(r, m) => m \in abandoned' BY <1>2 DEF PendingBy, At
<1>5. req'[r].at \notin {"save", "store"} /\ ~At(r, "refresh")' /\ ~At(r, "zrem")'
    BY <1>1, DoneBare DEF At
<1>6. QED BY Zenon, <1>1, <1>2, <1>3, <1>4, <1>5, DoneBare, QuietStep, Typed

(* Marking rows as deleted, or not deleted, keeps the rows well-formed.    *)
LEMMA MarkRows ==
    ASSUME RowInv, Change, UNCHANGED <<version, used>>, deleted' \subseteq Row
    PROVE  RowInv' /\ Row' = Row
<1>1. Row' = Row BY Zenon DEF Row
<1>2. changes' \in 0..MaxChanges /\ changes' = changes + 1 /\ changes \in Int
    BY LimitAssumption DEF Change, RowInv
<1>3. ASSUME NEW m \in Row PROVE version[m] <= changes'
  <2>1. version[m] \in 0..MaxChanges /\ version[m] <= changes
      BY PayloadAssumption DEF RowInv, Row
  <2>2. QED BY <1>2, <2>1, LimitAssumption
<1>4. QED BY Zenon, <1>1, <1>2, <1>3 DEF RowInv

LEMMA RowIsMsg == \A m \in Row : m \in Msg BY Zenon DEF Row

LEMMA EditMessageInv ==
    ASSUME HistoryInv, NEW r \in Req, NEW m \in Msg, EditMessage(r, m)
    PROVE  HistoryInv'
<1> DEFINE p == version[m] + 1
<1>1. /\ At(r, "idle") /\ m \in Row /\ Change
      /\ version' = [version EXCEPT ![m] = p]
      /\ revived' = IF m \in deleted THEN revived \union {m} ELSE revived
      /\ overlapped' = IF Holding(m) # {} THEN overlapped \union {m} ELSE overlapped
      /\ Go(r, "store", Single(m, p), {})
      /\ UNCHANGED <<deleted, used, hash, order, abandoned, backfilled, straddled>>
    BY Zenon DEF EditMessage, copy
<1>2. /\ version[m] \in 0..MaxChanges /\ version[m] <= changes
      /\ changes \in 0..MaxChanges /\ changes < MaxChanges /\ changes' = changes + 1
      /\ MaxChanges \in Nat
    BY <1>1, Typed, LimitAssumption DEF RowInv, Row, Change
<1>3. p \in 0..MaxChanges /\ p <= changes' /\ p # 0 /\ changes' \in 0..MaxChanges
    BY <1>2
<1>4. p # None BY <1>3, PayloadAssumption
<1> HIDE DEF p
<1>5. version'[m] = p /\ \A k \in Msg : k # m => version'[k] = version[k]
    BY <1>1, Typed DEF RowInv
<1>6. Row' = Row BY Zenon, <1>1, <1>4, <1>5 DEF Row
<1>7. RowInv'
  <2>1. version' \in [Msg -> (0..MaxChanges) \union {None}]
      BY <1>1, <1>3, Typed DEF RowInv
  <2>2. ASSUME NEW k \in Row PROVE version'[k] <= changes'
    <3>1. CASE k = m BY Zenon, <1>3, <1>5, <3>1
    <3>2. CASE k # m
      <4>1. version'[k] = version[k] BY Zenon, <1>5, <3>2, RowIsMsg
      <4>2. version[k] \in 0..MaxChanges /\ version[k] <= changes
          BY PayloadAssumption, Typed DEF RowInv, Row
      <4>3. QED BY <1>2, <4>1, <4>2
    <3>3. QED BY Zenon, <3>1, <3>2
  <2>3. QED BY Zenon, <1>1, <1>3, <1>6, <2>1, <2>2, Typed DEF RowInv
<1>8. p \in Payloads BY Zenon, <1>3 DEF Payloads
<1>9. /\ Single(m, p) \in Puts /\ DOMAIN Single(m, p) = {m} /\ Single(m, p)[m] = p
    BY Zenon, <1>8, SinglePut
<1>10. "store" \in Labels /\ {} \in SUBSET Msg BY DEF Labels
<1>11. /\ req' \in [Req -> Requests] /\ \A q \in Req \ {r} : req'[q] = req[q]
       /\ req'[r].at = "store" /\ req'[r].put = Single(m, p)
       /\ req'[r].ids = {} /\ req'[r].rest = req[r].rest
    BY Zenon, <1>1, <1>9, <1>10, Typed, GoStep
<1>12. Held(r)' = {m} /\ req'[r].put[m] = p BY Zenon, <1>9, <1>11 DEF Held
<1>13. /\ req'[r].at \in {"store", "refresh"} /\ ~At(r, "refresh")' /\ At(r, "store")'
    BY <1>11 DEF At
<1>14. \A k \in Row \ {m} : View(k)' = View(k)
    BY Zenon, <1>1, <1>5, RowIsMsg DEF View
<1>15. req'[r].put[m] = View(m)' \/ m \in revived'
    BY Zenon, <1>1, <1>5, <1>12 DEF View
<1>16. req[r].rest \subseteq used BY Zenon, Typed DEF CallInv
<1>17. {m} \in SUBSET Row BY Zenon, <1>1
<1>18. PendingBy(r, m)' BY Zenon, <1>12, <1>13 DEF PendingBy
<1>19. /\ Holding(m) # {} => m \in overlapped'
       /\ overlapped \subseteq overlapped' /\ revived \subseteq revived'
    BY Zenon, <1>1
<1>20. QED
    BY Zenon, <1>1, <1>3, <1>6, <1>7, <1>11, <1>12, <1>13, <1>14, <1>15, <1>16, <1>17,
       <1>18, <1>19, ChangeStep

LEMMA DeleteMessageInv ==
    ASSUME HistoryInv, NEW r \in Req, NEW m \in Msg, DeleteMessage(r, m)
    PROVE  HistoryInv'
<1>1. /\ At(r, "idle") /\ m \in Row /\ Change
      /\ deleted' = deleted \union {m}
      /\ overlapped' = IF Holding(m) # {} THEN overlapped \union {m} ELSE overlapped
      /\ Go(r, "store", Single(m, Hidden), {})
      /\ UNCHANGED <<version, used, hash, order, abandoned, revived, backfilled,
                     straddled>>
    BY Zenon DEF DeleteMessage, copy
<1>2. deleted' \subseteq Row BY Zenon, <1>1, Typed DEF RowInv
<1>3. RowInv' /\ Row' = Row BY Zenon, <1>1, <1>2, Typed, MarkRows
<1>4. Hidden \in Payloads /\ Hidden # 0 BY PayloadAssumption DEF Payloads
<1>5. /\ Single(m, Hidden) \in Puts /\ DOMAIN Single(m, Hidden) = {m}
      /\ Single(m, Hidden)[m] = Hidden
    BY Zenon, <1>4, SinglePut
<1>6. "store" \in Labels /\ {} \in SUBSET Msg BY DEF Labels
<1>7. /\ req' \in [Req -> Requests] /\ \A q \in Req \ {r} : req'[q] = req[q]
      /\ req'[r].at = "store" /\ req'[r].put = Single(m, Hidden)
      /\ req'[r].ids = {} /\ req'[r].rest = req[r].rest
    BY Zenon, <1>1, <1>5, <1>6, Typed, GoStep
<1>8. Held(r)' = {m} /\ req'[r].put[m] = Hidden BY Zenon, <1>5, <1>7 DEF Held
<1>9. /\ req'[r].at \in {"store", "refresh"} /\ ~At(r, "refresh")' /\ At(r, "store")'
    BY <1>7 DEF At
<1>10. View(m)' = Hidden /\ \A k \in Row \ {m} : View(k)' = View(k)
    BY Zenon, <1>1 DEF View
<1>11. req[r].rest \subseteq used BY Zenon, Typed DEF CallInv
<1>12. {m} \in SUBSET Row BY Zenon, <1>1
<1>13. PendingBy(r, m)' BY Zenon, <1>8, <1>9 DEF PendingBy
<1>14. (Holding(m) # {} => m \in overlapped') /\ overlapped \subseteq overlapped'
    BY Zenon, <1>1
<1>15. QED
    BY Zenon, <1>1, <1>3, <1>4, <1>7, <1>8, <1>9, <1>10, <1>11, <1>12, <1>13, <1>14,
       ChangeStep

LEMMA ModerateMessageInv ==
    ASSUME HistoryInv, NEW r \in Req, NEW m \in Msg, NEW delete \in BOOLEAN,
           ModerateMessage(r, m, delete)
    PROVE  HistoryInv'
<1>1. /\ At(r, "idle") /\ m \in Row /\ Change
      /\ deleted' = IF delete THEN deleted \union {m} ELSE deleted \ {m}
      /\ overlapped' = IF Holding(m) # {} THEN overlapped \union {m} ELSE overlapped
      /\ Go(r, "refresh", Idle.put, {m})
      /\ UNCHANGED <<version, used, hash, order, abandoned, revived, backfilled,
                     straddled>>
    BY Zenon DEF ModerateMessage, copy
<1>2. deleted' \subseteq Row BY Zenon, <1>1, Typed DEF RowInv
<1>3. RowInv' /\ Row' = Row BY Zenon, <1>1, <1>2, Typed, MarkRows
<1>4. "refresh" \in Labels BY DEF Labels
<1>5. {m} \in SUBSET Row /\ {m} \in SUBSET used BY Zenon, <1>1, Typed
<1>6. /\ req' \in [Req -> Requests] /\ \A q \in Req \ {r} : req'[q] = req[q]
      /\ Held(r)' = {} /\ req'[r].at = "refresh"
      /\ req'[r].ids = {m} /\ req'[r].ids \subseteq used /\ req'[r].rest \subseteq used
    BY Zenon, <1>1, <1>4, <1>5, GoBare
<1>7. /\ req'[r].at \in {"store", "refresh"} /\ ~At(r, "store")' BY <1>6 DEF At
<1>8. \A k \in Row \ {m} : View(k)' = View(k) BY Zenon, <1>1 DEF View
<1>9. PendingBy(r, m)' BY Zenon, <1>6 DEF PendingBy
<1>10. (Holding(m) # {} => m \in overlapped') /\ overlapped \subseteq overlapped'
    BY Zenon, <1>1
<1>11. QED
    BY Zenon, <1>1, <1>3, <1>5, <1>6, <1>7, <1>8, <1>9, <1>10, ChangeStep

LEMMA BulkModerateInv ==
    ASSUME HistoryInv, NEW r \in Req, NEW S \in SUBSET Msg, NEW delete \in BOOLEAN,
           BulkModerate(r, S, delete)
    PROVE  HistoryInv'
<1> DEFINE C == {m \in S \cap Row : (m \in deleted) # delete}
<1>1. /\ At(r, "idle") /\ Change
      /\ deleted' = IF delete THEN deleted \union C ELSE deleted \ C
      /\ overlapped' = overlapped \union {m \in C : Holding(m) # {}}
      /\ RefreshFirst(r, C)
      /\ UNCHANGED <<version, used, hash, order, abandoned, revived, backfilled,
                     straddled>>
    BY Zenon DEF BulkModerate, copy
<1>2. C \in SUBSET Row BY Zenon
<1> HIDE DEF C
<1>3. C \subseteq used /\ C \subseteq Msg /\ IsFiniteSet(C)
    BY Zenon, <1>2, Typed, FS_Subset
<1>4. deleted' \subseteq Row BY Zenon, <1>1, <1>2, Typed DEF RowInv
<1>5. RowInv' /\ Row' = Row BY Zenon, <1>1, <1>4, Typed, MarkRows
<1>6. /\ req' \in [Req -> Requests]
      /\ \A q \in Req \ {r} : req'[q] = req[q]
      /\ req'[r].at = "refresh" /\ req'[r].put = req[r].put
      /\ \A m, k \in req'[r].ids : m = k
      /\ req'[r].ids \union req'[r].rest = C
    BY Zenon, <1>1, <1>3, Typed, RefreshFirstStep
<1>7. req[r].at \notin {"save", "store", "hydrate"} BY <1>1 DEF At
<1>8. Held(r)' = {}
    BY Zenon, <1>6, <1>7 DEF Held, HistoryInv, ShapeInv, ShapeOf
<1>9. req'[r].ids \subseteq used /\ req'[r].rest \subseteq used BY Zenon, <1>3, <1>6
<1>10. /\ req'[r].at \in {"store", "refresh"} /\ ~At(r, "store")' BY <1>6 DEF At
<1>11. \A k \in Row \ C : View(k)' = View(k) BY Zenon, <1>1 DEF View
<1>12. \A m \in C : PendingBy(r, m)' BY Zenon, <1>6 DEF PendingBy
<1>13. /\ \A m \in C : Holding(m) # {} => m \in overlapped'
       /\ overlapped \subseteq overlapped'
    BY Zenon, <1>1
<1>14. QED
    BY Zenon, <1>1, <1>2, <1>5, <1>6, <1>8, <1>9, <1>10, <1>11, <1>12, <1>13, ChangeStep

LEMMA Parts ==
    HistoryInv <=> TypeInv /\ ShapeInv /\ HeldInv /\ FreshUnlessOverlapped /\ GapInv
    BY Zenon DEF HistoryInv

(* A new message gets a place after all others.                            *)
LEMMA CreateStep ==
    ASSUME HistoryInv, NEW m \in Msg, Create(m)
    PROVE  /\ m \notin used /\ used' = used \union {m}
           /\ used' \subseteq Msg /\ IsFiniteSet(used')
           /\ \A k \in Row : ~(k > m)
           /\ m \notin Row /\ m \notin order /\ \A q \in Req : m \notin Held(q)
<1>1. used = {k \in Msg : k < m} /\ used' = used \union {m} BY Zenon DEF Create
<1>2. Msg \subseteq Int BY Zenon, MsgAssumption
<1>3. m \notin used BY <1>1, <1>2
<1>4. \A k \in used : ~(k > m) BY <1>1, <1>2
<1>5. used' \subseteq Msg /\ IsFiniteSet(used') BY Zenon, <1>1, Typed, FS_AddElement
<1>6. QED BY Zenon, <1>1, <1>3, <1>4, <1>5, Typed DEF CallInv

(* A sent message is newer than all rows: nothing can be missing above it. *)
LEMMA SendMessageInv ==
    ASSUME HistoryInv, NEW r \in Req, NEW m \in Msg, SendMessage(r, m)
    PROVE  HistoryInv'
<1> DEFINE R == {r}
<1>1. /\ At(r, "idle") /\ Create(m) /\ Go(r, "save", Single(m, 0), {})
      /\ UNCHANGED <<version, deleted, changes, hash, order,
                     overlapped, abandoned, revived, backfilled, straddled>>
    BY Zenon DEF SendMessage, copy, marks
<1>2. /\ m \notin used /\ used' = used \union {m}
      /\ used' \subseteq Msg /\ IsFiniteSet(used')
      /\ \A k \in Row : ~(k > m)
      /\ m \notin Row /\ \A q \in Req : m \notin Held(q)
    BY Zenon, <1>1, CreateStep
<1>3. 0 \in Payloads BY LimitAssumption DEF Payloads
<1>4. /\ Single(m, 0) \in Puts /\ DOMAIN Single(m, 0) = {m} /\ Single(m, 0)[m] = 0
    BY Zenon, <1>3, SinglePut
<1>5. "save" \in Labels /\ {} \in SUBSET Msg BY DEF Labels
<1>6. /\ req' \in [Req -> Requests] /\ \A q \in Req \ {r} : req'[q] = req[q]
      /\ req'[r].at = "save" /\ req'[r].put = Single(m, 0)
      /\ req'[r].ids = {} /\ req'[r].rest = req[r].rest
    BY ZenonT(30), <1>1, <1>4, <1>5, Typed, GoStep
<1>7. Held(r)' = {m} /\ req'[r].put[m] = 0 BY Zenon, <1>4, <1>6 DEF Held
<1>8. \A q \in Req \ {r} : Held(q)' = Held(q) BY Zenon, <1>6 DEF Held
<1>9. Row' = Row /\ \A k : View(k)' = View(k) BY Zenon, <1>1 DEF Row, View
<1>10. R \in SUBSET Req /\ Moves(R) BY Zenon, <1>1, <1>6, <1>9 DEF Moves
<1>11. req[r].at \notin {"store", "refresh", "delHash", "delOrder"} BY <1>1 DEF At
<1>12. TypeInv'
  <2>1. RowInv' BY Zenon, <1>1, <1>2, <1>9, Typed DEF RowInv
  <2>2. CopyInv' BY Zenon, <1>1, <1>2, Typed DEF CopyInv
  <2>3. req[r].rest \subseteq used BY Zenon, Typed DEF CallInv
  <2>4. CallInv' BY Zenon, <1>2, <1>6, <1>7, <1>10, <2>3, Typed, CallStep
  <2>5. QED BY Zenon, <2>1, <2>2, <2>4 DEF TypeInv
<1>13. ShapeInv'
  <2>1. req'[r].at \in {"save", "store", "hydrate"} /\ ~At(r, "refresh")'
      BY <1>6 DEF At
  <2>2. \A q \in Req : m \in Held(q)' => q = r BY Zenon, <1>2, <1>8
  <2>3. ShapeOf(r)' BY Zenon, <1>2, <1>7, <1>9, <2>1, <2>2 DEF ShapeOf
  <2>4. /\ \A q \in R : ShapeOf(q)'
        /\ \A q \in R : \A k \in Held(q)' : \A p \in Req \ {q} : k \notin Held(p)
      BY Zenon, <1>2, <1>7, <2>3
  <2> HIDE DEF R
  <2>5. QED BY Zenon, <1>10, <2>4, Parts, ShapeStep
<1>14. HeldInv'
  <2>1. req'[r].at \notin {"store", "hydrate"} BY <1>6
  <2>2. HeldOf(r)' BY Zenon, <2>1 DEF HeldOf
  <2>3. QED BY Zenon, <1>10, <2>2, Parts, HeldStep
<1>15. FreshUnlessOverlapped'
  <2>1. \A k \in order' \cap Row' :
            /\ k \in order \cap Row /\ hash'[k] = hash[k] /\ View(k)' = View(k)
            /\ \A q \in R : ~PendingBy(q, k)
      BY Zenon, <1>1, <1>9, <1>11, NotAwaiting
  <2> HIDE DEF R
  <2>2. QED BY Zenon, <1>10, <2>1, Parts, FreshStep
<1>16. GapInv'
  <2>1. Roots' = Roots BY Zenon, <1>9 DEF Roots
  <2>2. \A q \in R : ~At(q, "store") BY Zenon, <1>11, NotAwaiting
  <2>3. ~At(r, "hydrate")' /\ ~At(r, "zrem")' BY <1>6 DEF At
  <2>4. GapOf(r)' BY Zenon, <1>2, <1>7, <2>1, <2>3 DEF GapOf, CoveredFrom, Roots
  <2>5. \A q \in R : GapOf(q)' BY Zenon, <2>4
  <2> HIDE DEF R
  <2>6. \A k \in Msg : (Covered(k) => Covered(k)') /\ (Outdated(k) => Outdated(k)')
      BY Zenon, <1>1, <1>10, <2>2, Typed, OrderFinite, CoverStep
  <2>7. QED BY Zenon, <1>1, <1>10, <2>1, <2>5, <2>6, Typed, Parts, GapStep
<1>17. QED BY Zenon, <1>12, <1>13, <1>14, <1>15, <1>16 DEF HistoryInv

(* Saving makes a new root; until it is stored its sender accounts for it. *)
LEMMA SaveMessageInv ==
    ASSUME HistoryInv, NEW r \in Req, SaveMessage(r)
    PROVE  HistoryInv'
<1> DEFINE R == {r}
<1>1. /\ At(r, "save")
      /\ version' = [m \in Msg |-> IF m \in Held(r) THEN 0 ELSE version[m]]
      /\ Go(r, "store", req[r].put, {})
      /\ UNCHANGED <<deleted, changes, used, hash, order,
                     overlapped, abandoned, revived, backfilled, straddled>>
    BY Zenon DEF SaveMessage, copy, marks, Held
<1>2. /\ \A m, k \in Held(r) : m = k
      /\ \A m \in Held(r) : /\ m \notin Row /\ req[r].put[m] = 0
                            /\ \A q \in Req : m \in Held(q) => q = r
  <2>1. req[r].at \in {"save", "store"} BY <1>1 DEF At
  <2>2. ShapeOf(r) BY Zenon, Parts DEF ShapeInv
  <2>3. QED BY Zenon, <1>1, <2>1, <2>2 DEF ShapeOf
<1>3. Held(r) \subseteq Msg /\ Held(r) \subseteq used BY Zenon, Typed DEF CallInv
<1>4. "store" \in Labels /\ {} \in SUBSET Msg /\ req[r].put \in Puts
    BY Typed DEF Labels, Requests
<1>5. /\ req' \in [Req -> Requests] /\ \A q \in Req \ {r} : req'[q] = req[q]
      /\ req'[r].at = "store" /\ req'[r].put = req[r].put
      /\ req'[r].ids = {} /\ req'[r].rest = req[r].rest
    BY ZenonT(30), <1>1, <1>4, Typed, GoStep
<1>6. Held(r)' = Held(r) BY Zenon, <1>5 DEF Held
<1>7. /\ version' \in [Msg -> (0..MaxChanges) \union {None}]
      /\ \A m \in Held(r) : version'[m] = 0
      /\ \A m \in Msg \ Held(r) : version'[m] = version[m]
    BY <1>1, <1>3, Typed, LimitAssumption DEF RowInv
<1>8. 0 # None BY PayloadAssumption
<1>9. Row' = Row \union Held(r) BY Zenon, <1>3, <1>7, <1>8 DEF Row
<1>10. \A m \in Row : m \notin Held(r) /\ View(m)' = View(m)
    BY Zenon, <1>1, <1>2, <1>7, RowIsMsg DEF View
<1>11. R \in SUBSET Req /\ Moves(R)
    BY Zenon, <1>1, <1>2, <1>5, <1>9, <1>10 DEF Moves
<1>12. req[r].at \notin {"store", "refresh", "delHash", "delOrder"} BY <1>1 DEF At
<1>13. TypeInv'
  <2>1. ASSUME NEW m \in Row' PROVE version'[m] <= changes
    <3>1. changes \in Nat BY Typed, LimitAssumption DEF RowInv
    <3>2. CASE m \in Held(r) BY <1>7, <3>1, <3>2
    <3>3. CASE m \notin Held(r)
      <4>1. m \in Row /\ version'[m] = version[m]
          BY Zenon, <1>7, <1>9, <3>3, RowIsMsg
      <4>2. QED BY Zenon, <4>1, Typed DEF RowInv
    <3>4. QED BY Zenon, <3>2, <3>3
  <2>2. RowInv' BY Zenon, <1>1, <1>3, <1>7, <1>9, <2>1, Typed DEF RowInv
  <2>3. CopyInv' BY Zenon, <1>1, Typed DEF CopyInv
  <2>4. req[r].rest \subseteq used BY Zenon, Typed DEF CallInv
  <2>5. /\ \A q \in R : /\ Held(q)' \subseteq used' /\ req'[q].ids \subseteq used'
                        /\ req'[q].rest \subseteq used'
        /\ \A q \in Req \ R : req'[q] = req[q]
      BY Zenon, <1>1, <1>3, <1>5, <1>6, <2>4
  <2>6. CallInv'
    <3> HIDE DEF R
    <3>1. QED BY Zenon, <1>1, <1>5, <1>11, <2>5, Typed, CallStep
  <2>7. QED BY Zenon, <2>2, <2>3, <2>6 DEF TypeInv
<1>14. ~At(r, "save")' /\ ~At(r, "refresh")' /\ ~At(r, "hydrate")' /\ ~At(r, "zrem")'
       /\ At(r, "store")' /\ req'[r].at \in {"save", "store", "hydrate"}
    BY <1>5 DEF At
<1>15. ShapeInv'
  <2>1. ShapeOf(r)' BY Zenon, <1>2, <1>6, <1>14 DEF ShapeOf
  <2>2. QED BY Zenon, <1>6, <1>11, <2>1, Parts, ShapeStep
<1>16. HeldInv'
  <2>1. deleted \subseteq Row BY Zenon, Typed DEF RowInv
  <2>2. \A m \in Held(r) : req'[r].put[m] = 0 /\ View(m)' = 0
      BY Zenon, <1>1, <1>2, <1>5, <1>7, <2>1 DEF View
  <2>3. HeldOf(r)' BY Zenon, <1>6, <2>2 DEF HeldOf
  <2>4. QED BY Zenon, <1>11, <2>3, Parts, HeldStep
<1>17. FreshUnlessOverlapped'
  <2>1. ASSUME NEW k \in order' \cap Row'
        PROVE  \/ \E q \in R : PendingBy(q, k)'
               \/ /\ k \in order \cap Row
                  /\ hash'[k] = hash[k] /\ View(k)' = View(k)
                  /\ \A q \in R : ~PendingBy(q, k)
    <3>1. CASE k \in Held(r) BY Zenon, <1>6, <1>14, <3>1 DEF PendingBy
    <3>2. CASE k \notin Held(r)
        BY Zenon, <1>1, <1>9, <1>10, <1>12, <3>2, NotAwaiting
    <3>3. QED BY Zenon, <3>1, <3>2
  <2> HIDE DEF R
  <2>2. QED BY Zenon, <1>11, <2>1, Parts, FreshStep
<1>18. GapInv'
  <2>1. \A m \in Roots' \ Roots : Covered(m)'
      BY Zenon, <1>6, <1>9, <1>14 DEF Roots, Covered, Unstored
  <2>2. \A q \in R : ~At(q, "store") BY Zenon, <1>12, NotAwaiting
  <2>3. \A k \in Msg : (Covered(k) => Covered(k)') /\ (Outdated(k) => Outdated(k)')
    <3> HIDE DEF R
    <3>1. QED BY Zenon, <1>1, <1>11, <2>2, Typed, OrderFinite, CoverStep
  <2>4. GapOf(r)'
    <3>1. req[r].at \in {"save", "store"} BY <1>1 DEF At
    <3>2. \A x \in Held(r) \ straddled : req[r].put[x] = 0 => CoveredFrom(x)
        BY Zenon, <3>1, Parts DEF GapInv, GapOf
    <3>3. \A x : CoveredFrom(x) => CoveredFrom(x)'
        BY Zenon, <2>1, <2>3, RowIsMsg DEF CoveredFrom, Roots
    <3>4. QED BY Zenon, <1>1, <1>5, <1>6, <1>14, <3>2, <3>3 DEF GapOf
  <2>5. \A q \in R : GapOf(q)' BY Zenon, <2>4
  <2> HIDE DEF R
  <2>6. QED BY Zenon, <1>1, <1>11, <2>1, <2>3, <2>5, Typed, Parts, GapStep
<1>19. QED BY Zenon, <1>13, <1>15, <1>16, <1>17, <1>18 DEF HistoryInv

(* A system message has a row but never a place in the copy.               *)
LEMMA PublishSystemMessageInv ==
    ASSUME HistoryInv, NEW m \in Msg, PublishSystemMessage(m)
    PROVE  HistoryInv'
<1>1. /\ m \in System /\ Create(m) /\ version' = [version EXCEPT ![m] = 0]
      /\ UNCHANGED <<deleted, changes, hash, order, req,
                     overlapped, abandoned, revived, backfilled, straddled>>
    BY Zenon DEF PublishSystemMessage, copy, marks
<1>2. /\ m \notin used /\ used' = used \union {m}
      /\ used' \subseteq Msg /\ IsFiniteSet(used')
      /\ m \notin Row /\ m \notin order /\ \A q \in Req : m \notin Held(q)
    BY Zenon, <1>1, CreateStep
<1>3. /\ version' \in [Msg -> (0..MaxChanges) \union {None}]
      /\ version'[m] = 0 /\ \A k \in Msg \ {m} : version'[k] = version[k]
    BY <1>1, Typed, LimitAssumption DEF RowInv
<1>4. 0 # None BY PayloadAssumption
<1>5. Row' = Row \union {m} BY Zenon, <1>3, <1>4 DEF Row
<1>6. \A k \in Row : k # m /\ version'[k] = version[k] /\ View(k)' = View(k)
    BY Zenon, <1>1, <1>2, <1>3, RowIsMsg DEF View
<1>7. {} \in SUBSET Req /\ Moves({}) BY Zenon, <1>1, <1>2, <1>5, <1>6 DEF Moves
<1>8. TypeInv'
  <2>1. changes \in Nat BY Typed, LimitAssumption DEF RowInv
  <2>2. version'[m] <= changes BY <1>3, <2>1
  <2>3. \A k \in Row' : version'[k] <= changes
      BY Zenon, <1>5, <1>6, <2>2, Typed DEF RowInv
  <2>4. RowInv' BY Zenon, <1>1, <1>2, <1>3, <1>5, <2>3, Typed DEF RowInv
  <2>5. CopyInv' BY Zenon, <1>1, <1>2, Typed DEF CopyInv
  <2>6. CallInv' BY Zenon, <1>1, <1>2, Typed DEF CallInv, Held
  <2>7. QED BY Zenon, <2>4, <2>5, <2>6 DEF TypeInv
<1>9. ShapeInv' BY Zenon, <1>7, Parts, ShapeStep
<1>10. HeldInv' BY Zenon, <1>7, Parts, HeldStep
<1>11. FreshUnlessOverlapped'
  <2>1. \A k \in order' \cap Row' :
            k \in order \cap Row /\ hash'[k] = hash[k] /\ View(k)' = View(k)
      BY Zenon, <1>1, <1>2, <1>5, <1>6
  <2>2. QED BY Zenon, <1>7, <2>1, Parts, FreshStep
<1>12. GapInv'
  <2>1. Roots' = Roots BY Zenon, <1>1, <1>5 DEF Roots
  <2>2. \A k \in Msg : (Covered(k) => Covered(k)') /\ (Outdated(k) => Outdated(k)')
      BY Zenon, <1>1, <1>7, Typed, OrderFinite, CoverStep
  <2>3. QED BY Zenon, <1>1, <1>7, <2>1, <2>2, Typed, Parts, GapStep
<1>13. QED BY Zenon, <1>8, <1>9, <1>10, <1>11, <1>12 DEF HistoryInv

(* Pruning only takes rows away.                                           *)
LEMMA PruneExpiredInv ==
    ASSUME HistoryInv, NEW m \in Msg, PruneExpired(m)
    PROVE  HistoryInv'
<1> DEFINE E == {k \in Row : k <= m}
<1>1. /\ Change /\ deleted' = deleted \ E
      /\ version' = [k \in Msg |-> IF k \in E THEN None ELSE version[k]]
      /\ UNCHANGED <<used, hash, order, req,
                     overlapped, abandoned, revived, backfilled, straddled>>
    BY Zenon DEF PruneExpired, copy, marks
<1>2. E \subseteq Row BY Zenon
<1> HIDE DEF E
<1>3. /\ version' \in [Msg -> (0..MaxChanges) \union {None}]
      /\ \A k \in Msg : version'[k] = IF k \in E THEN None ELSE version[k]
    BY <1>1, Typed DEF RowInv
<1>4. Row' = Row \ E BY Zenon, <1>3 DEF Row
<1>5. \A k \in Row' : k \in Row /\ version'[k] = version[k] /\ View(k)' = View(k)
    BY Zenon, <1>1, <1>3, <1>4, RowIsMsg DEF View
<1>6. {} \in SUBSET Req /\ Moves({}) BY Zenon, <1>1, <1>4, <1>5 DEF Moves
<1>7. TypeInv'
  <2>1. /\ changes' \in 0..MaxChanges
        /\ \A k \in Row : version[k] <= changes'
    <3>1. changes \in 0..MaxChanges /\ changes < MaxChanges /\ changes' = changes + 1
        BY Zenon, <1>1, Typed DEF Change, RowInv
    <3>2. changes' \in 0..MaxChanges /\ changes \in Int /\ changes <= changes'
        BY <3>1, LimitAssumption
    <3>3. ASSUME NEW k \in Row PROVE version[k] <= changes'
      <4>1. version[k] \in 0..MaxChanges /\ version[k] <= changes
          BY Zenon, Typed DEF RowInv, Row
      <4>2. QED BY <3>1, <4>1
    <3>4. QED BY Zenon, <3>2, <3>3
  <2>2. \A k \in Row' : version'[k] <= changes' BY Zenon, <1>5, <2>1
  <2>3. RowInv' BY Zenon, <1>1, <1>3, <1>4, <2>1, <2>2, Typed DEF RowInv
  <2>4. CopyInv' BY Zenon, <1>1, Typed DEF CopyInv
  <2>5. CallInv' BY Zenon, <1>1, Typed DEF CallInv, Held
  <2>6. QED BY Zenon, <2>3, <2>4, <2>5 DEF TypeInv
<1>8. ShapeInv' BY Zenon, <1>6, Parts, ShapeStep
<1>9. HeldInv' BY Zenon, <1>6, Parts, HeldStep
<1>10. FreshUnlessOverlapped'
  <2>1. \A k \in order' \cap Row' :
            k \in order \cap Row /\ hash'[k] = hash[k] /\ View(k)' = View(k)
      BY Zenon, <1>1, <1>5
  <2>2. QED BY Zenon, <1>6, <2>1, Parts, FreshStep
<1>11. GapInv'
  <2>1. Roots' \subseteq Roots BY Zenon, <1>4 DEF Roots
  <2>2. \A k \in Msg : (Covered(k) => Covered(k)') /\ (Outdated(k) => Outdated(k)')
      BY Zenon, <1>1, <1>6, Typed, OrderFinite, CoverStep
  <2>3. QED BY Zenon, <1>1, <1>6, <2>1, <2>2, Typed, Parts, GapStep
<1>12. QED BY Zenon, <1>7, <1>8, <1>9, <1>10, <1>11 DEF HistoryInv

(* What is stored is in the copy; an edit of an uncached message is marked *)
(* as backfilled.                                                          *)
LEMMA StoreMessageInv ==
    ASSUME HistoryInv, NEW r \in Req, StoreMessage(r)
    PROVE  HistoryInv'
<1> DEFINE R == {r}
<1>1. PICK m \in Held(r) :
        /\ hash' = [hash EXCEPT ![m] = req[r].put[m]]
        /\ order' = order \union {m}
        /\ backfilled' = IF m \notin order /\ req[r].put[m] # 0
                         THEN backfilled \union {m} ELSE backfilled
    BY Zenon DEF StoreMessage, Held
<1>2. /\ At(r, "store") /\ Go(r, "trim", Idle.put, {})
      /\ UNCHANGED <<version, deleted, changes, used,
                     overlapped, abandoned, revived, straddled>>
    BY Zenon DEF StoreMessage, rows
<1>3. req[r].at \in {"save", "store"} /\ req[r].at \in {"store", "hydrate"}
    BY <1>2 DEF At
<1>4. Held(r) = {m}
  <2>1. ShapeOf(r) BY Zenon, Parts DEF ShapeInv
  <2>2. \A k \in Held(r) : k = m BY Zenon, <1>3, <2>1 DEF ShapeOf
  <2>3. QED BY Zenon, <2>2
<1>5. m \in used /\ m \in Msg /\ req[r].put \in Puts /\ req[r].put[m] \in Payloads
  <2>1. m \in used /\ m \in Msg BY Zenon, Typed DEF CallInv
  <2>2. req[r].put \in Puts BY Typed DEF Requests
  <2>3. QED BY Zenon, <2>1, <2>2, PutTypes DEF Held
<1>6. "trim" \in Labels /\ {} \in SUBSET used BY DEF Labels
<1>7. /\ req' \in [Req -> Requests] /\ \A q \in Req \ {r} : req'[q] = req[q]
      /\ Held(r)' = {} /\ req'[r].at = "trim"
      /\ req'[r].ids \subseteq used /\ req'[r].rest \subseteq used
    BY Zenon, <1>2, <1>6, GoBare
<1>8. Row' = Row /\ \A k : View(k)' = View(k) BY Zenon, <1>2 DEF Row, View
<1>9. R \in SUBSET Req /\ Moves(R) BY Zenon, <1>1, <1>2, <1>7, <1>8 DEF Moves
<1>10. /\ hash' \in [Msg -> Payloads \union {None}]
       /\ hash'[m] = req[r].put[m] /\ \A k \in Msg \ {m} : hash'[k] = hash[k]
    BY <1>1, <1>5, Typed DEF CopyInv
<1>11. req'[r].at \notin {"save", "store", "hydrate", "refresh", "zrem"} BY <1>7
<1>12. ~At(r, "save")' /\ ~At(r, "hydrate")' /\ ~At(r, "zrem")' /\ ~At(r, "refresh")'
       /\ req'[r].at \notin {"save", "store", "hydrate"}
       /\ req'[r].at \notin {"save", "store"} /\ req'[r].at \notin {"store", "hydrate"}
    BY <1>11 DEF At
<1>13. TypeInv'
  <2>1. RowInv' BY Zenon, <1>2, <1>8, Typed DEF RowInv
  <2>2. CopyInv' BY Zenon, <1>1, <1>2, <1>5, <1>10, Typed DEF CopyInv
  <2>3. /\ \A q \in R : /\ Held(q)' \subseteq used' /\ req'[q].ids \subseteq used'
                        /\ req'[q].rest \subseteq used'
        /\ \A q \in Req \ R : req'[q] = req[q]
      BY Zenon, <1>2, <1>7
  <2>4. CallInv'
    <3> HIDE DEF R
    <3>1. QED BY Zenon, <1>2, <1>7, <1>9, <2>3, Typed, CallStep
  <2>5. QED BY Zenon, <2>1, <2>2, <2>4 DEF TypeInv
<1>14. ShapeInv'
  <2>1. ShapeOf(r)' BY Zenon, <1>7, <1>12 DEF ShapeOf
  <2>2. (\A q \in R : ShapeOf(q)') /\ \A q \in R : Held(q)' = {}
      BY Zenon, <1>7, <2>1
  <2> HIDE DEF R
  <2>3. QED BY Zenon, <1>9, <2>2, Parts, ShapeStep
<1>15. HeldInv'
  <2>1. HeldOf(r)' BY Zenon, <1>12 DEF HeldOf
  <2>2. QED BY Zenon, <1>9, <2>1, Parts, HeldStep
<1>16. FreshUnlessOverlapped'
  <2>1. ASSUME NEW k \in order' \cap Row'
        PROVE  \/ hash'[k] \in {None, View(k)'}
               \/ k \in overlapped' \union abandoned' \union revived'
               \/ /\ k \in order \cap Row
                  /\ hash'[k] = hash[k] /\ View(k)' = View(k)
                  /\ \A q \in R : ~PendingBy(q, k)
    <3>1. CASE k = m
      <4>1. req[r].put[m] = View(m) \/ m \in overlapped \union revived
          BY Zenon, <1>3, <1>8, <2>1, <3>1, Parts DEF HeldInv, HeldOf
      <4>2. QED BY Zenon, <1>2, <1>8, <1>10, <3>1, <4>1
    <3>2. CASE k # m
      <4>1. req[r].at \notin {"refresh", "delHash", "delOrder"} BY <1>2 DEF At
      <4>2. ~PendingBy(r, k) BY Zenon, <1>4, <3>2, <4>1 DEF PendingBy
      <4>3. k \in order /\ k \in Row /\ k \in Msg
          BY Zenon, <1>1, <1>8, <2>1, <3>2, RowIsMsg
      <4>4. QED BY Zenon, <1>8, <1>10, <3>2, <4>2, <4>3
    <3>3. QED BY Zenon, <3>1, <3>2
  <2> HIDE DEF R
  <2>2. QED BY Zenon, <1>9, <2>1, Parts, FreshStep
<1>17. GapInv'
  <2>1. Roots' = Roots BY Zenon, <1>8 DEF Roots
  <2>2. \A q \in R : \A k \in Held(q) : Covered(k)' BY Zenon, <1>1, <1>4 DEF Covered
  <2>3. IsFiniteSet(order') BY Zenon, <1>1, Typed, OrderFinite, FS_AddElement
  <2>4. order \subseteq order' /\ backfilled \subseteq backfilled' BY Zenon, <1>1
  <2>5. \A k \in Msg : (Covered(k) => Covered(k)') /\ (Outdated(k) => Outdated(k)')
    <3> HIDE DEF R
    <3>1. QED BY Zenon, <1>9, <2>2, <2>3, <2>4, Typed, CoverStep
  <2>6. ASSUME NEW x \in order' \ order, x \notin backfilled' \union straddled
        PROVE  CoveredFrom(x)'
    <3>1. x = m /\ req[r].put[x] = 0 BY Zenon, <1>1, <2>6
    <3>2. CoveredFrom(x) BY Zenon, <1>3, <2>6, <3>1, Parts DEF GapInv, GapOf
    <3>3. QED BY Zenon, <2>1, <2>5, <3>2, RowIsMsg DEF CoveredFrom, Roots
  <2>7. GapOf(r)' BY Zenon, <1>12 DEF GapOf
  <2>8. \A q \in R : GapOf(q)' BY Zenon, <2>7
  <2> HIDE DEF R
  <2>9. QED
      BY Zenon, <1>2, <1>9, <2>1, <2>4, <2>5, <2>6, <2>8, Typed, Parts, GapStep
<1>18. QED BY Zenon, <1>13, <1>14, <1>15, <1>16, <1>17 DEF HistoryInv

(* A trim removes what has a window of newer messages, unless an           *)
(* invalidation came since it read the ids.                                *)
LEMMA TrimOrderInv ==
    ASSUME HistoryInv, NEW r \in Req, TrimOrder(r)
    PROVE  HistoryInv'
<1> DEFINE R == {r}
<1>1. /\ At(r, "zrem") /\ order' = order \ req[r].ids
      /\ Go(r, "hdel", Idle.put, req[r].ids)
      /\ UNCHANGED <<version, deleted, changes, used, hash,
                     overlapped, abandoned, revived, backfilled, straddled>>
    BY Zenon DEF TrimOrder, rows, marks
<1>2. "hdel" \in Labels /\ req[r].ids \in SUBSET used BY Typed DEF Labels, CallInv
<1>3. /\ req' \in [Req -> Requests] /\ \A q \in Req \ {r} : req'[q] = req[q]
      /\ Held(r)' = {} /\ req'[r].at = "hdel"
      /\ req'[r].ids \subseteq used /\ req'[r].rest \subseteq used
    BY Zenon, <1>1, <1>2, GoBare
<1>4. Row' = Row /\ \A k : View(k)' = View(k) BY Zenon, <1>1 DEF Row, View
<1>5. R \in SUBSET Req /\ Moves(R) BY Zenon, <1>1, <1>3, <1>4 DEF Moves
<1>6. ~At(r, "save")' /\ ~At(r, "hydrate")' /\ ~At(r, "zrem")' /\ ~At(r, "refresh")'
      /\ req'[r].at \notin {"save", "store", "hydrate"}
      /\ req'[r].at \notin {"save", "store"} /\ req'[r].at \notin {"store", "hydrate"}
    BY <1>3 DEF At
<1>7. req[r].at \notin {"store", "refresh", "delHash", "delOrder"} BY <1>1 DEF At
<1>8. TypeInv'
  <2>1. RowInv' BY Zenon, <1>1, <1>4, Typed DEF RowInv
  <2>2. CopyInv' BY Zenon, <1>1, Typed DEF CopyInv
  <2>3. /\ \A q \in R : /\ Held(q)' \subseteq used' /\ req'[q].ids \subseteq used'
                        /\ req'[q].rest \subseteq used'
        /\ \A q \in Req \ R : req'[q] = req[q]
      BY Zenon, <1>1, <1>3
  <2>4. CallInv'
    <3> HIDE DEF R
    <3>1. QED BY Zenon, <1>1, <1>3, <1>5, <2>3, Typed, CallStep
  <2>5. QED BY Zenon, <2>1, <2>2, <2>4 DEF TypeInv
<1>9. ShapeInv'
  <2>1. ShapeOf(r)' BY Zenon, <1>3, <1>6 DEF ShapeOf
  <2>2. (\A q \in R : ShapeOf(q)') /\ \A q \in R : Held(q)' = {}
      BY Zenon, <1>3, <2>1
  <2> HIDE DEF R
  <2>3. QED BY Zenon, <1>5, <2>2, Parts, ShapeStep
<1>10. HeldInv'
  <2>1. HeldOf(r)' BY Zenon, <1>6 DEF HeldOf
  <2>2. QED BY Zenon, <1>5, <2>1, Parts, HeldStep
<1>11. FreshUnlessOverlapped'
  <2>1. \A k \in order' \cap Row' :
            /\ k \in order \cap Row /\ hash'[k] = hash[k] /\ View(k)' = View(k)
            /\ \A q \in R : ~PendingBy(q, k)
      BY Zenon, <1>1, <1>4, <1>7, NotAwaiting
  <2> HIDE DEF R
  <2>2. QED BY Zenon, <1>5, <2>1, Parts, FreshStep
<1>12. CASE straddled = Msg
  <2>1. order' \subseteq Msg /\ \A q \in Req : Held(q)' \subseteq Msg
      BY Zenon, <1>8 DEF TypeInv, CopyInv, CallInv, RowInv
  <2>2. straddled' = Msg BY Zenon, <1>1, <1>12
  <2>3. GapInv' BY Zenon, <2>1, <2>2 DEF GapInv, GapOf
  <2>4. QED BY Zenon, <1>8, <1>9, <1>10, <1>11, <2>3 DEF HistoryInv
<1>13. CASE straddled # Msg
  <2>1. \A z \in req[r].ids : Outdated(z)
      BY Zenon, <1>1, <1>13, Parts DEF GapInv, GapOf
  <2>2. ASSUME NEW y \in Msg, Outdated(y) PROVE Outdated(y)'
    <3>1. /\ order \subseteq Int /\ IsFiniteSet(order) /\ y \in Int
        BY Zenon, Typed, OrderFinite
    <3>2. HotLimit \in Nat BY LimitAssumption
    <3>3. /\ \A z \in req[r].ids : Cardinality(Above(order, z)) >= HotLimit
          /\ Cardinality(Above(order, y)) >= HotLimit
        BY Zenon, <2>1, <2>2 DEF Outdated, Above
    <3>4. Cardinality(Above(order \ req[r].ids, y)) >= HotLimit
        BY Zenon, <3>1, <3>2, <3>3, TrimKeepsNewest
    <3>5. QED BY Zenon, <1>1, <3>4 DEF Outdated, Above
  <2>3. ASSUME NEW y \in Msg, Unstored(y) PROVE Unstored(y)'
    <3>1. PICK q \in Req : At(q, "store") /\ y \in Held(q)
        BY Zenon, <2>3 DEF Unstored
    <3>2. q # r BY <1>1, <3>1 DEF At
    <3>3. req'[q] = req[q] BY Zenon, <1>3, <3>2
    <3>4. QED BY Zenon, <3>1, <3>3 DEF Unstored, At, Held
  <2>4. \A k \in Msg : (Covered(k) => Covered(k)') /\ (Outdated(k) => Outdated(k)')
      BY Zenon, <1>1, <2>1, <2>2, <2>3 DEF Covered
  <2>5. Roots' = Roots BY Zenon, <1>4 DEF Roots
  <2>6. GapOf(r)' BY Zenon, <1>6 DEF GapOf
  <2>7. (\A q \in R : GapOf(q)') /\ order' \subseteq order BY Zenon, <1>1, <2>6
  <2>8. GapInv'
    <3> HIDE DEF R
    <3>1. QED BY Zenon, <1>1, <1>5, <2>4, <2>5, <2>7, Typed, Parts, GapStep
  <2>9. QED BY Zenon, <1>8, <1>9, <1>10, <1>11, <2>8 DEF HistoryInv
<1>14. QED BY Zenon, <1>12, <1>13

(* After an invalidation nothing is in the copy, and what is on its way    *)
(* there is marked as straddling it.                                       *)
LEMMA DelOrderDoneInv ==
    ASSUME HistoryInv, NEW r \in Req, DelOrder(r, TRUE)
    PROVE  HistoryInv'
<1> DEFINE R == {r}
<1>1. /\ At(r, "delOrder") /\ order' = {} /\ RefreshNext(r)
      /\ straddled' = IF \E q \in Req : At(q, "zrem")
                      THEN Msg ELSE {m \in Msg : Holding(m) # {}}
      /\ UNCHANGED <<version, deleted, changes, used, hash,
                     overlapped, abandoned, revived, backfilled>>
    BY Zenon DEF DelOrder, rows
<1>2. Held(r) = {}
  <2>1. req[r].at \notin {"save", "store", "hydrate"} BY <1>1 DEF At
  <2>2. QED BY Zenon, <2>1, Parts DEF ShapeInv, ShapeOf
<1>3. /\ req' \in [Req -> Requests] /\ \A q \in Req \ {r} : req'[q] = req[q]
      /\ Held(r)' = {} /\ req'[r].at \in {"idle", "refresh"}
      /\ req'[r].ids \subseteq used /\ req'[r].rest \subseteq used
      /\ \A m, k \in req'[r].ids : m = k
    BY Zenon, <1>1, <1>2, RefreshNextStep
<1>4. Row' = Row /\ \A k : View(k)' = View(k) BY Zenon, <1>1 DEF Row, View
<1>5. R \in SUBSET Req /\ Moves(R) BY Zenon, <1>1, <1>3, <1>4 DEF Moves
<1>6. ~At(r, "save")' /\ ~At(r, "zrem")' /\ req'[r].at \notin {"store", "hydrate"}
      /\ req'[r].at \notin {"save", "store"}
    BY <1>3 DEF At
<1>7. TypeInv'
  <2>1. RowInv' BY Zenon, <1>1, <1>4, Typed DEF RowInv
  <2>2. CopyInv' BY Zenon, <1>1, Typed DEF CopyInv
  <2>3. /\ \A q \in R : /\ Held(q)' \subseteq used' /\ req'[q].ids \subseteq used'
                        /\ req'[q].rest \subseteq used'
        /\ \A q \in Req \ R : req'[q] = req[q]
      BY Zenon, <1>1, <1>3
  <2>4. CallInv'
    <3> HIDE DEF R
    <3>1. QED BY Zenon, <1>1, <1>3, <1>5, <2>3, Typed, CallStep
  <2>5. QED BY Zenon, <2>1, <2>2, <2>4 DEF TypeInv
<1>8. ShapeInv'
  <2>1. ShapeOf(r)' BY Zenon, <1>3, <1>6 DEF ShapeOf
  <2>2. (\A q \in R : ShapeOf(q)') /\ \A q \in R : Held(q)' = {}
      BY Zenon, <1>3, <2>1
  <2> HIDE DEF R
  <2>3. QED BY Zenon, <1>5, <2>2, Parts, ShapeStep
<1>9. HeldInv'
  <2>1. HeldOf(r)' BY Zenon, <1>6 DEF HeldOf
  <2>2. QED BY Zenon, <1>5, <2>1, Parts, HeldStep
<1>10. FreshUnlessOverlapped' BY Zenon, <1>1 DEF FreshUnlessOverlapped
<1>11. GapInv'
  <2>1. ASSUME NEW q \in Req PROVE Held(q)' \subseteq straddled'
    <3>1. CASE q = r BY Zenon, <1>3, <3>1
    <3>2. CASE q # r
      <4>1. Held(q)' = Held(q) BY Zenon, <1>3, <3>2 DEF Held
      <4>2. Held(q) \subseteq Msg BY Zenon, Typed DEF CallInv
      <4>3. \A m \in Held(q) : Holding(m) # {} BY Zenon DEF Holding, Held
      <4>4. QED BY Zenon, <1>1, <4>1, <4>2, <4>3
    <3>3. QED BY Zenon, <3>1, <3>2
  <2>2. ASSUME NEW q \in Req, At(q, "zrem")' PROVE straddled' = Msg
    <3>1. q # r BY Zenon, <1>6, <2>2
    <3>2. At(q, "zrem") BY Zenon, <1>3, <2>2, <3>1 DEF At
    <3>3. QED BY Zenon, <1>1, <3>2
  <2>3. \A q \in Req : GapOf(q)' BY Zenon, <2>1, <2>2 DEF GapOf
  <2>4. QED BY Zenon, <1>1, <2>3 DEF GapInv
<1>12. QED BY Zenon, <1>7, <1>8, <1>9, <1>10, <1>11 DEF HistoryInv

(* A failing DEL leaves the set as it was.                                 *)
LEMMA DelOrderInv ==
    ASSUME HistoryInv, NEW r \in Req, NEW ok \in BOOLEAN, DelOrder(r, ok)
    PROVE  HistoryInv'
<1>1. CASE ok = TRUE BY Zenon, <1>1, DelOrderDoneInv
<1>2. CASE ok = FALSE
  <2>1. /\ At(r, "delOrder") /\ RefreshNext(r)
        /\ abandoned' = abandoned \union req[r].ids
        /\ UNCHANGED <<version, deleted, changes, used, hash, order,
                       overlapped, revived, backfilled, straddled>>
      BY Zenon, <1>2 DEF DelOrder, rows
  <2>2. ~At(r, "store") /\ req[r].at \notin {"save", "store", "hydrate"}
      BY <2>1 DEF At
  <2>3. Held(r) = {} BY Zenon, <2>2, Parts DEF ShapeInv, ShapeOf
  <2>4. /\ req' \in [Req -> Requests] /\ \A q \in Req \ {r} : req'[q] = req[q]
        /\ Held(r)' = {} /\ req'[r].at \in {"idle", "refresh"}
        /\ req'[r].ids \subseteq used /\ req'[r].rest \subseteq used
        /\ \A m, k \in req'[r].ids : m = k
        /\ \A m \in req[r].rest : PendingBy(r, m)'
      BY Zenon, <2>1, <2>3, RefreshNextStep
  <2>5. req'[r].at \notin {"save", "store"} /\ ~At(r, "zrem")' BY <2>4 DEF At
  <2>6. \A m \in Row : PendingBy(r, m) => PendingBy(r, m)' \/ m \in abandoned'
      BY Zenon, <2>1, <2>2, <2>4 DEF PendingBy
  <2>7. abandoned \subseteq abandoned' BY Zenon, <2>1
  <2>8. QED BY Zenon, <2>1, <2>2, <2>4, <2>5, <2>6, <2>7, QuietStep, Typed
<1>3. QED BY Zenon, <1>1, <1>2

(* A hydration writes an upper segment of the roots it read; later ones    *)
(* are accounted for by their senders.                                     *)
LEMMA HydrateHotHistoryInv ==
    ASSUME HistoryInv, NEW r \in Req, HydrateHotHistory(r)
    PROVE  HistoryInv'
<1> DEFINE R == {r}
<1>1. /\ At(r, "hydrate") /\ Done(r) /\ order' = order \union Held(r)
      /\ hash' = [m \in Msg |-> IF m \in Held(r) THEN req[r].put[m] ELSE hash[m]]
      /\ UNCHANGED <<version, deleted, changes, used,
                     overlapped, abandoned, revived, backfilled, straddled>>
    BY Zenon DEF HydrateHotHistory, rows, marks, Held
<1>2. /\ Held(r) \subseteq used /\ Held(r) \subseteq Msg
      /\ \A m \in Held(r) : req[r].put[m] \in Payloads
  <2>1. Held(r) \subseteq used /\ Held(r) \subseteq Msg BY Zenon, Typed DEF CallInv
  <2>2. req[r].put \in Puts BY Typed DEF Requests
  <2>3. QED BY Zenon, <2>1, <2>2, PutTypes DEF Held
<1>3. /\ req' \in [Req -> Requests] /\ \A q \in Req \ {r} : req'[q] = req[q]
      /\ Held(r)' = {} /\ req'[r].at = "idle" /\ req'[r].ids = {} /\ req'[r].rest = {}
    BY Zenon, <1>1, DoneBare
<1>4. Row' = Row /\ \A k : View(k)' = View(k) BY Zenon, <1>1 DEF Row, View
<1>5. R \in SUBSET Req /\ Moves(R) BY Zenon, <1>1, <1>3, <1>4 DEF Moves
<1>6. /\ hash' \in [Msg -> Payloads \union {None}]
      /\ \A m \in Held(r) : hash'[m] = req[r].put[m]
      /\ \A m \in Msg \ Held(r) : hash'[m] = hash[m]
    BY <1>1, <1>2, Typed DEF CopyInv
<1>7. ~At(r, "save")' /\ ~At(r, "hydrate")' /\ ~At(r, "zrem")' /\ ~At(r, "refresh")'
      /\ req'[r].at \notin {"save", "store", "hydrate"}
      /\ req'[r].at \notin {"save", "store"} /\ req'[r].at \notin {"store", "hydrate"}
    BY <1>3 DEF At
<1>8. /\ req[r].at \notin {"store", "refresh", "delHash", "delOrder"}
      /\ req[r].at \in {"store", "hydrate"}
    BY <1>1 DEF At
<1>9. TypeInv'
  <2>1. RowInv' BY Zenon, <1>1, <1>4, Typed DEF RowInv
  <2>2. CopyInv' BY Zenon, <1>1, <1>2, <1>6, Typed DEF CopyInv
  <2>3. /\ \A q \in R : /\ Held(q)' \subseteq used' /\ req'[q].ids \subseteq used'
                        /\ req'[q].rest \subseteq used'
        /\ \A q \in Req \ R : req'[q] = req[q]
      BY Zenon, <1>1, <1>3
  <2>4. CallInv'
    <3> HIDE DEF R
    <3>1. QED BY Zenon, <1>1, <1>3, <1>5, <2>3, Typed, CallStep
  <2>5. QED BY Zenon, <2>1, <2>2, <2>4 DEF TypeInv
<1>10. ShapeInv'
  <2>1. ShapeOf(r)' BY Zenon, <1>3, <1>7 DEF ShapeOf
  <2>2. (\A q \in R : ShapeOf(q)') /\ \A q \in R : Held(q)' = {}
      BY Zenon, <1>3, <2>1
  <2> HIDE DEF R
  <2>3. QED BY Zenon, <1>5, <2>2, Parts, ShapeStep
<1>11. HeldInv'
  <2>1. HeldOf(r)' BY Zenon, <1>7 DEF HeldOf
  <2>2. QED BY Zenon, <1>5, <2>1, Parts, HeldStep
<1>12. FreshUnlessOverlapped'
  <2>1. ASSUME NEW k \in order' \cap Row'
        PROVE  \/ hash'[k] \in {None, View(k)'}
               \/ k \in overlapped' \union abandoned' \union revived'
               \/ /\ k \in order \cap Row
                  /\ hash'[k] = hash[k] /\ View(k)' = View(k)
                  /\ \A q \in R : ~PendingBy(q, k)
    <3>1. CASE k \in Held(r)
      <4>1. req[r].put[k] = View(k) \/ k \in overlapped \union revived
          BY Zenon, <1>4, <1>8, <2>1, <3>1, Parts DEF HeldInv, HeldOf
      <4>2. QED BY Zenon, <1>1, <1>4, <1>6, <3>1, <4>1
    <3>2. CASE k \notin Held(r)
      <4>1. k \in order /\ k \in Row /\ k \in Msg
          BY Zenon, <1>1, <1>4, <2>1, <3>2, RowIsMsg
      <4>2. \A q \in R : ~PendingBy(q, k) BY Zenon, <1>8, NotAwaiting
      <4>3. QED BY Zenon, <1>4, <1>6, <3>2, <4>1, <4>2
    <3>3. QED BY Zenon, <3>1, <3>2
  <2> HIDE DEF R
  <2>2. QED BY Zenon, <1>5, <2>1, Parts, FreshStep
<1>13. GapInv'
  <2>1. Roots' = Roots BY Zenon, <1>4 DEF Roots
  <2>2. \A q \in R : ~At(q, "store") BY Zenon, <1>8, NotAwaiting
  <2>3. IsFiniteSet(order')
    <3>1. order' \subseteq used BY Zenon, <1>1, <1>2, Typed
    <3>2. QED BY Zenon, <3>1, Typed, FS_Subset
  <2>4. order \subseteq order' BY Zenon, <1>1
  <2>5. \A k \in Msg : (Covered(k) => Covered(k)') /\ (Outdated(k) => Outdated(k)')
    <3> HIDE DEF R
    <3>1. QED BY Zenon, <1>5, <2>2, <2>3, <2>4, Typed, CoverStep
  <2>6. ASSUME NEW x \in order' \ order, x \notin backfilled' \union straddled
        PROVE  CoveredFrom(x)'
    <3>1. x \in Held(r) BY Zenon, <1>1, <2>6
    <3>2. \A m \in Roots : m > x => Covered(m) \/ m \in Held(r)
        BY Zenon, <1>1, <2>6, <3>1, Parts DEF GapInv, GapOf
    <3>3. \A m \in Held(r) : Covered(m)' BY Zenon, <1>1 DEF Covered
    <3>4. QED BY Zenon, <2>1, <2>5, <3>2, <3>3, RowIsMsg DEF CoveredFrom, Roots
  <2>7. GapOf(r)' BY Zenon, <1>7 DEF GapOf
  <2>8. \A q \in R : GapOf(q)' BY Zenon, <2>7
  <2> HIDE DEF R
  <2>9. QED BY Zenon, <1>1, <1>5, <2>1, <2>5, <2>6, <2>8, Typed, Parts, GapStep
<1>14. QED BY Zenon, <1>9, <1>10, <1>11, <1>12, <1>13 DEF HistoryInv
-----------------------------------------------------------------------------
(* The specification keeps the invariant.                                  *)

LEMMA HistoryInitInv == Init => HistoryInv
<1> SUFFICES ASSUME Init PROVE HistoryInv OBVIOUS
<1>1. /\ version = [m \in Msg |-> None] /\ deleted = {} /\ changes = 0 /\ used = {}
      /\ hash = [m \in Msg |-> None] /\ order = {} /\ req = [r \in Req |-> Idle]
    BY Zenon DEF Init
<1>2. Row = {} BY <1>1 DEF Row
<1>3. changes \in 0..MaxChanges BY <1>1, LimitAssumption
<1>4. RowInv
  <2>1. version \in [Msg -> (0..MaxChanges) \union {None}] BY Zenon, <1>1
  <2>2. QED BY Zenon, <1>1, <1>2, <1>3, <2>1, FS_EmptySet DEF RowInv
<1>5. CopyInv BY Zenon, <1>1 DEF CopyInv
<1>6. req \in [Req -> Requests] BY Zenon, <1>1, IdlePut
<1>7. \A r \in Req : /\ Held(r) = {} /\ req[r].ids = {} /\ req[r].rest = {}
                     /\ req[r].at = "idle"
    BY Zenon, <1>1, IdlePut DEF Held
<1>8. TypeInv BY Zenon, <1>4, <1>5, <1>6, <1>7 DEF TypeInv, CallInv
<1>9. ASSUME NEW r \in Req
      PROVE  ~At(r, "zrem")
    BY <1>7 DEF At
<1>10. ShapeInv BY Zenon, <1>7 DEF ShapeInv, ShapeOf
<1>11. HeldInv BY Zenon, <1>7 DEF HeldInv, HeldOf
<1>12. FreshUnlessOverlapped BY Zenon, <1>1 DEF FreshUnlessOverlapped
<1>13. GapInv BY Zenon, <1>1, <1>7, <1>9 DEF GapInv, GapOf
<1>14. QED BY Zenon, <1>8, <1>10, <1>11, <1>12, <1>13 DEF HistoryInv

LEMMA HistoryStutters == HistoryInv /\ UNCHANGED vars => HistoryInv'
<1> SUFFICES ASSUME HistoryInv, UNCHANGED vars PROVE HistoryInv' OBVIOUS
<1>1. UNCHANGED <<version, deleted, changes, used, hash, order, req,
                  overlapped, abandoned, revived, backfilled, straddled>>
    BY Zenon DEF vars, rows, copy, marks
<1>2. Row' = Row /\ Roots' = Roots BY Zenon, <1>1 DEF Row, Roots
<1>3. \A m : View(m)' = View(m) /\ Covered(m)' = Covered(m) /\ Outdated(m)' = Outdated(m)
             /\ Pending(m)' = Pending(m)
    BY Zenon, <1>1 DEF View, Covered, Outdated, Unstored, Pending, At, Held
<1>4. \A r \in Req : Held(r)' = Held(r) BY Zenon, <1>1 DEF Held
<1>5. TypeInv'
    BY Zenon, <1>1, <1>2, <1>4, Parts DEF TypeInv, RowInv, CopyInv, CallInv
<1>6. ShapeInv' /\ HeldInv'
  <2>1. {} \in SUBSET Req /\ Moves({}) BY Zenon, <1>1, <1>2, <1>3 DEF Moves
  <2>2. QED BY Zenon, <2>1, Parts, ShapeStep, HeldStep
<1>7. FreshUnlessOverlapped'
    BY Zenon, <1>1, <1>2, <1>3, Parts DEF FreshUnlessOverlapped
<1>8. GapInv'
    BY Zenon, <1>1, <1>2, <1>3, <1>4, Parts DEF GapInv, GapOf, CoveredFrom, At
<1>9. QED BY Zenon, <1>5, <1>6, <1>7, <1>8 DEF HistoryInv

LEMMA HistoryNextInv == HistoryInv /\ [Next]_vars => HistoryInv'
<1> SUFFICES ASSUME HistoryInv, [Next]_vars PROVE HistoryInv' OBVIOUS
<1>1. CASE UNCHANGED vars BY Zenon, <1>1, HistoryStutters
<1>2. ASSUME NEW r \in Req, RequestStep(r) PROVE HistoryInv'
  <2>1. CASE SaveMessage(r) BY Zenon, <2>1, SaveMessageInv
  <2>2. CASE StoreMessage(r) BY Zenon, <2>2, StoreMessageInv
  <2>3. CASE TrimIds(r) BY Zenon, <2>3, TrimIdsInv
  <2>4. CASE TrimOrder(r) BY Zenon, <2>4, TrimOrderInv
  <2>5. CASE TrimHash(r) BY Zenon, <2>5, TrimHashInv
  <2>6. CASE LoadHotHistory(r) \/ ReadPayloads(r) BY Zenon, <2>6, ReadInv
  <2>7. CASE LoadRows(r) BY Zenon, <2>7, LoadRowsInv
  <2>8. CASE HydrateHotHistory(r) BY Zenon, <2>8, HydrateHotHistoryInv
  <2>9. CASE Fail(r) BY Zenon, <2>9, FailInv
  <2>10. QED
      BY Zenon, <1>2, <2>1, <2>2, <2>3, <2>4, <2>5, <2>6, <2>7, <2>8, <2>9
      DEF RequestStep
<1>3. ASSUME NEW r \in Req, NEW ok \in BOOLEAN,
             RefreshModerated(r, ok) \/ DelHash(r, ok) \/ DelOrder(r, ok)
      PROVE  HistoryInv'
    BY Zenon, <1>3, RefreshModeratedInv, DelHashInv, DelOrderInv
<1>4. ASSUME NEW r \in Req, NEW m \in Msg, SendMessage(r, m) PROVE HistoryInv'
    BY Zenon, <1>4, SendMessageInv
<1>5. ASSUME NEW r \in Req, NEW m \in Msg, EditMessage(r, m) PROVE HistoryInv'
    BY Zenon, <1>5, EditMessageInv
<1>6. ASSUME NEW r \in Req, NEW m \in Msg, DeleteMessage(r, m) PROVE HistoryInv'
    BY Zenon, <1>6, DeleteMessageInv
<1>7. ASSUME NEW r \in Req, NEW m \in Msg, NEW delete \in BOOLEAN,
             ModerateMessage(r, m, delete)
      PROVE  HistoryInv'
    BY Zenon, <1>7, ModerateMessageInv
<1>8. ASSUME NEW r \in Req, NEW S \in SUBSET Msg, NEW delete \in BOOLEAN,
             BulkModerate(r, S, delete)
      PROVE  HistoryInv'
    BY Zenon, <1>8, BulkModerateInv
<1>9. ASSUME NEW m \in Msg, PublishSystemMessage(m) PROVE HistoryInv'
    BY Zenon, <1>9, PublishSystemMessageInv
<1>10. ASSUME NEW m \in Msg, PruneExpired(m) PROVE HistoryInv'
    BY Zenon, <1>10, PruneExpiredInv
<1>11. QED
    BY Zenon, <1>1, <1>2, <1>3, <1>4, <1>5, <1>6, <1>7, <1>8, <1>9, <1>10 DEF Next

LEMMA HistoryInvariant == Spec => []HistoryInv
    BY HistoryInitInv, HistoryNextInv, PTL DEF Spec

(* The rows, the copy and the requests on their way keep their types: what *)
(* a request holds, trims or refreshes are messages that were made, and    *)
(* only rows are deleted.                                                  *)
THEOREM HistoryTypes == Spec => []TypeOK
<1>1. HistoryInv => TypeOK
  <2> SUFFICES ASSUME HistoryInv PROVE TypeOK OBVIOUS
  <2>1. /\ version \in [Msg -> (0..MaxChanges) \union {None}] /\ deleted \subseteq Row
        /\ used \subseteq Msg /\ changes \in 0..MaxChanges
      BY Zenon, Typed DEF RowInv
  <2>2. ASSUME NEW r \in Req
        PROVE  /\ req[r].at \in Labels
               /\ Held(r) \subseteq used
               /\ \A m \in Held(r) : req[r].put[m] \in Payloads
               /\ req[r].ids \subseteq used /\ req[r].rest \subseteq used
    <3>1. req[r].at \in Labels /\ req[r].put \in Puts BY Typed DEF Requests
    <3>2. QED BY Zenon, <3>1, Typed, PutTypes DEF CallInv, Held
  <2>3. QED BY Zenon, <2>1, <2>2, Typed DEF TypeOK, Labels, Held
<1>2. QED BY <1>1, HistoryInvariant, PTL

(* For any number of messages, requests and changes: a cached message      *)
(* shows what its row shows, unless the request that changed the row is    *)
(* under way or died, two requests on the message overlapped, or it was    *)
(* edited while deleted.                                                   *)
THEOREM FreshUnlessOverlappedAlways == Spec => []FreshUnlessOverlapped
<1>1. HistoryInv => FreshUnlessOverlapped BY Zenon DEF HistoryInv
<1>2. QED BY <1>1, HistoryInvariant, PTL

(* For every HOT_HISTORY_LIMIT: the window that a reader is served misses  *)
(* no newer root message, whatever is trimmed, hydrated, moderated or      *)
(* pruned meanwhile, but for system messages, senders that died or have    *)
(* yet to store, and writes or trims across an invalidation.               *)
THEOREM WindowHasNoGapsAlways == Spec => []WindowHasNoGaps
<1>1. HistoryInv => WindowHasNoGaps
  <2> SUFFICES ASSUME HistoryInv, NEW x \in Window, x \notin backfilled \union straddled,
                      NEW m \in Roots, m > x,
                      m \notin order, ~Pending(m), m \notin abandoned
               PROVE  FALSE
      BY Zenon DEF WindowHasNoGaps, Roots
  <2>1. x \in order /\ Cardinality({k \in order : k > x}) < HotLimit
      BY Zenon DEF Window, Newest
  <2>2. Covered(m) BY Zenon, <2>1, Parts DEF GapInv, CoveredFrom
  <2>3. ~Unstored(m) BY Zenon DEF Unstored, Pending, Held
  <2>4. Cardinality({k \in order : k > m}) >= HotLimit
      BY Zenon, <2>2, <2>3 DEF Covered, Outdated
  <2> DEFINE A == {k \in order : k > m}
             B == {k \in order : k > x}
  <2>5. IsFiniteSet(order) /\ order \subseteq Int /\ m \in Int /\ x \in Int
      BY Zenon, <2>1, Typed, OrderFinite, RowIsMsg DEF Roots
  <2>6. A \in SUBSET B
    <3>1. \A k \in order : k > m => k > x BY <2>5
    <3>2. QED BY Zenon, <3>1
  <2>7. IsFiniteSet(B) BY Zenon, <2>5, FS_Subset
  <2>8. Cardinality(A) <= Cardinality(B)
        /\ Cardinality(A) \in Nat /\ Cardinality(B) \in Nat
      BY Zenon, <2>6, <2>7, FS_Subset, FS_CardinalityType
  <2>9. HotLimit \in Nat BY LimitAssumption
  <2>10. Cardinality(A) >= HotLimit /\ Cardinality(B) < HotLimit
      BY Zenon, <2>1, <2>4
  <2> HIDE DEF A, B
  <2>11. QED BY <2>8, <2>9, <2>10
<1>2. QED BY <1>1, HistoryInvariant, PTL
-----------------------------------------------------------------------------
(* Payloads without an id.  Between the two DELs of an invalidation every  *)
(* payload in the hash is marked, because the second may take its id away. *)

StrandInv ==
    /\ NoPayloadLeftBehind
    /\ (\E r \in Req : At(r, "delOrder")) =>
          \A m \in Msg : hash[m] # None => m \in stranded

(* What becomes of the requests when one of them moves.                    *)
LEMMA OneMoves ==
    ASSUME HistoryInv, NEW r \in Req
    PROVE  /\ \A at, put, ids : Go(r, at, put, ids) =>
                 /\ req'[r].at = at /\ req'[r].ids = ids
                 /\ \A q \in Req \ {r} : req'[q] = req[q]
           /\ Done(r) => /\ req'[r].at = "idle"
                         /\ \A q \in Req \ {r} : req'[q] = req[q]
           /\ \A S : RefreshFirst(r, S) =>
                 /\ req'[r].at = "refresh"
                 /\ \A q \in Req \ {r} : req'[q] = req[q]
           /\ RefreshNext(r) => /\ req'[r].at \in {"idle", "refresh"}
                                /\ \A q \in Req \ {r} : req'[q] = req[q]
<1>1. req \in [Req -> Requests] BY Zenon, Typed
<1>2. \A at, put, ids : Go(r, at, put, ids) =>
          /\ req'[r].at = at /\ req'[r].ids = ids
          /\ \A q \in Req \ {r} : req'[q] = req[q]
    BY <1>1 DEF Go, Requests
<1>3. Done(r) => /\ req'[r].at = "idle"
                 /\ \A q \in Req \ {r} : req'[q] = req[q]
    BY <1>1 DEF Done, Idle
<1>4. \A S : RefreshFirst(r, S) =>
          /\ req'[r].at = "refresh"
          /\ \A q \in Req \ {r} : req'[q] = req[q]
    BY <1>1 DEF RefreshFirst, Requests
<1>5. RefreshNext(r) => /\ req'[r].at \in {"idle", "refresh"}
                        /\ \A q \in Req \ {r} : req'[q] = req[q]
    BY Zenon, <1>3, <1>4 DEF RefreshNext
<1>6. QED BY Zenon, <1>2, <1>3, <1>4, <1>5

(* A step that neither removes an id, nor writes a payload, nor ends a     *)
(* trim, nor begins the second DEL.                                        *)
LEMMA StrandQuiet ==
    ASSUME StrandInv, NEW r \in Req, \A q \in Req \ {r} : req'[q] = req[q],
           req[r].at # "hdel", req'[r].at # "delOrder",
           UNCHANGED <<hash, order, stranded>>
    PROVE  StrandInv'
<1>1. \A q \in Req : At(q, "hdel") => q # r /\ req'[q] = req[q] BY Zenon DEF At
<1>2. \A q \in Req : At(q, "delOrder")' => At(q, "delOrder") BY Zenon DEF At
<1>3. QED BY Zenon, <1>1, <1>2 DEF StrandInv, NoPayloadLeftBehind, At

(* Payloads are written with their ids, and are marked between the DELs.   *)
LEMMA StrandWrite ==
    ASSUME HistoryInv, StrandInv, NEW r \in Req,
           \A q \in Req \ {r} : req'[q] = req[q],
           req[r].at \notin {"hdel", "delOrder"},
           req'[r].at \notin {"hdel", "delOrder"},
           NEW S \in SUBSET Msg, Strand(S), order' = order \union S,
           \A m \in Msg \ S : hash'[m] = hash[m]
    PROVE  StrandInv'
<1>1. \A q \in Req : At(q, "hdel") => q # r /\ req'[q] = req[q] BY Zenon DEF At
<1>2. \A q \in Req : At(q, "delOrder")' => At(q, "delOrder") BY Zenon DEF At
<1>3. \A m \in Msg \ S : m \in stranded => m \in stranded' BY Zenon DEF Strand
<1>4. NoPayloadLeftBehind'
  <2>1. SUFFICES ASSUME NEW m \in Msg, hash'[m] # None, m \notin order'
                 PROVE  m \in stranded'
                        \/ \E q \in Req : At(q, "hdel")' /\ m \in req'[q].ids
      BY Zenon DEF NoPayloadLeftBehind
  <2>2. m \notin S /\ hash[m] # None /\ m \notin order BY Zenon, <2>1
  <2>3. m \in stranded \/ \E q \in Req : At(q, "hdel") /\ m \in req[q].ids
      BY Zenon, <2>2 DEF StrandInv, NoPayloadLeftBehind
  <2>4. QED BY Zenon, <1>1, <1>3, <2>2, <2>3 DEF At
<1>5. ASSUME NEW q \in Req, At(q, "delOrder")', NEW m \in Msg, hash'[m] # None
      PROVE  m \in stranded'
  <2>1. At(q, "delOrder") BY Zenon, <1>2, <1>5
  <2>2. stranded' = stranded \union S BY Zenon, <2>1 DEF Strand
  <2>3. QED BY Zenon, <1>5, <2>1, <2>2 DEF StrandInv
<1>6. QED BY Zenon, <1>4, <1>5 DEF StrandInv

LEMMA StrandStoreMessage ==
    ASSUME HistoryInv, StrandInv, NEW r \in Req, StoreMessage(r)
    PROVE  StrandInv'
<1>1. PICK m \in Held(r) : /\ hash' = [hash EXCEPT ![m] = req[r].put[m]]
                           /\ order' = order \union {m}
    BY Zenon DEF StoreMessage, Held
<1>2. /\ At(r, "store") /\ Strand(Held(r)) /\ Go(r, "trim", Idle.put, {})
    BY Zenon DEF StoreMessage, Held
<1>3. req[r].at \in {"save", "store"} /\ req[r].at \notin {"hdel", "delOrder"}
    BY <1>2 DEF At
<1>4. Held(r) = {m}
  <2>1. \A k \in Held(r) : k = m BY Zenon, <1>1, <1>3, Parts DEF ShapeInv, ShapeOf
  <2>2. QED BY Zenon, <1>1, <2>1
<1>5. Held(r) \in SUBSET Msg BY Zenon, Typed DEF CallInv
<1>6. req'[r].at = "trim" /\ \A q \in Req \ {r} : req'[q] = req[q]
    BY Zenon, <1>2, OneMoves
<1>7. req'[r].at \notin {"hdel", "delOrder"} BY <1>6
<1>8. \A k \in Msg \ Held(r) : hash'[k] = hash[k] BY <1>1, <1>4, Typed DEF CopyInv
<1>9. QED BY Zenon, <1>1, <1>2, <1>3, <1>4, <1>5, <1>6, <1>7, <1>8, StrandWrite

LEMMA StrandHydrate ==
    ASSUME HistoryInv, StrandInv, NEW r \in Req, HydrateHotHistory(r)
    PROVE  StrandInv'
<1>1. /\ At(r, "hydrate") /\ Done(r) /\ order' = order \union Held(r)
      /\ hash' = [m \in Msg |-> IF m \in Held(r) THEN req[r].put[m] ELSE hash[m]]
      /\ Strand(Held(r))
    BY Zenon DEF HydrateHotHistory, Held
<1>2. Held(r) \in SUBSET Msg BY Zenon, Typed DEF CallInv
<1>3. req[r].at \notin {"hdel", "delOrder"} BY <1>1 DEF At
<1>4. req'[r].at = "idle" /\ \A q \in Req \ {r} : req'[q] = req[q]
    BY Zenon, <1>1, OneMoves
<1>5. req'[r].at \notin {"hdel", "delOrder"} BY <1>4
<1>6. \A m \in Msg \ Held(r) : hash'[m] = hash[m] BY Zenon, <1>1
<1>7. QED BY Zenon, <1>1, <1>2, <1>3, <1>4, <1>5, <1>6, StrandWrite

(* Ids that a trim removes are noted until their payloads are gone too.    *)
LEMMA StrandTrim ==
    ASSUME HistoryInv, StrandInv, NEW r \in Req, TrimOrder(r) \/ TrimHash(r)
    PROVE  StrandInv'
<1>1. CASE TrimOrder(r)
  <2>1. /\ At(r, "zrem") /\ order' = order \ req[r].ids
        /\ Go(r, "hdel", Idle.put, req[r].ids) /\ hash' = hash /\ stranded' = stranded
      BY Zenon, <1>1 DEF TrimOrder, marks
  <2>2. /\ req'[r].at = "hdel" /\ req'[r].ids = req[r].ids
        /\ \A q \in Req \ {r} : req'[q] = req[q]
      BY Zenon, <2>1, OneMoves
  <2>3. req[r].at # "hdel" /\ req'[r].at # "delOrder" BY <2>1, <2>2 DEF At
  <2>4. \A q \in Req : At(q, "hdel") => q # r /\ req'[q] = req[q]
      BY Zenon, <2>2, <2>3 DEF At
  <2>5. \A q \in Req : At(q, "delOrder")' => At(q, "delOrder")
      BY Zenon, <2>2, <2>3 DEF At
  <2>6. NoPayloadLeftBehind'
    <3>1. SUFFICES ASSUME NEW m \in Msg, hash'[m] # None, m \notin order'
                   PROVE  m \in stranded'
                          \/ \E q \in Req : At(q, "hdel")' /\ m \in req'[q].ids
        BY Zenon DEF NoPayloadLeftBehind
    <3>2. CASE m \in req[r].ids BY Zenon, <2>2, <3>2 DEF At
    <3>3. CASE m \notin req[r].ids
      <4>1. m \in stranded \/ \E q \in Req : At(q, "hdel") /\ m \in req[q].ids
          BY Zenon, <2>1, <3>1, <3>3 DEF StrandInv, NoPayloadLeftBehind
      <4>2. QED BY Zenon, <2>1, <2>4, <4>1 DEF At
    <3>4. QED BY Zenon, <3>2, <3>3
  <2>7. QED BY Zenon, <2>1, <2>5, <2>6 DEF StrandInv
<1>2. CASE TrimHash(r)
  <2>1. /\ At(r, "hdel") /\ Done(r) /\ order' = order
        /\ hash' = [m \in Msg |-> IF m \in req[r].ids THEN None ELSE hash[m]]
        /\ stranded' = stranded \ req[r].ids
      BY Zenon, <1>2 DEF TrimHash
  <2>2. req'[r].at = "idle" /\ \A q \in Req \ {r} : req'[q] = req[q]
      BY Zenon, <2>1, OneMoves
  <2>3. req'[r].at # "delOrder" BY <2>2
  <2>4. \A m \in Msg : hash'[m] # None => hash[m] # None /\ m \notin req[r].ids
      BY Zenon, <2>1
  <2>5. NoPayloadLeftBehind'
    <3>1. SUFFICES ASSUME NEW m \in Msg, hash'[m] # None, m \notin order'
                   PROVE  m \in stranded'
                          \/ \E q \in Req : At(q, "hdel")' /\ m \in req'[q].ids
        BY Zenon DEF NoPayloadLeftBehind
    <3>2. m \in stranded \/ \E q \in Req : At(q, "hdel") /\ m \in req[q].ids
        BY Zenon, <2>1, <2>4, <3>1 DEF StrandInv, NoPayloadLeftBehind
    <3>3. CASE m \in stranded BY Zenon, <2>1, <2>4, <3>1, <3>3
    <3>4. ASSUME NEW q \in Req, At(q, "hdel"), m \in req[q].ids
          PROVE  At(q, "hdel")' /\ m \in req'[q].ids
      <4>1. q # r BY Zenon, <2>4, <3>1, <3>4
      <4>2. QED BY Zenon, <2>2, <3>4, <4>1 DEF At
    <3>5. QED BY Zenon, <3>2, <3>3, <3>4
  <2>6. \A q \in Req : At(q, "delOrder")' => At(q, "delOrder")
      BY Zenon, <2>2, <2>3 DEF At
  <2>7. QED BY Zenon, <2>1, <2>4, <2>5, <2>6 DEF StrandInv
<1>3. QED BY Zenon, <1>1, <1>2

(* The two DELs: after the first no payload is left, or all are marked;    *)
(* after the second those written since are marked.                        *)
LEMMA StrandDel ==
    ASSUME HistoryInv, StrandInv, NEW r \in Req, NEW ok \in BOOLEAN,
           DelHash(r, ok) \/ DelOrder(r, ok)
    PROVE  StrandInv'
<1>1. CASE DelHash(r, ok)
  <2>1. \A m \in Msg : hash'[m] # None => m \in stranded'
    <3>1. CASE ok BY Zenon, <1>1, <3>1 DEF DelHash
    <3>2. CASE ~ok
      <4>1. hash' = hash /\ stranded' = stranded \union {m \in Msg : hash[m] # None}
          BY Zenon, <1>1, <3>2 DEF DelHash
      <4>2. QED BY Zenon, <4>1
    <3>3. QED BY Zenon, <3>1, <3>2
  <2>2. QED BY Zenon, <2>1 DEF StrandInv, NoPayloadLeftBehind
<1>2. CASE DelOrder(r, ok)
  <2>1. At(r, "delOrder") /\ hash' = hash /\ stranded' = stranded
      BY Zenon, <1>2 DEF DelOrder
  <2>2. \A m \in Msg : hash'[m] # None => m \in stranded'
      BY Zenon, <2>1 DEF StrandInv
  <2>3. QED BY Zenon, <2>2 DEF StrandInv, NoPayloadLeftBehind
<1>3. QED BY Zenon, <1>1, <1>2

(* A trim that dies between its commands leaves its payloads marked.       *)
LEMMA StrandFail ==
    ASSUME HistoryInv, StrandInv, NEW r \in Req, Fail(r)
    PROVE  StrandInv'
<1>1. /\ Done(r) /\ hash' = hash /\ order' = order
      /\ stranded' = IF At(r, "hdel")
                     THEN stranded \union {m \in req[r].ids : hash[m] # None}
                     ELSE stranded
    BY Zenon DEF Fail, copy
<1>2. req'[r].at = "idle" /\ \A q \in Req \ {r} : req'[q] = req[q]
    BY Zenon, <1>1, OneMoves
<1>3. req'[r].at # "delOrder" BY <1>2
<1>4. CASE At(r, "hdel")
  <2>1. stranded' = stranded \union {m \in req[r].ids : hash[m] # None}
      BY Zenon, <1>1, <1>4
  <2>2. \A q \in Req : At(q, "delOrder")' => At(q, "delOrder")
      BY Zenon, <1>2, <1>3 DEF At
  <2>3. \A q \in Req \ {r} : At(q, "hdel") => At(q, "hdel")' /\ req'[q] = req[q]
      BY Zenon, <1>2 DEF At
  <2>4. NoPayloadLeftBehind'
    <3>1. SUFFICES ASSUME NEW m \in Msg, hash'[m] # None, m \notin order'
                   PROVE  m \in stranded'
                          \/ \E q \in Req : At(q, "hdel")' /\ m \in req'[q].ids
        BY Zenon DEF NoPayloadLeftBehind
    <3>2. m \in stranded \/ \E q \in Req : At(q, "hdel") /\ m \in req[q].ids
        BY Zenon, <1>1, <3>1 DEF StrandInv, NoPayloadLeftBehind
    <3>3. CASE m \in stranded \union req[r].ids BY Zenon, <1>1, <2>1, <3>1, <3>3
    <3>4. QED BY Zenon, <2>3, <3>2, <3>3
  <2>5. QED BY Zenon, <1>1, <2>1, <2>2, <2>4 DEF StrandInv
<1>5. CASE ~At(r, "hdel") BY Zenon, <1>1, <1>2, <1>3, <1>5, StrandQuiet DEF At
<1>6. QED BY Zenon, <1>4, <1>5

(* The other steps of a request leave the copy alone.                      *)
LEMMA StrandRequestStep ==
    ASSUME HistoryInv, StrandInv, NEW r \in Req, RequestStep(r)
    PROVE  StrandInv'
<1>1. CASE StoreMessage(r) BY Zenon, <1>1, StrandStoreMessage
<1>2. CASE TrimOrder(r) \/ TrimHash(r) BY Zenon, <1>2, StrandTrim
<1>3. CASE HydrateHotHistory(r) BY Zenon, <1>3, StrandHydrate
<1>4. CASE Fail(r) BY Zenon, <1>4, StrandFail
<1>5. CASE SaveMessage(r) \/ TrimIds(r)
  <2>1. UNCHANGED <<hash, order, stranded>>
      BY Zenon, <1>5 DEF SaveMessage, TrimIds, copy, marks
  <2>2. req[r].at \in {"save", "trim"} BY Zenon, <1>5 DEF SaveMessage, TrimIds, At
  <2>3. /\ req'[r].at \in {"store", "idle", "zrem"}
        /\ \A q \in Req \ {r} : req'[q] = req[q]
      BY Zenon, <1>5, OneMoves DEF SaveMessage, TrimIds
  <2>4. req[r].at # "hdel" /\ req'[r].at # "delOrder" BY <2>2, <2>3
  <2>5. QED BY Zenon, <2>1, <2>3, <2>4, StrandQuiet
<1>6. CASE LoadHotHistory(r) \/ ReadPayloads(r) \/ LoadRows(r)
  <2>1. UNCHANGED <<hash, order, stranded>>
      BY Zenon, <1>6 DEF LoadHotHistory, ReadPayloads, LoadRows, copy, marks
  <2>2. req[r].at \in {"idle", "hmget", "load"}
      BY Zenon, <1>6 DEF LoadHotHistory, ReadPayloads, LoadRows, At
  <2>3. /\ req'[r].at \in {"load", "hmget", "idle", "hydrate"}
        /\ \A q \in Req \ {r} : req'[q] = req[q]
    <3>1. CASE LoadHotHistory(r) BY Zenon, <3>1, OneMoves DEF LoadHotHistory
    <3>2. CASE ReadPayloads(r) BY Zenon, <3>2, OneMoves DEF ReadPayloads
    <3>3. CASE LoadRows(r) BY Zenon, <3>3, OneMoves DEF LoadRows
    <3>4. QED BY Zenon, <1>6, <3>1, <3>2, <3>3
  <2>4. req[r].at # "hdel" /\ req'[r].at # "delOrder" BY <2>2, <2>3
  <2>5. QED BY Zenon, <2>1, <2>3, <2>4, StrandQuiet
<1>7. QED BY Zenon, <1>1, <1>2, <1>3, <1>4, <1>5, <1>6 DEF RequestStep

(* A request that begins, or a refresh that goes on, leaves it alone too.  *)
LEMMA StrandBegins ==
    ASSUME HistoryInv, StrandInv, NEW r \in Req,
           UNCHANGED <<hash, order, stranded>>, At(r, "idle") \/ At(r, "refresh"),
           \/ \E put : Go(r, "save", put, {}) \/ Go(r, "store", put, {})
           \/ \E put, ids : Go(r, "refresh", put, ids) \/ Go(r, "delHash", put, ids)
           \/ (\E S : RefreshFirst(r, S)) \/ RefreshNext(r)
    PROVE  StrandInv'
<1>1. req[r].at # "hdel" BY DEF At
<1>2. /\ req'[r].at \in {"save", "store", "refresh", "delHash", "idle"}
      /\ \A q \in Req \ {r} : req'[q] = req[q]
    BY Zenon, OneMoves
<1>3. req'[r].at # "delOrder" BY <1>2
<1>4. QED BY Zenon, <1>1, <1>2, <1>3, StrandQuiet

LEMMA StrandNextInv == HistoryInv /\ StrandInv /\ [Next]_vars => StrandInv'
<1> SUFFICES ASSUME HistoryInv, StrandInv, [Next]_vars PROVE StrandInv' OBVIOUS
<1>1. ASSUME UNCHANGED <<hash, order, req, stranded>> PROVE StrandInv'
    BY Zenon, <1>1 DEF StrandInv, NoPayloadLeftBehind, At
<1>2. CASE UNCHANGED vars BY Zenon, <1>1, <1>2 DEF vars, copy, marks
<1>3. ASSUME NEW r \in Req, RequestStep(r) PROVE StrandInv'
    BY Zenon, <1>3, StrandRequestStep
<1>4. ASSUME NEW r \in Req, NEW ok \in BOOLEAN,
             DelHash(r, ok) \/ DelOrder(r, ok)
      PROVE  StrandInv'
    BY Zenon, <1>4, StrandDel
<1>5. ASSUME NEW r \in Req, NEW ok \in BOOLEAN, RefreshModerated(r, ok)
      PROVE  StrandInv'
    BY Zenon, <1>5, StrandBegins DEF RefreshModerated, copy
<1>6. ASSUME NEW r \in Req, NEW m \in Msg, SendMessage(r, m) PROVE StrandInv'
    BY Zenon, <1>6, StrandBegins DEF SendMessage, copy, marks
<1>7. ASSUME NEW r \in Req, NEW m \in Msg, EditMessage(r, m) PROVE StrandInv'
    BY Zenon, <1>7, StrandBegins DEF EditMessage, copy
<1>8. ASSUME NEW r \in Req, NEW m \in Msg, DeleteMessage(r, m) PROVE StrandInv'
    BY Zenon, <1>8, StrandBegins DEF DeleteMessage, copy
<1>9. ASSUME NEW r \in Req, NEW m \in Msg, NEW delete \in BOOLEAN,
             ModerateMessage(r, m, delete)
      PROVE  StrandInv'
    BY Zenon, <1>9, StrandBegins DEF ModerateMessage, copy
<1>10. ASSUME NEW r \in Req, NEW S \in SUBSET Msg, NEW delete \in BOOLEAN,
              BulkModerate(r, S, delete)
       PROVE  StrandInv'
    BY Zenon, <1>10, StrandBegins DEF BulkModerate, copy
<1>11. ASSUME NEW m \in Msg, PublishSystemMessage(m) \/ PruneExpired(m)
       PROVE  StrandInv'
    BY Zenon, <1>1, <1>11 DEF PublishSystemMessage, PruneExpired, copy, marks
<1>12. QED
    BY Zenon, <1>2, <1>3, <1>4, <1>5, <1>6, <1>7, <1>8, <1>9, <1>10, <1>11 DEF Next

(* For any number of messages and requests: trimming leaves no payload     *)
(* behind that no later trim would find, except where a clean-up failed or *)
(* a message was written between the two DELs of an invalidation.          *)
THEOREM NoPayloadLeftBehindAlways == Spec => []NoPayloadLeftBehind
<1>1. Init => StrandInv
  <2> SUFFICES ASSUME Init PROVE StrandInv OBVIOUS
  <2>1. \A m \in Msg : hash[m] = None BY Zenon DEF Init
  <2>2. QED BY Zenon, <2>1 DEF StrandInv, NoPayloadLeftBehind
<1>2. StrandInv => NoPayloadLeftBehind BY Zenon DEF StrandInv
<1>3. QED BY <1>1, <1>2, StrandNextInv, HistoryInvariant, PTL DEF Spec
=============================================================================
