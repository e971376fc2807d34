--------------------------- MODULE SessionsProofs ---------------------------
(***************************************************************************)
(* Sessions end when they should and stay ended, for any number of session *)
(* ids, requests and account changes.  A request that removes an index     *)
(* entry has ended the session before, and one that deletes sessions has   *)
(* all that it must end, except those created meanwhile, among the ids it  *)
(* has yet to go through.                                                  *)
(***************************************************************************)
EXTENDS Sessions, TLAPS

Reqs == [at : {"idle", "create", "del", "srem", "hset", "update", "sweepIds",
               "sweep", "sweepRem", "delete", "purgeIds", "delEach", "delAll",
               "delIndex", "publish", "list", "listRem"},
         sid : Sid \union {NoSid}, cur : Sid \union {NoSid}, ids : SUBSET Sid,
         ev : Epochs]

(* The type invariant, with the set of requests named and the flags apart. *)
Types ==
    /\ hash \in [Sid -> {"absent", "full", "userOnly"}]
    /\ index \subseteq Sid
    /\ epoch \in Epochs
    /\ events \subseteq 1..epoch
    /\ req \in [Req -> Reqs]
    /\ born \in [Sid -> Epochs \union {-1}]
    /\ raced \subseteq Sid /\ late \subseteq Sid
    /\ completed \subseteq 1..epoch
    /\ spared \subseteq Epochs \X Sid

(* A deleted account has changed.                                          *)
FlagInv == disabled \in BOOLEAN /\ deleted \in BOOLEAN /\ (deleted => epoch # 0)

(* The sessions that load.                                                 *)
Loads == {s \in Sid : hash[s] = "full"}

(* Only sessions that were created are indexed or have a hash.             *)
BornInv ==
    /\ \A s \in index : born[s] # -1
    /\ \A s \in Sid : hash[s] # "absent" => born[s] # -1

(* What a request may rely on at each of its commands.                     *)
ReqInv(q) ==
    /\ q.at = "create" => q.ev <= epoch
    /\ q.at \in {"del", "srem", "hset", "update", "sweepIds", "sweep", "sweepRem"} =>
        q.sid \in Sid /\ born[q.sid] # -1
    /\ q.at = "srem" => q.sid \notin Loads
    /\ q.at \in {"sweepRem", "listRem"} =>
        q.cur \in Sid /\ born[q.cur] # -1 /\ q.cur \notin Loads
    /\ q.at \in {"sweepIds", "sweep", "sweepRem", "purgeIds", "delEach", "delAll",
                 "delIndex", "publish"} =>
        q.ev \in 1..epoch
    /\ q.at \in {"delEach", "delAll"} => Loads \subseteq raced \union q.ids
    /\ q.at = "delIndex" => Loads \subseteq raced
    /\ q.at = "publish" =>
        \A s \in Loads : born[s] >= q.ev \/ s \in raced \union late
    /\ q.at \in {"sweep", "sweepRem"} =>
        \A s \in Loads :
            s = q.sid \/ s \in q.ids \/ born[s] >= q.ev \/ s \in raced \union late
    /\ \A s \in q.ids : born[s] # -1

RequestsInv == \A r \in Req : ReqInv(req[r])

SessionsInv ==
    /\ Types /\ FlagInv /\ BornInv /\ RequestsInv
    /\ IndexedUnlessRaced /\ SurvivorsOverlapped

(* It holds for a new account.                                             *)
LEMMA SessionsInitInv == Init => SessionsInv
<1> SUFFICES ASSUME Init PROVE SessionsInv
    BY Zenon
<1> USE SidAssumption, MaxChangesAssumption DEF Init, Epochs
<1>1. Idle \in Reqs BY DEF Idle, Reqs
<1>2. Types BY <1>1 DEF Types
<1>3. FlagInv BY Zenon DEF FlagInv
<1>4. BornInv BY Zenon DEF BornInv
<1>5. RequestsInv BY Zenon DEF RequestsInv, ReqInv, Idle
<1>6. IndexedUnlessRaced /\ SurvivorsOverlapped
    BY Zenon DEF IndexedUnlessRaced, SurvivorsOverlapped, LoadSession
<1>7. QED BY Zenon, <1>2, <1>3, <1>4, <1>5, <1>6 DEF SessionsInv

(* A request that is over relies on nothing.                               *)
LEMMA IdleRelies == Idle \in Reqs /\ ReqInv(Idle) /\ ReqInv(Idle)'
<1>1. Idle \in Reqs BY MaxChangesAssumption DEF Idle, Reqs, Epochs
<1>2. Idle.at = "idle" /\ Idle.ids = {} BY Zenon DEF Idle
<1>3. QED BY Zenon, <1>1, <1>2 DEF ReqInv

(* What is taken out of the index does not load.                           *)
LEMMA DeadIds ==
    ASSUME NEW q, ReqInv(q)
    PROVE  /\ q.at = "srem" => q.sid \notin Loads
           /\ q.at \in {"sweepRem", "listRem"} => q.cur \notin Loads
BY Zenon DEF ReqInv

(* What a request relies on is not disturbed by a step of another that     *)
(* creates no session.                                                     *)
LEMMA Undisturbed ==
    ASSUME Types, Types', Loads' \subseteq Loads, born' = born,
           raced \subseteq raced', late \subseteq late', epoch <= epoch',
           NEW p \in Reqs, ReqInv(p)
    PROVE  ReqInv(p)'
<1>1. epoch \in Int /\ epoch' \in Int /\ p.ev \in Int
    BY MaxChangesAssumption DEF Types, Epochs, Reqs
<1>2. p.ev \in 1..epoch => p.ev \in 1..epoch' BY <1>1
<1>3. p.ev <= epoch => p.ev <= epoch' BY <1>1
<1>4. Loads \subseteq Sid BY Zenon DEF Loads
<1>5. QED BY Zenon, <1>2, <1>3, <1>4 DEF ReqInv

(* A step of request r that creates no session.                            *)
LEMMA RequestMoves ==
    ASSUME SessionsInv, NEW r \in Req, NEW q \in Reqs,
           req' = [req EXCEPT ![r] = q],
           Types', FlagInv', BornInv', IndexedUnlessRaced',
           Loads' \subseteq Loads, UNCHANGED <<born, raced, late>>,
           epoch <= epoch', ReqInv(q)',
           \A n \in completed' \ completed : \A s \in Loads' :
                born[s] >= n \/ s \in raced \union late \/ <<n, s>> \in spared',
           spared \subseteq spared'
    PROVE  SessionsInv'
<1> USE DEF SessionsInv
<1>1. RequestsInv'
  <2> SUFFICES ASSUME NEW o \in Req PROVE ReqInv(req[o])'
      BY Zenon DEF RequestsInv
  <2>1. PICK p \in Reqs : p = req'[o] BY Zenon DEF Types
  <2>2. ReqInv(p)'
    <3>1. CASE o = r BY Zenon, <2>1, <3>1 DEF Types
    <3>2. CASE o # r
      <4>1. p = req[o] BY Zenon, <2>1, <3>2 DEF Types
      <4>2. ReqInv(p) BY <4>1, Zenon DEF RequestsInv
      <4>3. QED BY Zenon, <4>2, Undisturbed
    <3>3. QED BY Zenon, <3>1, <3>2
  <2>3. QED BY <2>1, <2>2, Zenon DEF ReqInv, Loads
<1>2. SurvivorsOverlapped'
    BY Zenon DEF SurvivorsOverlapped, LoadSession, Loads
<1>3. QED BY Zenon, <1>1, <1>2

(* A step of request r that only moves it on.                              *)
LEMMA RequestWaits ==
    ASSUME SessionsInv, NEW r \in Req, NEW q \in Reqs, ReqInv(q),
           req' = [req EXCEPT ![r] = q],
           UNCHANGED <<hash, index, account, history>>
    PROVE  SessionsInv'
<1>1. Types' BY Zenon DEF SessionsInv, Types, account, history
<1>2. FlagInv' BY Zenon DEF SessionsInv, FlagInv, account
<1>3. BornInv' BY Zenon DEF SessionsInv, BornInv, history
<1>4. IndexedUnlessRaced'
    BY Zenon DEF SessionsInv, IndexedUnlessRaced, LoadSession, history
<1>5. Loads' = Loads BY Zenon DEF Loads
<1>6. epoch' = epoch /\ epoch <= epoch'
    BY MaxChangesAssumption DEF account, SessionsInv, Types, Epochs
<1>7. ReqInv(q)' BY Zenon, <1>5, <1>6 DEF ReqInv, history
<1>8. QED
    BY Zenon, <1>1, <1>2, <1>3, <1>4, <1>5, <1>6, <1>7, RequestMoves DEF history

(* A request that starts, or that reads and decides, only moves on.        *)
LEMMA StartInv ==
    ASSUME SessionsInv, NEW r \in Req,
           \/ Login(r) \/ Fail(r) \/ ListEnd(r)
           \/ \E s \in Sid :
                \/ Logout(r, s) \/ UpdateAccount(r, s) \/ ChangePassword(r, s)
                \/ DeleteAccount(r, s) \/ ListSessions(r, s)
                \/ \E t \in Sid : RevokeSession(r, s, t)
    PROVE  SessionsInv'
<1> USE MaxChangesAssumption DEF SessionsInv, Types
<1>0. epoch \in Epochs /\ 0 \in Epochs /\ epoch <= epoch BY DEF Epochs
<1>1. UNCHANGED <<hash, index, account, history>>
    BY Zenon DEF Login, Logout, RevokeSession, UpdateAccount, ChangePassword,
       DeleteAccount, ListSessions, Fail, ListEnd
<1>2. \A s \in Sid : LoadSession(s) => born[s] # -1
    BY Zenon DEF LoadSession, BornInv
<1>3. PICK q : req' = [req EXCEPT ![r] = q] /\ q \in Reqs /\ ReqInv(q)
  <2>1. CASE Login(r)
    <3> DEFINE q == [at |-> "create", sid |-> NoSid, cur |-> NoSid, ids |-> {},
                     ev |-> epoch]
    <3>1. q \in Reqs /\ ReqInv(q) BY Zenon, <1>0 DEF Reqs, ReqInv
    <3>2. req' = [req EXCEPT ![r] = q] BY Zenon, <2>1 DEF Login, Go
    <3>3. QED BY Zenon, <3>1, <3>2
  <2>2. ASSUME NEW at \in {"del", "hset", "update"}, NEW u \in Sid,
               born[u] # -1, Go(r, at, u, {}, 0)
        PROVE  \E q : req' = [req EXCEPT ![r] = q] /\ q \in Reqs /\ ReqInv(q)
    <3> DEFINE q == [at |-> at, sid |-> u, cur |-> NoSid, ids |-> {}, ev |-> 0]
    <3>1. q \in Reqs /\ ReqInv(q) BY Zenon, <1>0, <2>2 DEF Reqs, ReqInv
    <3>2. req' = [req EXCEPT ![r] = q] BY Zenon, <2>2 DEF Go
    <3>3. QED BY Zenon, <3>1, <3>2
  <2>3. CASE \E s \in Sid : DeleteAccount(r, s)
    <3> DEFINE q == [at |-> "delete", sid |-> NoSid, cur |-> NoSid, ids |-> {},
                     ev |-> 0]
    <3>1. q \in Reqs /\ ReqInv(q) BY Zenon, <1>0 DEF Reqs, ReqInv
    <3>2. req' = [req EXCEPT ![r] = q] BY Zenon, <2>3 DEF DeleteAccount, Go
    <3>3. QED BY Zenon, <3>1, <3>2
  <2>4. CASE \E s \in Sid : ListSessions(r, s)
    <3> DEFINE q == [at |-> "list", sid |-> NoSid, cur |-> NoSid, ids |-> index,
                     ev |-> 0]
    <3>1. q \in Reqs /\ ReqInv(q) BY Zenon, <1>0 DEF Reqs, ReqInv, BornInv
    <3>2. req' = [req EXCEPT ![r] = q] BY Zenon, <2>4 DEF ListSessions, Go
    <3>3. QED BY Zenon, <3>1, <3>2
  <2>5. CASE Done(r)
    <3>1. Idle \in Reqs /\ ReqInv(Idle) BY Zenon, <1>0 DEF Reqs, ReqInv, Idle
    <3>2. QED BY Zenon, <2>5, <3>1 DEF Done
  <2>6. QED
      BY Zenon, <1>2, <2>1, <2>2, <2>3, <2>4, <2>5 DEF Logout, RevokeSession,
         UpdateAccount, ChangePassword, Fail, ListEnd
<1>4. QED BY Zenon, <1>1, <1>3, RequestWaits

(* The SMEMBERS of the four loops: what is read covers what loads.         *)
LEMMA ReadIndexInv ==
    ASSUME SessionsInv, NEW r \in Req,
           SweepIds(r) \/ PurgeIds(r) \/ \E n \in 1..MaxChanges : Invalidate(r, n)
    PROVE  SessionsInv'
<1> USE MaxChangesAssumption DEF SessionsInv, Types
<1>0. req[r] \in Reqs /\ ReqInv(req[r]) BY Zenon DEF RequestsInv
<1>1. UNCHANGED <<hash, index, account, history>>
    BY Zenon DEF SweepIds, PurgeIds, Invalidate
<1>2. Loads \subseteq raced \union index
    BY Zenon DEF Loads, IndexedUnlessRaced, LoadSession
<1>3. CASE SweepIds(r)
  <2> DEFINE q == [at |-> "sweep", sid |-> req[r].sid, cur |-> NoSid,
                   ids |-> index \ {req[r].sid}, ev |-> req[r].ev]
  <2>1. /\ req[r].sid \in Sid /\ born[req[r].sid] # -1
        /\ req[r].ev \in 1..epoch /\ req[r].ev \in Epochs
      BY Zenon, <1>0, <1>3 DEF SweepIds, At, ReqInv, Reqs
  <2>2. q \in Reqs BY Zenon, <2>1 DEF Reqs
  <2>3. ReqInv(q) BY Zenon, <1>2, <2>1 DEF ReqInv, BornInv
  <2>4. req' = [req EXCEPT ![r] = q] BY Zenon, <1>3 DEF SweepIds, Go
  <2>5. QED BY Zenon, <1>1, <2>2, <2>3, <2>4, RequestWaits
<1>4. CASE PurgeIds(r)
  <2> DEFINE q == [at |-> "delEach", sid |-> NoSid, cur |-> NoSid, ids |-> index,
                   ev |-> req[r].ev]
  <2>1. req[r].ev \in 1..epoch /\ req[r].ev \in Epochs
      BY Zenon, <1>0, <1>4 DEF PurgeIds, At, ReqInv, Reqs
  <2>2. q \in Reqs BY Zenon, <2>1 DEF Reqs
  <2>3. ReqInv(q) BY Zenon, <1>2, <2>1 DEF ReqInv, BornInv
  <2>4. req' = [req EXCEPT ![r] = q] BY Zenon, <1>4 DEF PurgeIds, Go
  <2>5. QED BY Zenon, <1>1, <2>2, <2>3, <2>4, RequestWaits
<1>5. ASSUME NEW n \in 1..MaxChanges, Invalidate(r, n) PROVE SessionsInv'
  <2> DEFINE q == [at |-> "delAll", sid |-> NoSid, cur |-> NoSid, ids |-> index,
                   ev |-> n]
  <2>1. n \in 1..epoch /\ n \in Epochs BY <1>5 DEF Invalidate, Epochs
  <2>2. q \in Reqs BY Zenon, <2>1 DEF Reqs
  <2>3. ReqInv(q) BY Zenon, <1>2, <2>1 DEF ReqInv, BornInv
  <2>4. req' = [req EXCEPT ![r] = q] BY Zenon, <1>5 DEF Invalidate, Go
  <2>5. QED BY Zenon, <1>1, <2>2, <2>3, <2>4, RequestWaits
<1>6. QED BY Zenon, <1>3, <1>4, <1>5

(* The EXISTS of list_sessions.                                            *)
LEMMA ListExistsInv ==
    ASSUME SessionsInv, NEW r \in Req, NEW t \in Sid, ListExists(r, t)
    PROVE  SessionsInv'
<1> USE DEF SessionsInv, Types
<1>0. req[r] \in Reqs /\ ReqInv(req[r]) BY Zenon DEF RequestsInv
<1>1. /\ UNCHANGED <<hash, index, account, history>>
      /\ req[r].at = "list" /\ t \in req[r].ids
    BY Zenon DEF ListExists, At
<1>2. CASE hash[t] = "absent" /\ Work(r, "listRem", t)
  <2> DEFINE q == [req[r] EXCEPT !.at = "listRem", !.cur = t, !.ids = @ \ {t}]
  <2>1. q \in Reqs BY Zenon, <1>0 DEF Reqs
  <2>2. ReqInv(q) BY Zenon, <1>0, <1>1, <1>2 DEF ReqInv, Loads, Reqs
  <2>3. req' = [req EXCEPT ![r] = q] BY Zenon, <1>0, <1>2 DEF Work, Reqs
  <2>4. QED BY Zenon, <1>1, <2>1, <2>2, <2>3, RequestWaits
<1>3. CASE Skip(r, t)
  <2> DEFINE q == [req[r] EXCEPT !.ids = @ \ {t}]
  <2>1. q \in Reqs BY Zenon, <1>0 DEF Reqs
  <2>2. ReqInv(q) BY Zenon, <1>0, <1>1 DEF ReqInv, Reqs
  <2>3. req' = [req EXCEPT ![r] = q] BY Zenon, <1>0, <1>3 DEF Skip, Reqs
  <2>4. QED BY Zenon, <1>1, <2>1, <2>2, <2>3, RequestWaits
<1>4. QED BY Zenon, <1>2, <1>3 DEF ListExists

(* A step that only ends sessions, or writes to the hash of one.           *)
LEMMA HashShrinks ==
    ASSUME SessionsInv, NEW r \in Req, NEW q \in Reqs, ReqInv(q)',
           req' = [req EXCEPT ![r] = q],
           hash' \in [Sid -> {"absent", "full", "userOnly"}],
           Loads' \subseteq Loads,
           \A s \in Sid : hash'[s] # "absent" => born[s] # -1,
           UNCHANGED <<index, account, history>>
    PROVE  SessionsInv'
<1>1. Types' BY Zenon DEF SessionsInv, Types, account, history
<1>2. FlagInv' BY Zenon DEF SessionsInv, FlagInv, account
<1>3. BornInv' BY Zenon DEF SessionsInv, BornInv, history
<1>4. IndexedUnlessRaced'
    BY Zenon DEF SessionsInv, IndexedUnlessRaced, LoadSession, Loads, history
<1>5. epoch' = epoch /\ epoch <= epoch'
    BY MaxChangesAssumption DEF account, SessionsInv, Types, Epochs
<1>6. QED BY Zenon, <1>1, <1>2, <1>3, <1>4, <1>5, RequestMoves DEF history

(* A step that only takes ended sessions out of the index.                 *)
LEMMA IndexShrinks ==
    ASSUME SessionsInv, NEW r \in Req, NEW q \in Reqs, ReqInv(q),
           req' = [req EXCEPT ![r] = q],
           index' \subseteq index, Loads \subseteq raced \union index',
           UNCHANGED <<hash, account, history>>
    PROVE  SessionsInv'
<1>1. Types' BY Zenon DEF SessionsInv, Types, account, history
<1>2. FlagInv' BY Zenon DEF SessionsInv, FlagInv, account
<1>3. BornInv' BY Zenon DEF SessionsInv, BornInv, history
<1>4. IndexedUnlessRaced'
    BY Zenon DEF IndexedUnlessRaced, LoadSession, Loads, history
<1>5. Loads' = Loads BY Zenon DEF Loads
<1>6. epoch' = epoch /\ epoch <= epoch'
    BY MaxChangesAssumption DEF account, SessionsInv, Types, Epochs
<1>7. ReqInv(q)' BY Zenon, <1>5, <1>6 DEF ReqInv, history
<1>8. QED
    BY Zenon, <1>1, <1>2, <1>3, <1>4, <1>5, <1>6, <1>7, RequestMoves DEF history

(* The DEL of logout and revoke_session and of the loops, and the HSET of  *)
(* update_account.                                                         *)
LEMMA DeleteInv ==
    ASSUME SessionsInv, NEW r \in Req,
           \/ DelSession(r) \/ HsetUser(r) \/ DelAll(r)
           \/ \E t \in Sid : SweepDel(r, t) \/ PurgeDel(r, t)
    PROVE  SessionsInv'
<1> USE DEF SessionsInv, Types
<1>0. req[r] \in Reqs /\ ReqInv(req[r]) BY Zenon DEF RequestsInv
<1>1. UNCHANGED <<index, account, history>>
    BY Zenon DEF DelSession, HsetUser, DelAll, SweepDel, PurgeDel
<1>2. epoch' = epoch /\ born' = born /\ raced' = raced /\ late' = late
    BY Zenon, <1>1 DEF account, history
<1>3. ASSUME NEW u \in Sid, hash' = [hash EXCEPT ![u] = "absent"]
      PROVE  /\ hash' \in [Sid -> {"absent", "full", "userOnly"}]
             /\ Loads' = Loads \ {u}
             /\ \A s \in Sid : hash'[s] # "absent" => born[s] # -1
    BY Zenon, <1>3 DEF Loads, BornInv
<1>4. CASE DelSession(r)
  <2> DEFINE q == [at |-> "srem", sid |-> req[r].sid, cur |-> NoSid, ids |-> {},
                   ev |-> 0]
  <2>1. req[r].sid \in Sid /\ born[req[r].sid] # -1 /\ 0 \in Epochs
      BY <1>0, <1>4, MaxChangesAssumption DEF DelSession, At, ReqInv, Epochs
  <2>2. hash' = [hash EXCEPT ![req[r].sid] = "absent"] BY Zenon, <1>4 DEF DelSession
  <2>3. q \in Reqs BY Zenon, <2>1 DEF Reqs
  <2>4. PICK p \in Reqs : p = q BY Zenon, <2>3
  <2>5. ReqInv(p)'
    <3>1. p.at = "srem" /\ p.sid = req[r].sid /\ p.ids = {} BY Zenon, <2>4
    <3>2. Loads' = Loads \ {req[r].sid} BY Zenon, <1>3, <2>1, <2>2
    <3>3. QED BY Zenon, <1>2, <2>1, <3>1, <3>2 DEF ReqInv
  <2>6. req' = [req EXCEPT ![r] = p] BY Zenon, <1>4, <2>4 DEF DelSession, Go
  <2>7. QED BY Zenon, <1>1, <1>3, <2>1, <2>2, <2>5, <2>6, HashShrinks
<1>5. CASE HsetUser(r)
  <2>1. req[r].sid \in Sid /\ born[req[r].sid] # -1 /\ 0 \in Epochs
      BY <1>0, <1>5, MaxChangesAssumption DEF HsetUser, At, ReqInv, Epochs
  <2>2. PICK p \in Reqs : p = Idle BY Zenon, <2>1 DEF Idle, Reqs
  <2>3. ReqInv(p)' BY Zenon, <2>2 DEF ReqInv, Idle
  <2>4. req' = [req EXCEPT ![r] = p] BY Zenon, <1>5, <2>2 DEF HsetUser, Done
  <2>5. /\ hash' \in [Sid -> {"absent", "full", "userOnly"}]
        /\ Loads' \subseteq Loads
        /\ \A s \in Sid : hash'[s] # "absent" => born[s] # -1
      BY Zenon, <1>5, <2>1 DEF HsetUser, Loads, BornInv
  <2>6. QED BY Zenon, <1>1, <2>3, <2>4, <2>5, HashShrinks
<1>6. CASE DelAll(r)
  <2> DEFINE q == [at |-> "delIndex", sid |-> NoSid, cur |-> NoSid, ids |-> {},
                   ev |-> req[r].ev]
  <2>1. /\ Loads \subseteq raced \union req[r].ids
        /\ req[r].ev \in 1..epoch /\ req[r].ev \in Epochs
      BY Zenon, <1>0, <1>6 DEF DelAll, At, ReqInv, Reqs
  <2>2. hash' = [s \in Sid |-> IF s \in req[r].ids THEN "absent" ELSE hash[s]]
      BY Zenon, <1>6 DEF DelAll
  <2>3. /\ hash' \in [Sid -> {"absent", "full", "userOnly"}]
        /\ Loads' = Loads \ req[r].ids
        /\ \A s \in Sid : hash'[s] # "absent" => born[s] # -1
      BY Zenon, <2>2 DEF Loads, BornInv
  <2>4. PICK p \in Reqs : p = q BY Zenon, <2>1 DEF Reqs
  <2>5. ReqInv(p)' BY Zenon, <1>2, <2>1, <2>3, <2>4 DEF ReqInv
  <2>6. req' = [req EXCEPT ![r] = p] BY Zenon, <1>6, <2>4 DEF DelAll, Go
  <2>7. QED BY Zenon, <1>1, <2>3, <2>5, <2>6, HashShrinks
<1>7. ASSUME NEW t \in Sid, SweepDel(r, t) PROVE SessionsInv'
  <2> DEFINE q == [req[r] EXCEPT !.at = "sweepRem", !.cur = t, !.ids = @ \ {t}]
  <2>1. /\ req[r].at = "sweep" /\ t \in req[r].ids
        /\ hash' = [hash EXCEPT ![t] = "absent"]
      BY Zenon, <1>7 DEF SweepDel, At
  <2>2. PICK p \in Reqs : p = q BY Zenon, <1>0 DEF Reqs
  <2>3. /\ p.at = "sweepRem" /\ p.cur = t /\ p.ids = req[r].ids \ {t}
        /\ p.sid = req[r].sid /\ p.ev = req[r].ev
      BY <1>0, <2>2 DEF Reqs
  <2>4. ReqInv(p)'
    <3>1. Loads' = Loads \ {t} BY Zenon, <1>3, <2>1
    <3>2. QED BY Zenon, <1>0, <1>2, <2>1, <2>3, <3>1 DEF ReqInv
  <2>5. req' = [req EXCEPT ![r] = p]
      BY ZenonT(30), <1>0, <1>7, <2>2 DEF SweepDel, Work, Reqs
  <2>6. QED BY Zenon, <1>1, <1>3, <2>1, <2>4, <2>5, HashShrinks
<1>8. ASSUME NEW t \in Sid, PurgeDel(r, t) PROVE SessionsInv'
  <2> DEFINE q == [req[r] EXCEPT !.ids = @ \ {t}]
  <2>1. /\ req[r].at = "delEach" /\ t \in req[r].ids
        /\ hash' = [hash EXCEPT ![t] = "absent"]
      BY Zenon, <1>8 DEF PurgeDel, At
  <2>2. PICK p \in Reqs : p = q BY Zenon, <1>0 DEF Reqs
  <2>3. p.at = "delEach" /\ p.ids = req[r].ids \ {t} /\ p.ev = req[r].ev
      BY Zenon, <1>0, <2>1, <2>2 DEF Reqs
  <2>4. ReqInv(p)'
    <3>1. Loads' = Loads \ {t} BY Zenon, <1>3, <2>1
    <3>2. QED BY Zenon, <1>0, <1>2, <2>1, <2>3, <3>1 DEF ReqInv
  <2>5. req' = [req EXCEPT ![r] = p]
      BY Zenon, <1>0, <1>8, <2>2 DEF PurgeDel, Skip, Reqs
  <2>6. QED BY Zenon, <1>1, <1>3, <2>1, <2>4, <2>5, HashShrinks
<1>9. QED BY Zenon, <1>4, <1>5, <1>6, <1>7, <1>8

(* The SREM of a session that has ended, and the DEL of the index by the   *)
(* invalidation.                                                           *)
LEMMA RemoveInv ==
    ASSUME SessionsInv, NEW r \in Req,
           SremSession(r) \/ SweepRem(r) \/ ListRem(r) \/ DelIndex(r)
    PROVE  SessionsInv'
<1>0. req[r] \in Reqs /\ ReqInv(req[r]) BY Zenon DEF SessionsInv, Types, RequestsInv
<1>1. UNCHANGED <<hash, account, history>>
    BY Zenon DEF SremSession, SweepRem, ListRem, DelIndex
<1>2. Loads \subseteq raced \union index
    BY Zenon DEF SessionsInv, Loads, IndexedUnlessRaced, LoadSession
<1>3. CASE SremSession(r)
  <2>1. index' = index \ {req[r].sid} /\ req[r].sid \notin Loads
      BY <1>0, <1>3, DeadIds, Zenon DEF SremSession, At
  <2>2. req' = [req EXCEPT ![r] = Idle] BY <1>3, Zenon DEF SremSession, Done
  <2>3. QED BY Zenon, <1>1, <1>2, <2>1, <2>2, IdleRelies, IndexShrinks
<1>4. CASE SweepRem(r)
  <2> DEFINE q == [req[r] EXCEPT !.at = "sweep", !.cur = NoSid, !.ids = @ \ {NoSid}]
  <2>1. index' = index \ {req[r].cur} /\ req[r].cur \notin Loads
        /\ req[r].at = "sweepRem"
      BY Zenon, <1>0, <1>4 DEF SweepRem, At, ReqInv
  <2>2. q \in Reqs BY Zenon, <1>0 DEF Reqs
  <2>3. /\ q.at = "sweep" /\ q.ids = req[r].ids /\ q.sid = req[r].sid
        /\ q.ev = req[r].ev
      BY Zenon, <1>0, SidAssumption DEF Reqs
  <2>4. req' = [req EXCEPT ![r] = q] BY Zenon, <1>0, <1>4 DEF SweepRem, Work, Reqs
  <2> HIDE DEF q
  <2>5. ReqInv(q) BY Zenon, <1>0, <2>1, <2>3 DEF ReqInv
  <2>6. QED BY Zenon, <1>1, <1>2, <2>1, <2>2, <2>4, <2>5, IndexShrinks
<1>5. CASE ListRem(r)
  <2> DEFINE q == [req[r] EXCEPT !.at = "list", !.cur = NoSid, !.ids = @ \ {NoSid}]
  <2>1. index' = index \ {req[r].cur} /\ req[r].cur \notin Loads
      BY Zenon, <1>0, <1>5 DEF ListRem, At, ReqInv
  <2>2. q \in Reqs BY Zenon, <1>0 DEF Reqs
  <2>3. q.at = "list" /\ q.ids = req[r].ids BY Zenon, <1>0, SidAssumption DEF Reqs
  <2>4. req' = [req EXCEPT ![r] = q] BY Zenon, <1>0, <1>5 DEF ListRem, Work, Reqs
  <2> HIDE DEF q
  <2>5. ReqInv(q) BY Zenon, <1>0, <2>3 DEF ReqInv
  <2>6. QED BY Zenon, <1>1, <1>2, <2>1, <2>2, <2>4, <2>5, IndexShrinks
<1>6. CASE DelIndex(r)
  <2> DEFINE q == [at |-> "publish", sid |-> NoSid, cur |-> NoSid, ids |-> {},
                   ev |-> req[r].ev]
  <2>1. /\ index' = {} /\ Loads \subseteq raced
        /\ req[r].ev \in 1..epoch /\ req[r].ev \in Epochs
      BY Zenon, <1>0, <1>6 DEF DelIndex, At, ReqInv, Reqs
  <2>2. q \in Reqs /\ ReqInv(q) BY Zenon, <2>1 DEF Reqs, ReqInv
  <2>3. req' = [req EXCEPT ![r] = q] BY Zenon, <1>6 DEF DelIndex, Go
  <2>4. QED BY Zenon, <1>1, <2>1, <2>2, <2>3, IndexShrinks
<1>7. QED BY Zenon, <1>3, <1>4, <1>5, <1>6

(* The end of a loop or of an invalidation, when it counts as completed.   *)
LEMMA EndInv ==
    ASSUME SessionsInv, NEW r \in Req, SweepEnd(r) \/ PurgeIndex(r) \/ Publish(r)
    PROVE  SessionsInv'
<1>0. req[r] \in Reqs /\ ReqInv(req[r]) BY Zenon DEF SessionsInv, Types, RequestsInv
<1> DEFINE n == req[r].ev
<1>1. /\ UNCHANGED <<hash, disabled, deleted, epoch, born, raced, late>>
      /\ events' \subseteq events /\ index' \subseteq index
      /\ completed' = completed \union {n}
      /\ req' = [req EXCEPT ![r] = Idle]
      /\ req[r].at \in {"sweep", "delEach", "publish"}
    BY Zenon DEF SweepEnd, PurgeIndex, Publish, Done, At, account
<1>2. n \in 1..epoch /\ n \in Epochs BY Zenon, <1>0, <1>1 DEF ReqInv, Reqs
<1>3. spared \subseteq spared' /\ spared' \subseteq Epochs \X Sid
    BY <1>0, <1>2 DEF SweepEnd, PurgeIndex, Publish, At, ReqInv, SessionsInv, Types
<1>4. Loads \subseteq raced \union index'
  <2>1. Loads \subseteq raced \union index
      BY Zenon DEF SessionsInv, Loads, IndexedUnlessRaced, LoadSession
  <2>2. CASE PurgeIndex(r)
      BY Zenon, <1>0, <2>2 DEF PurgeIndex, At, ReqInv
  <2>3. QED BY Zenon, <2>1, <2>2 DEF SweepEnd, Publish
<1>5. \A s \in Loads : born[s] >= n \/ s \in raced \union late \/ <<n, s>> \in spared'
  <2>1. CASE SweepEnd(r)
    <3>1. /\ req[r].at = "sweep" /\ req[r].ids = {}
          /\ spared' = spared \union {<<n, req[r].sid>>}
        BY Zenon, <2>1 DEF SweepEnd, At
    <3>2. \A s \in Loads : s = req[r].sid \/ born[s] >= n \/ s \in raced \union late
        BY Zenon, <1>0, <3>1 DEF ReqInv
    <3>3. QED BY Zenon, <3>1, <3>2
  <2>2. CASE PurgeIndex(r) BY Zenon, <1>0, <2>2 DEF PurgeIndex, At, ReqInv
  <2>3. CASE Publish(r) BY Zenon, <1>0, <2>3 DEF Publish, At, ReqInv
  <2>4. QED BY Zenon, <2>1, <2>2, <2>3
<1> HIDE DEF n
<1> USE MaxChangesAssumption DEF SessionsInv, Types
<1>6. Idle \in Reqs /\ ReqInv(Idle)' BY IdleRelies, Zenon
<1>7. Loads' = Loads /\ epoch <= epoch' BY <1>1 DEF Loads, Epochs
<1>8. Types' BY Zenon, <1>1, <1>2, <1>3, <1>6
<1>9. FlagInv' BY <1>1, Zenon DEF FlagInv
<1>10. BornInv' BY Zenon, <1>1 DEF BornInv
<1>11. IndexedUnlessRaced'
    BY Zenon, <1>1, <1>4 DEF IndexedUnlessRaced, LoadSession, Loads
<1>12. \A m \in completed' \ completed : \A s \in Loads' :
            born[s] >= m \/ s \in raced \union late \/ <<m, s>> \in spared'
    BY Zenon, <1>1, <1>5, <1>7
<1>13. PICK q \in Reqs : q = Idle BY Zenon, <1>6
<1>14. ReqInv(q)' BY Zenon, <1>6, <1>13 DEF ReqInv, Idle
<1>15. QED
    BY Zenon, <1>1, <1>3, <1>7, <1>8, <1>9, <1>10, <1>11, <1>12, <1>13, <1>14, RequestMoves

(* The next epoch is one, and not the first.                               *)
LEMMA BumpType ==
    ASSUME SessionsInv, epoch < MaxChanges
    PROVE  /\ Bump \in Epochs /\ epoch <= Bump /\ Bump \in 1..Bump
           /\ Bump # 0 /\ 1..epoch \subseteq 1..Bump
<1>1. epoch \in Nat /\ MaxChanges \in Nat
    BY MaxChangesAssumption DEF SessionsInv, Types, Epochs
<1>2. CASE deleted
  <2>1. epoch # 0 BY <1>2, Zenon DEF SessionsInv, FlagInv
  <2>2. Bump = epoch BY <1>2, Zenon DEF Bump
  <2>3. QED BY <1>1, <2>1, <2>2 DEF Epochs
<1>3. CASE ~deleted
  <2>1. Bump = epoch + 1 BY <1>3, Zenon DEF Bump
  <2>2. QED BY <1>1, <2>1 DEF Epochs
<1>4. QED BY Zenon, <1>2, <1>3

(* The transactions of change_password and delete_account.                 *)
LEMMA CommitInv ==
    ASSUME SessionsInv, NEW r \in Req, CommitPassword(r) \/ CommitDelete(r)
    PROVE  SessionsInv'
<1> USE DEF SessionsInv, Types
<1>0. req[r] \in Reqs /\ ReqInv(req[r]) BY Zenon DEF RequestsInv
<1>1. /\ UNCHANGED <<hash, index, events, history>>
      /\ epoch < MaxChanges /\ epoch' = Bump
    BY Zenon DEF CommitPassword, CommitDelete
<1>2. epoch' \in Epochs /\ epoch <= epoch' /\ epoch' \in 1..epoch' /\ epoch' # 0
      /\ 1..epoch \subseteq 1..epoch'
    BY Zenon, <1>1, BumpType
<1>3. FlagInv'
  <2>1. CASE CommitPassword(r)
      BY <1>2, <2>1, Zenon DEF CommitPassword, FlagInv
  <2>2. CASE CommitDelete(r)
    <3>1. disabled' \in BOOLEAN BY <2>2, Zenon DEF CommitDelete, FlagInv
    <3>2. deleted' = TRUE BY <2>2, Zenon DEF CommitDelete
    <3>3. QED BY <1>2, <3>1, <3>2, Zenon DEF FlagInv
  <2>3. QED BY Zenon, <2>1, <2>2
<1>4. PICK q \in Reqs : ReqInv(q)' /\ req' = [req EXCEPT ![r] = q]
  <2>1. CASE CommitPassword(r)
    <3>1. req[r].sid \in Sid /\ born[req[r].sid] # -1
        BY Zenon, <1>0, <2>1 DEF CommitPassword, At, ReqInv
    <3>2. PICK q \in Reqs : q = [at |-> "sweepIds", sid |-> req[r].sid,
                                 cur |-> NoSid, ids |-> {}, ev |-> epoch']
        BY Zenon, <1>2, <3>1 DEF Reqs
    <3>3. ReqInv(q)' BY Zenon, <1>1, <1>2, <3>1, <3>2 DEF ReqInv, history
    <3>4. req' = [req EXCEPT ![r] = q]
        BY Zenon, <1>1, <2>1, <3>2 DEF CommitPassword, Go
    <3>5. QED BY Zenon, <3>3, <3>4
  <2>2. CASE CommitDelete(r)
    <3>1. PICK q \in Reqs : q = [at |-> "purgeIds", sid |-> NoSid,
                                 cur |-> NoSid, ids |-> {}, ev |-> epoch']
        BY Zenon, <1>2 DEF Reqs
    <3>2. ReqInv(q)' BY Zenon, <1>2, <3>1 DEF ReqInv
    <3>3. req' = [req EXCEPT ![r] = q]
        BY Zenon, <1>1, <2>2, <3>1 DEF CommitDelete, Go
    <3>4. QED BY Zenon, <3>2, <3>3
  <2>3. QED BY Zenon, <2>1, <2>2
<1>5. Types' BY Zenon, <1>1, <1>2, <1>4 DEF history
<1>6. BornInv' /\ IndexedUnlessRaced' /\ Loads' = Loads
    BY Zenon, <1>1 DEF BornInv, IndexedUnlessRaced, LoadSession, Loads, history
<1>7. QED BY Zenon, <1>1, <1>2, <1>3, <1>4, <1>5, <1>6, RequestMoves DEF history

(* A step of no request.                                                   *)
LEMMA OthersMove ==
    ASSUME SessionsInv, UNCHANGED <<index, req, history>>, Types', FlagInv',
           BornInv', Loads' \subseteq Loads, epoch <= epoch'
    PROVE  SessionsInv'
<1> USE DEF SessionsInv
<1>1. RequestsInv'
  <2> SUFFICES ASSUME NEW o \in Req PROVE ReqInv(req[o])'
      BY Zenon DEF RequestsInv
  <2>1. PICK p \in Reqs : p = req[o] BY Zenon DEF Types
  <2>2. ReqInv(p) BY <2>1, Zenon DEF RequestsInv
  <2>3. ReqInv(p)' BY Zenon, <2>2, Undisturbed DEF history
  <2>4. p = req'[o] BY Zenon, <2>1
  <2>5. QED BY <2>3, <2>4, Zenon DEF ReqInv, Loads
<1>2. SurvivorsOverlapped'
    BY Zenon DEF SurvivorsOverlapped, LoadSession, Loads, history
<1>3. IndexedUnlessRaced'
    BY Zenon DEF IndexedUnlessRaced, LoadSession, Loads, history
<1>4. QED BY Zenon, <1>1, <1>2, <1>3

(* Account changes of the administration and of the recovery, and the end  *)
(* of a lifetime.                                                          *)
LEMMA OthersInv ==
    ASSUME SessionsInv, AdminStep \/ \E s \in Sid : Expire(s)
    PROVE  SessionsInv'
<1> USE MaxChangesAssumption DEF SessionsInv, Types
<1>1. CASE AdminStep
  <2>1. /\ epoch < MaxChanges /\ epoch' = epoch + 1
        /\ events' = events \union {epoch + 1}
        /\ UNCHANGED <<hash, index, req, history>>
      BY <1>1, Zenon DEF AdminStep, SetUserDisabled, AdminDeleteUser,
         AdminResetPassword, AdminInvalidateSessions, AssignRole, AdminRemoveRole,
         ResetRecovery, QueueAuthInvalidation
  <2>2. /\ epoch' \in Epochs /\ epoch <= epoch' /\ epoch' # 0
        /\ 1..epoch \subseteq 1..epoch' /\ epoch + 1 \in 1..epoch'
      BY <2>1 DEF Epochs
  <2>3. Types' BY Zenon, <2>1, <2>2 DEF history
  <2>4. disabled' \in BOOLEAN /\ deleted' \in BOOLEAN
      BY <1>1, Zenon DEF AdminStep, SetUserDisabled, AdminDeleteUser,
         AdminResetPassword, AdminInvalidateSessions, AssignRole, AdminRemoveRole,
         ResetRecovery, FlagInv
  <2>5. FlagInv' BY <2>2, <2>4, Zenon DEF FlagInv
  <2>6. BornInv' /\ Loads' = Loads BY Zenon, <2>1 DEF BornInv, Loads, history
  <2>7. QED BY Zenon, <2>1, <2>2, <2>3, <2>5, <2>6, OthersMove
<1>2. ASSUME NEW s \in Sid, Expire(s) PROVE SessionsInv'
  <2>1. hash' = [hash EXCEPT ![s] = "absent"] /\ UNCHANGED <<index, account, req, history>>
      BY Zenon, <1>2 DEF Expire
  <2>2. Types' BY Zenon, <2>1 DEF account, history
  <2>3. FlagInv' BY <2>1, Zenon DEF FlagInv, account
  <2>4. BornInv' /\ Loads' \subseteq Loads
      BY Zenon, <2>1 DEF BornInv, Loads, history
  <2>5. epoch <= epoch' BY <2>1 DEF account, Epochs
  <2>6. QED BY Zenon, <2>1, <2>2, <2>3, <2>4, <2>5, OthersMove
<1>3. QED BY Zenon, <1>1, <1>2

(* create_session: the new session is raced for a purge under way, late    *)
(* for a change since the login, or of the current epoch.                  *)
LEMMA CreateInv ==
    ASSUME SessionsInv, NEW r \in Req, NEW s \in Sid, CreateSession(r, s)
    PROVE  SessionsInv'
<1> USE MaxChangesAssumption DEF SessionsInv, Types
<1>0. req[r] \in Reqs /\ ReqInv(req[r]) BY Zenon DEF RequestsInv
<1> DEFINE ev == req[r].ev
<1>1. /\ born[s] = -1
      /\ hash' = [hash EXCEPT ![s] = "full"] /\ index' = index \union {s}
      /\ born' = [born EXCEPT ![s] = ev]
      /\ req' = [req EXCEPT ![r] = Idle]
      /\ UNCHANGED <<account, completed, spared>>
    BY Zenon DEF CreateSession, Done
<1>2. raced \subseteq raced' /\ raced' \subseteq Sid /\ (Purging => s \in raced')
    BY Zenon DEF CreateSession
<1>3. late \subseteq late' /\ late' \subseteq Sid /\ (ev < epoch => s \in late')
    BY Zenon DEF CreateSession
<1>4. ev \in Epochs /\ ev <= epoch /\ epoch \in Nat
    BY <1>0 DEF CreateSession, At, ReqInv, Reqs, Epochs
<1>5. epoch' = epoch /\ events' = events /\ disabled' = disabled /\ deleted' = deleted
    BY Zenon, <1>1 DEF account
<1> HIDE DEF ev
<1>6. Loads' = Loads \union {s} BY Zenon, <1>1 DEF Loads
<1>7. /\ born'[s] = ev /\ ev # -1
      /\ \A x \in Sid : x # s => born'[x] = born[x]
      /\ \A x \in Sid : born[x] # -1 => x # s /\ born'[x] # -1
    BY <1>1, <1>4 DEF Epochs
<1>8. \A n \in 1..epoch : born'[s] >= n \/ s \in late'
    BY <1>3, <1>4, <1>7 DEF Epochs
<1>9. Idle \in Reqs BY DEF Idle, Reqs, Epochs
<1>10. Types' BY Zenon, <1>1, <1>2, <1>3, <1>4, <1>5, <1>9
<1>11. FlagInv' BY <1>5, Zenon DEF FlagInv
<1>12. BornInv' BY Zenon, <1>1, <1>7 DEF BornInv
<1>13. IndexedUnlessRaced' BY Zenon, <1>1, <1>2 DEF IndexedUnlessRaced, LoadSession
<1>14. SurvivorsOverlapped'
  <2> SUFFICES ASSUME NEW n \in completed, NEW x \in Sid, hash'[x] = "full"
               PROVE  born'[x] >= n \/ x \in raced' \union late' \/ <<n, x>> \in spared
      BY Zenon, <1>1 DEF SurvivorsOverlapped, LoadSession
  <2>1. CASE x = s BY Zenon, <1>8, <2>1
  <2>2. CASE x # s
    <3>1. hash[x] = "full" BY Zenon, <1>1, <2>2
    <3>2. QED
        BY Zenon, <1>2, <1>3, <1>7, <2>2, <3>1 DEF SurvivorsOverlapped, LoadSession
  <2>3. QED BY Zenon, <2>1, <2>2
<1>15. RequestsInv'
  <2> SUFFICES ASSUME NEW o \in Req PROVE ReqInv(req[o])'
      BY Zenon DEF RequestsInv
  <2>1. CASE o = r
    <3>1. req'[o] = Idle BY Zenon, <1>1, <2>1
    <3>2. QED BY <3>1 DEF ReqInv, Idle
  <2>2. CASE o # r
    <3>1. PICK p \in Reqs : p = req[o] /\ p = req'[o] BY Zenon, <1>1, <2>2
    <3>2. ReqInv(p) BY <3>1, Zenon DEF RequestsInv
    <3>3. p.at \in {"delEach", "delAll", "delIndex"} => s \in raced'
        BY ZenonT(30), <1>2, <3>1 DEF Purging
    <3>4. \A x \in Loads : x \in Sid /\ x # s /\ born'[x] = born[x]
        BY Zenon, <1>7 DEF Loads, BornInv
    <3>5. p.ids \subseteq Sid BY Zenon DEF Reqs
    <3>6. ReqInv(p)'
      <4>1. /\ p.at = "create" => p.ev <= epoch'
            /\ p.at \in {"del", "srem", "hset", "update", "sweepIds", "sweep",
                         "sweepRem"} =>
                p.sid \in Sid /\ born'[p.sid] # -1
            /\ p.at = "srem" => p.sid \notin Loads'
            /\ p.at \in {"sweepRem", "listRem"} =>
                p.cur \in Sid /\ born'[p.cur] # -1 /\ p.cur \notin Loads'
          BY Zenon, <1>5, <1>6, <1>7, <3>2 DEF ReqInv
      <4>2. /\ p.at \in {"sweepIds", "sweep", "sweepRem", "purgeIds", "delEach",
                         "delAll", "delIndex", "publish"} => p.ev \in 1..epoch'
            /\ p.at \in {"delEach", "delAll"} => Loads' \subseteq raced' \union p.ids
            /\ p.at = "delIndex" => Loads' \subseteq raced'
          BY Zenon, <1>2, <1>5, <1>6, <3>2, <3>3 DEF ReqInv
      <4>3. p.at = "publish" =>
                \A x \in Loads' : born'[x] >= p.ev \/ x \in raced' \union late'
          BY Zenon, <1>2, <1>3, <1>6, <1>8, <3>2, <3>4 DEF ReqInv
      <4>4. p.at \in {"sweep", "sweepRem"} =>
                \A x \in Loads' : x = p.sid \/ x \in p.ids \/ born'[x] >= p.ev
                                  \/ x \in raced' \union late'
          BY Zenon, <1>2, <1>3, <1>6, <1>8, <3>2, <3>4 DEF ReqInv
      <4>5. \A x \in p.ids : born'[x] # -1 BY Zenon, <1>7, <3>2, <3>5 DEF ReqInv
      <4>6. QED BY <4>1, <4>2, <4>3, <4>4, <4>5, Zenon DEF ReqInv
    <3>7. QED BY <3>1, <3>6, Zenon DEF ReqInv, Loads
  <2>3. QED BY Zenon, <2>1, <2>2
<1>16. QED BY Zenon, <1>10, <1>11, <1>12, <1>13, <1>14, <1>15

(* So every step preserves the invariant.                                  *)
LEMMA SessionsStepInv == SessionsInv /\ [Next]_vars => SessionsInv'
<1> SUFFICES ASSUME SessionsInv, [Next]_vars PROVE SessionsInv'
    BY Zenon
<1>1. ASSUME NEW r \in Req, RequestStep(r) PROVE SessionsInv'
    BY Zenon, <1>1, StartInv, ReadIndexInv, DeleteInv, RemoveInv, EndInv, CommitInv
    DEF RequestStep
<1>2. ASSUME NEW r \in Req, NEW s \in Sid, SessionStep(r, s) PROVE SessionsInv'
    BY Zenon, <1>2, CreateInv, StartInv, DeleteInv, ListExistsInv DEF SessionStep
<1>3. ASSUME NEW r \in Req, NEW s \in Sid, NEW t \in Sid, RevokeSession(r, s, t)
      PROVE  SessionsInv'
    BY Zenon, <1>3, StartInv
<1>4. ASSUME NEW r \in Req, NEW n \in 1..MaxChanges, Invalidate(r, n)
      PROVE  SessionsInv'
    BY Zenon, <1>4, ReadIndexInv
<1>5. CASE (\E s \in Sid : Expire(s)) \/ AdminStep BY Zenon, <1>5, OthersInv
<1>6. CASE UNCHANGED vars
  <2>1. UNCHANGED <<hash, index, account, req, history>>
      BY Zenon, <1>6 DEF vars, account, history
  <2>2. Types' /\ BornInv' /\ Loads' = Loads
      BY Zenon, <2>1 DEF SessionsInv, Types, BornInv, Loads, account, history
  <2>3. FlagInv' BY <2>1, Zenon DEF SessionsInv, FlagInv, account
  <2>4. epoch <= epoch'
      BY <2>1, MaxChangesAssumption DEF account, SessionsInv, Types, Epochs
  <2>5. QED BY Zenon, <2>1, <2>2, <2>3, <2>4, OthersMove
<1>7. QED BY Zenon, <1>1, <1>2, <1>3, <1>4, <1>5, <1>6 DEF Next

(* A hash is full only after create_session; HSET never makes one so.      *)
LEMMA EndedStep == Types /\ [Next]_vars =>
    [\A s \in Sid : born[s] # -1 /\ ~LoadSession(s) => hash'[s] # "full"]_vars
<1> SUFFICES ASSUME hash \in [Sid -> {"absent", "full", "userOnly"}], Next,
                    NEW s \in Sid, born[s] # -1, hash[s] # "full"
             PROVE  hash'[s] # "full"
    BY Zenon DEF LoadSession, Types
<1>1. ASSUME NEW r \in Req, RequestStep(r) PROVE hash'[s] # "full"
  <2>1. CASE DelSession(r) BY Zenon, <2>1 DEF DelSession
  <2>2. CASE HsetUser(r) BY Zenon, <2>2 DEF HsetUser
  <2>3. CASE DelAll(r) BY Zenon, <2>3 DEF DelAll
  <2>4. CASE hash' = hash BY Zenon, <2>4
  <2>5. QED
      BY Zenon, <1>1, <2>1, <2>2, <2>3, <2>4 DEF RequestStep, Login, SremSession,
         CommitPassword, SweepIds, SweepRem, SweepEnd, CommitDelete, PurgeIds,
         PurgeIndex, ListRem, ListEnd, DelIndex, Publish, Fail
<1>2. ASSUME NEW r \in Req, NEW t \in Sid, SessionStep(r, t)
      PROVE  hash'[s] # "full"
  <2>1. CASE CreateSession(r, t) BY Zenon, <2>1 DEF CreateSession
  <2>2. CASE SweepDel(r, t) BY Zenon, <2>2 DEF SweepDel
  <2>3. CASE PurgeDel(r, t) BY Zenon, <2>3 DEF PurgeDel
  <2>4. CASE hash' = hash BY Zenon, <2>4
  <2>5. QED
      BY Zenon, <1>2, <2>1, <2>2, <2>3, <2>4 DEF SessionStep, Logout, UpdateAccount,
         ChangePassword, DeleteAccount, ListSessions, ListExists
<1>3. CASE \E r \in Req, t, u \in Sid : RevokeSession(r, t, u)
    BY Zenon, <1>3 DEF RevokeSession
<1>4. CASE \E r \in Req, n \in 1..MaxChanges : Invalidate(r, n)
    BY Zenon, <1>4 DEF Invalidate
<1>5. CASE \E t \in Sid : Expire(t) BY Zenon, <1>5 DEF Expire
<1>6. CASE AdminStep
  <2>1. hash' = hash
      BY <1>6, Zenon DEF AdminStep, SetUserDisabled, AdminDeleteUser,
         AdminResetPassword, AdminInvalidateSessions, AssignRole, AdminRemoveRole,
         ResetRecovery, QueueAuthInvalidation
  <2>2. QED BY Zenon, <2>1
<1>7. QED BY Zenon, <1>1, <1>2, <1>3, <1>4, <1>5, <1>6 DEF Next

(* The types of the module's state.                                        *)
THEOREM SessionsTypes == Spec => []TypeOK
<1>1. SessionsInv => TypeOK
    BY Zenon DEF SessionsInv, Types, FlagInv, TypeOK, Reqs
<1>2. QED BY <1>1, SessionsInitInv, SessionsStepInv, PTL DEF Spec

(* The per-user index of auth.rs lists every session that loads, however   *)
(* requests interleave or die, except those created inside a purge.        *)
THEOREM IndexedUnlessRacedAlways == Spec => []IndexedUnlessRaced
<1>1. SessionsInv => IndexedUnlessRaced BY Zenon DEF SessionsInv
<1>2. QED BY <1>1, SessionsInitInv, SessionsStepInv, PTL DEF Spec

(* After an invalidation, a self-deletion or a password change has run to  *)
(* its end only sessions whose creation overlapped it, and the one that    *)
(* changed the password, are left of those from before.                    *)
THEOREM SurvivorsOverlappedAlways == Spec => []SurvivorsOverlapped
<1>1. SessionsInv => SurvivorsOverlapped BY Zenon DEF SessionsInv
<1>2. QED BY <1>1, SessionsInitInv, SessionsStepInv, PTL DEF Spec

(* A session that has ended never loads again, although update_account may *)
(* still write to its hash.                                                *)
THEOREM EndedStaysEndedAlways == Spec => EndedStaysEnded
<1>1. SessionsInv => Types BY Zenon DEF SessionsInv
<1>2. QED
    BY <1>1, SessionsInitInv, SessionsStepInv, EndedStep, PTL
    DEF Spec, EndedStaysEnded
=============================================================================
