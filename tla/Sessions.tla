------------------------------ MODULE Sessions ------------------------------
(***************************************************************************)
(* The Valkey sessions of one user (backend/src/auth.rs, api/account.rs,   *)
(* api/admin.rs and the auth.invalidate handler of outbox.rs).  A session  *)
(* is a hash with the fields csrf and user; a per-user set indexes the     *)
(* session ids.  Requests of several replicas interleave command by        *)
(* command, and any of them may die between two commands.                  *)
(***************************************************************************)
EXTENDS Integers

CONSTANTS
    Sid,          \* session ids; Uuid::now_v7 never repeats one
    Req,          \* concurrent requests and outbox handlers, on any replica
    NoSid,
    MaxChanges    \* bound on the account changes considered

ASSUME SidAssumption == NoSid \notin Sid
ASSUME MaxChangesAssumption == MaxChanges \in Nat

VARIABLES
    hash,       \* "absent", "full" (csrf and user) or "userOnly"
    index,      \* vussa:user_sessions:<user>
    disabled,   \* users.disabled_at IS NOT NULL
    deleted,    \* users.deleted_at IS NOT NULL
    epoch,      \* number of account changes that are to end older sessions
    events,     \* auth.invalidate events not yet handled, by epoch
    req,        \* what each request is about to do
    born,       \* history: the epoch the session's login read, -1 before
    raced,      \* history: sessions created between SMEMBERS and DEL index
    late,       \* history: sessions created after their epoch had passed
    completed,  \* history: epochs whose invalidation ran to its end
    spared      \* history: <<epoch, session>> kept by change_password

account == <<disabled, deleted, epoch, events>>
history == <<born, raced, late, completed, spared>>
vars == <<hash, index, disabled, deleted, epoch, events, req, born, raced,
          late, completed, spared>>

Epochs == 0..MaxChanges
Idle == [at |-> "idle", sid |-> NoSid, cur |-> NoSid, ids |-> {}, ev |-> 0]

TypeOK ==
    /\ hash \in [Sid -> {"absent", "full", "userOnly"}]
    /\ index \subseteq Sid
    /\ disabled \in BOOLEAN /\ deleted \in BOOLEAN
    /\ epoch \in Epochs
    /\ events \subseteq 1..epoch
    /\ req \in [Req -> [at : {"idle", "create", "del", "srem", "hset",
                              "update", "sweepIds", "sweep", "sweepRem",
                              "delete", "purgeIds", "delEach",
                              "delAll", "delIndex", "publish", "list",
                              "listRem"},
                        sid : Sid \union {NoSid},
                        cur : Sid \union {NoSid}, ids : SUBSET Sid, ev : Epochs]]
    /\ born \in [Sid -> Epochs \union {-1}]
    /\ raced \subseteq Sid /\ late \subseteq Sid
    /\ completed \subseteq 1..epoch
    /\ spared \subseteq Epochs \X Sid

(* register_user has made the account; its first session is yet to come.   *)
Init ==
    /\ hash = [s \in Sid |-> "absent"]
    /\ index = {}
    /\ disabled = FALSE /\ deleted = FALSE
    /\ epoch = 0
    /\ events = {}
    /\ req = [r \in Req |-> Idle]
    /\ born = [s \in Sid |-> -1]
    /\ raced = {} /\ late = {}
    /\ completed = {}
    /\ spared = {}

Go(r, at, s, ids, ev) ==
    req' = [req EXCEPT ![r] =
        [at |-> at, sid |-> s, cur |-> NoSid, ids |-> ids, ev |-> ev]]
Work(r, at, t) ==
    req' = [req EXCEPT ![r].at = at, ![r].cur = t, ![r].ids = @ \ {t}]
Skip(r, t) == req' = [req EXCEPT ![r].ids = @ \ {t}]
Done(r) == req' = [req EXCEPT ![r] = Idle]
At(r, label) == req[r].at = label

(* load_session: HMGET csrf, user must both be present; EXPIRE refreshes   *)
(* the lifetime.                                                           *)
LoadSession(s) == hash[s] = "full"

(* Between reading the index and deleting it.                              *)
Purging == \E r \in Req : req[r].at \in {"delEach", "delAll", "delIndex"}

(* login up to the verified password: the account row has been read.       *)
Login(r) ==
    /\ At(r, "idle")
    /\ ~disabled
    /\ Go(r, "create", NoSid, {}, epoch)
    /\ UNCHANGED <<hash, index, account, history>>

(* create_session: one MULTI block of HSET, EXPIRE and SADD.               *)
CreateSession(r, s) ==
    /\ At(r, "create")
    /\ born[s] = -1
    /\ hash' = [hash EXCEPT ![s] = "full"]
    /\ index' = index \union {s}
    /\ born' = [born EXCEPT ![s] = req[r].ev]
    /\ raced' = IF Purging THEN raced \union {s} ELSE raced
    /\ late' = IF req[r].ev < epoch THEN late \union {s} ELSE late
    /\ Done(r)
    /\ UNCHANGED <<account, completed, spared>>

(* logout of session s, up to its DEL.                                     *)
Logout(r, s) ==
    /\ At(r, "idle")
    /\ LoadSession(s)
    /\ Go(r, "del", s, {}, 0)
    /\ UNCHANGED <<hash, index, account, history>>

(* revoke_session of another session t by session s, up to its DEL.        *)
RevokeSession(r, s, t) ==
    /\ At(r, "idle")
    /\ LoadSession(s)
    /\ t # s /\ born[t] # -1
    /\ Go(r, "del", t, {}, 0)
    /\ UNCHANGED <<hash, index, account, history>>

DelSessionSremFirst(r) ==
    /\ At(r, "del")
    /\ index' = index \ {req[r].sid}
    /\ Go(r, "srem", req[r].sid, {}, 0)
    /\ UNCHANGED <<hash, account, history>>

(* DEL session_key(id), of logout and of revoke_session.                   *)
DelSession(r) ==
    /\ At(r, "del")
    /\ hash' = [hash EXCEPT ![req[r].sid] = "absent"]
    /\ Go(r, "srem", req[r].sid, {}, 0)
    /\ UNCHANGED <<index, account, history>>

(* SREM vussa:user_sessions id.                                            *)
SremSession(r) ==
    /\ At(r, "srem")
    /\ index' = index \ {req[r].sid}
    /\ Done(r)
    /\ UNCHANGED <<hash, account, history>>

(* update_account by session s; update_username fails on a deleted user.   *)
UpdateAccount(r, s) ==
    /\ At(r, "idle")
    /\ LoadSession(s)
    /\ ~deleted
    /\ Go(r, "hset", s, {}, 0)
    /\ UNCHANGED <<hash, index, account, history>>

HsetWholeSession(r) ==
    /\ At(r, "hset")
    /\ hash' = [hash EXCEPT ![req[r].sid] = "full"]
    /\ Done(r)
    /\ UNCHANGED <<index, account, history>>

(* HSET session user: recreates a hash deleted meanwhile, without csrf and *)
(* without a lifetime.                                                     *)
HsetUser(r) ==
    /\ At(r, "hset")
    /\ hash' = [hash EXCEPT ![req[r].sid] = IF @ = "full" THEN "full" ELSE "userOnly"]
    /\ Done(r)
    /\ UNCHANGED <<index, account, history>>

(* change_password by session s, up to the verified current password.      *)
ChangePassword(r, s) ==
    /\ At(r, "idle")
    /\ LoadSession(s)
    /\ ~disabled
    /\ Go(r, "update", s, {}, 0)
    /\ UNCHANGED <<hash, index, account, history>>

(* An account change commits; a deleted row is left alone but the request  *)
(* goes on.                                                                *)
Bump == IF deleted THEN epoch ELSE epoch + 1

CommitPassword(r) ==
    /\ At(r, "update")
    /\ epoch < MaxChanges
    /\ epoch' = Bump
    /\ Go(r, "sweepIds", req[r].sid, {}, Bump)
    /\ UNCHANGED <<hash, index, disabled, deleted, events, history>>

(* SMEMBERS; then DEL and SREM for every other session.                    *)
SweepIds(r) ==
    /\ At(r, "sweepIds")
    /\ Go(r, "sweep", req[r].sid, index \ {req[r].sid}, req[r].ev)
    /\ UNCHANGED <<hash, index, account, history>>

SweepDel(r, t) ==
    /\ At(r, "sweep")
    /\ t \in req[r].ids
    /\ hash' = [hash EXCEPT ![t] = "absent"]
    /\ Work(r, "sweepRem", t)
    /\ UNCHANGED <<index, account, history>>

SweepRem(r) ==
    /\ At(r, "sweepRem")
    /\ index' = index \ {req[r].cur}
    /\ Work(r, "sweep", NoSid)
    /\ UNCHANGED <<hash, account, history>>

(* The loop is over: change_password records its audit entry and returns.  *)
SweepEnd(r) ==
    /\ At(r, "sweep")
    /\ req[r].ids = {}
    /\ completed' = completed \union {req[r].ev}
    /\ spared' = spared \union {<<req[r].ev, req[r].sid>>}
    /\ Done(r)
    /\ UNCHANGED <<hash, index, account, born, raced, late>>

(* delete_account by session s, and its transaction.                       *)
DeleteAccount(r, s) ==
    /\ At(r, "idle")
    /\ LoadSession(s)
    /\ Go(r, "delete", NoSid, {}, 0)
    /\ UNCHANGED <<hash, index, account, history>>

CommitDelete(r) ==
    /\ At(r, "delete")
    /\ epoch < MaxChanges
    /\ epoch' = Bump
    /\ disabled' = (disabled \/ ~deleted)
    /\ deleted' = TRUE
    /\ Go(r, "purgeIds", NoSid, {}, Bump)
    /\ UNCHANGED <<hash, index, events, history>>

(* SMEMBERS, one DEL per session, DEL of the index.                        *)
PurgeIds(r) ==
    /\ At(r, "purgeIds")
    /\ Go(r, "delEach", NoSid, index, req[r].ev)
    /\ UNCHANGED <<hash, index, account, history>>

PurgeDel(r, t) ==
    /\ At(r, "delEach")
    /\ t \in req[r].ids
    /\ hash' = [hash EXCEPT ![t] = "absent"]
    /\ Skip(r, t)
    /\ UNCHANGED <<index, account, history>>

PurgeIndex(r) ==
    /\ At(r, "delEach")
    /\ req[r].ids = {}
    /\ index' = {}
    /\ completed' = completed \union {req[r].ev}
    /\ Done(r)
    /\ UNCHANGED <<hash, account, born, raced, late, spared>>

(* list_sessions by session s: SMEMBERS, then EXISTS for every id and SREM *)
(* of the stale ones.                                                      *)
ListSessions(r, s) ==
    /\ At(r, "idle")
    /\ LoadSession(s)
    /\ Go(r, "list", NoSid, index, 0)
    /\ UNCHANGED <<hash, index, account, history>>

ListExists(r, t) ==
    /\ At(r, "list")
    /\ t \in req[r].ids
    /\ IF hash[t] = "absent" THEN Work(r, "listRem", t) ELSE Skip(r, t)
    /\ UNCHANGED <<hash, index, account, history>>

ListRem(r) ==
    /\ At(r, "listRem")
    /\ index' = index \ {req[r].cur}
    /\ Work(r, "list", NoSid)
    /\ UNCHANGED <<hash, account, history>>

ListEnd(r) ==
    /\ At(r, "list")
    /\ req[r].ids = {}
    /\ Done(r)
    /\ UNCHANGED <<hash, index, account, history>>
-----------------------------------------------------------------------------
(* queue_auth_invalidation, inside the transaction of the account change.  *)
QueueAuthInvalidation ==
    /\ epoch < MaxChanges
    /\ epoch' = epoch + 1
    /\ events' = events \union {epoch + 1}
    /\ UNCHANGED <<hash, index, req, history>>

(* set_user_disabled, of admin_disable_user and admin_enable_user.         *)
SetUserDisabled(flag) ==
    /\ disabled' = flag
    /\ UNCHANGED deleted
    /\ QueueAuthInvalidation

AdminDeleteUser ==
    /\ ~deleted
    /\ deleted' = TRUE
    /\ disabled' = TRUE
    /\ QueueAuthInvalidation

AdminResetPassword ==
    /\ ~deleted
    /\ UNCHANGED <<disabled, deleted>>
    /\ QueueAuthInvalidation

AdminInvalidateSessions ==
    /\ UNCHANGED <<disabled, deleted>>
    /\ QueueAuthInvalidation

(* assign_role of a role the user lacks, admin_remove_role of one they     *)
(* have: older sessions hold the permissions of before.                    *)
AssignRole ==
    /\ UNCHANGED <<disabled, deleted>>
    /\ QueueAuthInvalidation

AdminRemoveRole ==
    /\ UNCHANGED <<disabled, deleted>>
    /\ QueueAuthInvalidation

(* reset_recovery with a token that is neither used nor expired.           *)
ResetRecovery ==
    /\ UNCHANGED <<disabled, deleted>>
    /\ QueueAuthInvalidation

InvalidateTakingIndex(r, n) ==
    /\ At(r, "idle")
    /\ n \in events
    /\ Go(r, "delAll", NoSid, index, n)
    /\ index' = {}
    /\ UNCHANGED <<hash, account, history>>

(* handle_auth_invalidate, run by an outbox worker: SMEMBERS, one DEL of   *)
(* all session keys, DEL of the index, PUBLISH.                            *)
Invalidate(r, n) ==
    /\ At(r, "idle")
    /\ n \in events
    /\ Go(r, "delAll", NoSid, index, n)
    /\ UNCHANGED <<hash, index, account, history>>

DelAll(r) ==
    /\ At(r, "delAll")
    /\ hash' = [s \in Sid |-> IF s \in req[r].ids THEN "absent" ELSE hash[s]]
    /\ Go(r, "delIndex", NoSid, {}, req[r].ev)
    /\ UNCHANGED <<index, account, history>>

DelIndex(r) ==
    /\ At(r, "delIndex")
    /\ index' = {}
    /\ Go(r, "publish", NoSid, {}, req[r].ev)
    /\ UNCHANGED <<hash, account, history>>

(* The PUBLISH succeeds, the handler returns Ok and finish_event marks the *)
(* row published.  An event the outbox gives up on (module Outbox) is one  *)
(* that stays in events.                                                   *)
Publish(r) ==
    /\ At(r, "publish")
    /\ events' = events \ {req[r].ev}
    /\ completed' = completed \union {req[r].ev}
    /\ Done(r)
    /\ UNCHANGED <<hash, index, disabled, deleted, epoch, born, raced, late,
                   spared>>

(* A command fails, the client goes away or the replica dies: the rest of  *)
(* the request does not happen.                                            *)
Fail(r) ==
    /\ ~At(r, "idle")
    /\ Done(r)
    /\ UNCHANGED <<hash, index, account, history>>

(* The lifetime of a session hash ends; a hash HSET recreated has none.    *)
Expire(s) ==
    /\ hash[s] = "full"
    /\ hash' = [hash EXCEPT ![s] = "absent"]
    /\ UNCHANGED <<index, account, req, history>>

RequestStep(r) ==
    \/ Login(r)
    \/ DelSession(r) \/ SremSession(r) \/ HsetUser(r)
    \/ CommitPassword(r) \/ SweepIds(r) \/ SweepRem(r) \/ SweepEnd(r)
    \/ CommitDelete(r) \/ PurgeIds(r) \/ PurgeIndex(r)
    \/ ListRem(r) \/ ListEnd(r)
    \/ DelAll(r) \/ DelIndex(r) \/ Publish(r)
    \/ Fail(r)

SessionStep(r, s) ==
    \/ CreateSession(r, s)
    \/ Logout(r, s)
    \/ UpdateAccount(r, s)
    \/ ChangePassword(r, s)
    \/ DeleteAccount(r, s)
    \/ ListSessions(r, s)
    \/ SweepDel(r, s)
    \/ PurgeDel(r, s)
    \/ ListExists(r, s)

AdminStep ==
    \/ \E flag \in BOOLEAN : SetUserDisabled(flag)
    \/ AdminDeleteUser
    \/ AdminResetPassword
    \/ AdminInvalidateSessions
    \/ AssignRole \/ AdminRemoveRole
    \/ ResetRecovery

Next ==
    \/ \E r \in Req : RequestStep(r)
    \/ \E r \in Req, s \in Sid : SessionStep(r, s)
    \/ \E r \in Req, s, t \in Sid : RevokeSession(r, s, t)
    \/ \E r \in Req, n \in 1..MaxChanges : Invalidate(r, n)
    \/ \E s \in Sid : Expire(s)
    \/ AdminStep

Spec == Init /\ [][Next]_vars
-----------------------------------------------------------------------------
(* A session that logout, revocation, invalidation or expiry ended never   *)
(* loads again, although update_account may write to its hash afterwards.  *)
EndedStaysEnded ==
    [][\A s \in Sid :
        born[s] # -1 /\ ~LoadSession(s) => hash'[s] # "full"]_vars

(* Whatever requests interleave or die half-way, the index lists every     *)
(* session that loads, except those created between the SMEMBERS and the   *)
(* DEL of the index by an invalidation or a self-deletion.                 *)
IndexedUnlessRaced ==
    \A s \in Sid \ raced : LoadSession(s) => s \in index

(* Once an invalidation, self-deletion or password change has run to its   *)
(* end, no session from before that change loads, except the session that  *)
(* changed the password and the ones whose creation overlapped the change. *)
SurvivorsOverlapped ==
    \A n \in completed, s \in Sid :
        LoadSession(s) =>
            born[s] >= n \/ s \in raced \union late \/ <<n, s>> \in spared
=============================================================================
