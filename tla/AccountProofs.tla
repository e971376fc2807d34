--------------------------- MODULE AccountProofs ----------------------------
(***************************************************************************)
(* Proofs about the final administrator, the recovery of an account and    *)
(* the verification of passwords at login.                                 *)
(***************************************************************************)
EXTENDS Accounts, Recovery, Login, FiniteSetTheorems, TLAPS
-----------------------------------------------------------------------------
(* The final administrator is not removed, for any number of accounts and  *)
(* of requests.  The count of a request that is not stale stays right: two *)
(* administrators are left, so that one remains when it commits.           *)

(* What the count of admin_remove_role establishes until administrators    *)
(* are lost.                                                               *)
CountHolds ==
    \A c \in Call : call[c].at = "counted" /\ ~call[c].stale =>
        \E a, b \in Administrators : a # b

AccountsInv == AccountsTypeOK /\ CountHolds /\ AdministratorRemains

(* COUNT( * ) > 1 means that there are two different rows.                 *)
LEMMA TwoMembers ==
    ASSUME NEW S, IsFiniteSet(S), Cardinality(S) > 1
    PROVE  \E a, b \in S : a # b
<1>1. S # {} BY FS_EmptySet
<1>2. PICK a \in S : TRUE BY Zenon, <1>1
<1>3. S # {a} BY FS_Singleton
<1>4. QED BY Zenon, <1>2, <1>3

(* The seeded administrator is there at the start.                         *)
LEMMA AccountsInitInv == AccountsInit => AccountsInv
<1> SUFFICES ASSUME AccountsInit PROVE AccountsInv
    BY Zenon
<1> USE AccountAssumption DEF AccountsInit
<1>1. NoCall \in [at : {"idle", "counted"}, who : Account, stale : BOOLEAN]
    BY Zenon DEF NoCall
<1>2. AccountsTypeOK BY Zenon, <1>1 DEF AccountsTypeOK
<1>3. CountHolds BY Zenon DEF CountHolds, NoCall
<1>4. AdministratorRemains BY Zenon DEF AdministratorRemains, Administrators
<1>5. QED BY Zenon, <1>2, <1>3, <1>4 DEF AccountsInv

(* A change of the accounts keeps the counts of the requests right: when   *)
(* an administrator is lost they are stale.                                *)
LEMMA RecountHolds ==
    ASSUME AccountsTypeOK, CountHolds, AdministratorRemains,
           NEW calls, NEW exempt \in BOOLEAN,
           calls \in [Call -> [at : {"idle", "counted"}, who : Account,
                               stale : BOOLEAN]],
           \A c \in Call : calls[c] = call[c] \/ calls[c] = NoCall,
           Recount(calls, exempt),
           Administrators' # {} \/ Administrators = {} \/ exempt
    PROVE  CountHolds' /\ AdministratorRemains'
<1> DEFINE left == Administrators'
<1>1. CountHolds'
  <2> SUFFICES ASSUME NEW c \in Call, call'[c].at = "counted", ~call'[c].stale
               PROVE  \E a, b \in left : a # b
      BY Zenon DEF CountHolds
  <2>1. call'[c] = IF calls[c].at = "counted" /\ ~(Administrators \subseteq left)
                   THEN [calls[c] EXCEPT !.stale = TRUE] ELSE calls[c]
      BY Zenon DEF Recount
  <2>2. call'[c] = calls[c] /\ Administrators \subseteq left
      BY Zenon, <2>1
  <2>3. calls[c] = call[c] BY <2>2 DEF NoCall
  <2>4. QED BY Zenon, <2>2, <2>3 DEF CountHolds
<1>2. AdministratorRemains'
  <2>1. unguarded' = (left = {} /\ (unguarded \/ exempt)) BY Zenon DEF Recount
  <2>2. Administrators = {} => unguarded BY Zenon DEF AdministratorRemains
  <2>3. QED BY Zenon, <2>1, <2>2 DEF AdministratorRemains
<1>3. QED BY Zenon, <1>1, <1>2

(* Every change of a user row or of a role, and every step of a removal,   *)
(* preserves the invariant.                                                *)
LEMMA AccountsStepInv == AccountsInv /\ [AccountsNext]_accountVars => AccountsInv'
<1> SUFFICES ASSUME AccountsInv, [AccountsNext]_accountVars
             PROVE  AccountsInv'
    BY Zenon
<1>0. AccountsTypeOK /\ CountHolds /\ AdministratorRemains BY Zenon DEF AccountsInv
<1>c. \A c \in Call : call[c] = call[c] \/ call[c] = NoCall BY Zenon
<1>1. ASSUME NEW u \in Account, AssignRole(u) PROVE AccountsInv'
  <2>1. Recount(call, FALSE) /\ Administrators \subseteq Administrators'
      BY Zenon, <1>1 DEF AssignRole, Administrators
  <2>2. AccountsTypeOK'
      BY Zenon, <1>0, <1>1, <2>1 DEF AccountsTypeOK, AssignRole, Recount
  <2>3. CountHolds' /\ AdministratorRemains'
      BY Zenon, <1>0, <1>c, <2>1, RecountHolds DEF AccountsTypeOK
  <2>4. QED BY Zenon, <2>2, <2>3 DEF AccountsInv
<1>2. ASSUME NEW u \in Account, NEW off \in BOOLEAN, SetUserDisabled(u, off)
      PROVE  AccountsInv'
  <2>1. Recount(call, TRUE) BY Zenon, <1>2 DEF SetUserDisabled
  <2>2. AccountsTypeOK'
      BY Zenon, <1>0, <1>2, <2>1 DEF AccountsTypeOK, SetUserDisabled, Recount
  <2>3. CountHolds' /\ AdministratorRemains'
      BY Zenon, <1>0, <1>c, <2>1, RecountHolds DEF AccountsTypeOK
  <2>4. QED BY Zenon, <2>2, <2>3 DEF AccountsInv
<1>3. ASSUME NEW u \in Account, DeleteUser(u) PROVE AccountsInv'
  <2>1. Recount(call, TRUE) BY Zenon, <1>3 DEF DeleteUser
  <2>2. AccountsTypeOK'
      BY ZenonT(30), <1>0, <1>3, <2>1 DEF AccountsTypeOK, DeleteUser, Recount
  <2>3. CountHolds' /\ AdministratorRemains'
      BY Zenon, <1>0, <1>c, <2>1, RecountHolds DEF AccountsTypeOK
  <2>4. QED BY Zenon, <2>2, <2>3 DEF AccountsInv
<1>4. ASSUME NEW c \in Call, NEW u \in Account, CountAdmins(c, u)
      PROVE  AccountsInv'
  <2>1. IsFiniteSet(Administrators)
    <3>1. IsFiniteSet(Account) BY Zenon, AccountAssumption
    <3>2. Administrators \subseteq Account
        BY Zenon, <1>0 DEF AccountsTypeOK, Administrators
    <3>3. QED BY Zenon, <3>1, <3>2, FS_Subset
  <2>2. Cardinality(Administrators) > 1 BY Zenon, <1>4 DEF CountAdmins
  <2>3. \E a, b \in Administrators : a # b BY <2>1, <2>2, TwoMembers
  <2>4. Administrators' = Administrators
      BY Zenon, <1>4 DEF CountAdmins, Administrators
  <2>5. AccountsTypeOK' BY Zenon, <1>0, <1>4 DEF AccountsTypeOK, CountAdmins
  <2>6. CountHolds' BY Zenon, <1>4, <2>3, <2>4 DEF CountHolds
  <2>7. AdministratorRemains'
      BY Zenon, <1>0, <1>4, <2>4 DEF AdministratorRemains, CountAdmins
  <2>8. QED BY Zenon, <2>5, <2>6, <2>7 DEF AccountsInv
<1>5. ASSUME NEW c \in Call, RemoveRole(c) PROVE AccountsInv'
  <2> DEFINE calls == [call EXCEPT ![c] = NoCall]
             who == call[c].who
  <2>1. Recount(calls, call[c].stale) BY Zenon, <1>5 DEF RemoveRole
  <2>2. calls \in [Call -> [at : {"idle", "counted"}, who : Account,
                            stale : BOOLEAN]]
      BY Zenon, <1>0, AccountAssumption DEF AccountsTypeOK, NoCall
  <2>3. \A d \in Call : calls[d] = call[d] \/ calls[d] = NoCall
      BY Zenon, <1>0 DEF AccountsTypeOK
  <2>4. call[c].stale \in BOOLEAN BY Zenon, <1>0 DEF AccountsTypeOK
  <2>5. AccountsTypeOK'
      BY ZenonT(30), <1>0, <1>5, <2>1, <2>2 DEF AccountsTypeOK, RemoveRole, Recount
  <2>6. Administrators' = Administrators \ {who}
      BY Zenon, <1>5 DEF RemoveRole, Administrators
  <2>7. ~call[c].stale => Administrators' # {}
      BY <1>0, <1>5, <2>6 DEF CountHolds, RemoveRole
  <2>8. CountHolds' /\ AdministratorRemains'
    <3> HIDE DEF calls
    <3> QED BY Zenon, <1>0, <2>1, <2>2, <2>3, <2>4, <2>7, RecountHolds
  <2>9. QED BY Zenon, <2>5, <2>8 DEF AccountsInv
<1>6. ASSUME NEW c \in Call, RemoveRoleFails(c) PROVE AccountsInv'
  <2>1. Administrators' = Administrators
      BY Zenon, <1>6 DEF RemoveRoleFails, Administrators
  <2>2. AccountsTypeOK'
      BY Zenon, <1>0, <1>6, AccountAssumption
      DEF AccountsTypeOK, RemoveRoleFails, NoCall
  <2>3. CountHolds'
      BY Zenon, <1>0, <1>6, <2>1
      DEF AccountsTypeOK, CountHolds, RemoveRoleFails, NoCall
  <2>4. AdministratorRemains'
      BY Zenon, <1>0, <1>6, <2>1 DEF AdministratorRemains, RemoveRoleFails
  <2>5. QED BY Zenon, <2>2, <2>3, <2>4 DEF AccountsInv
<1>7. CASE UNCHANGED accountVars
  <2>1. Administrators' = Administrators
      BY Zenon, <1>7 DEF accountVars, Administrators
  <2>2. QED BY Zenon, <1>0, <1>7, <2>1
            DEF accountVars, AccountsInv, AccountsTypeOK, CountHolds,
                AdministratorRemains
<1>8. QED BY Zenon, <1>1, <1>2, <1>3, <1>4, <1>5, <1>6, <1>7 DEF AccountsNext

(* Removing roles leaves an active administrator, except by a stale count, *)
(* a disabling or a deletion (admin_remove_role).                          *)
THEOREM AdministratorRemainsAlways == AccountsSpec => []AdministratorRemains
<1>1. AccountsInv => AdministratorRemains BY Zenon DEF AccountsInv
<1>2. QED BY <1>1, AccountsInitInv, AccountsStepInv, PTL DEF AccountsSpec
-----------------------------------------------------------------------------
(* A recovery token works once, and only the newest one works, for any     *)
(* number of tokens, requests and resets.  The row lock keeps the token of *)
(* a reset unused until it commits, and what a request that is not stale   *)
(* saw contains every unused token.                                        *)

Mails == [at : {"idle", "request", "replace", "reset"}, saw : SUBSET Token,
          token : Token \union {NoToken}, stale : BOOLEAN]

(* A reset holds a token that is still unused, and no two hold the same.   *)
LockInv ==
    /\ \A m \in Mail : mail[m].at = "reset" => mail[m].token \in unused
    /\ \A m, n \in Mail :
        /\ mail[m].at = "reset" /\ mail[n].at = "reset"
        /\ mail[m].token = mail[n].token
        => m = n

(* An unused token, and one not yet inserted, has reset nothing.           *)
UseInv ==
    /\ \A t \in Token : resets[t] <= 1
    /\ \A t \in Token : t \in unused \/ t \notin issued => resets[t] = 0

(* A request that is not stale has seen all the unused tokens.             *)
SeenInv ==
    /\ \A m \in Mail : mail[m].at = "replace" /\ ~mail[m].stale =>
        unused \subseteq mail[m].saw
    /\ overlapped \/ \A s, t \in unused : s = t

RecoveryInv == RecoveryTypeOK /\ LockInv /\ UseInv /\ SeenInv

(* It holds before the first request of the account.                       *)
LEMMA RecoveryInitInv == RecoveryInit => RecoveryInv
<1> SUFFICES ASSUME RecoveryInit PROVE RecoveryInv
    BY Zenon
<1> USE DEF RecoveryInit
<1>1. NoMail \in Mails BY Zenon DEF NoMail, Mails
<1>2. RecoveryTypeOK
  <2>1. mail \in [Mail -> Mails] BY Zenon, <1>1
  <2>2. resets \in [Token -> 0..2] OBVIOUS
  <2>3. QED BY Zenon, <2>1, <2>2 DEF RecoveryTypeOK, Mails
<1>3. LockInv BY Zenon DEF LockInv, NoMail
<1>4. UseInv BY DEF UseInv
<1>5. SeenInv BY Zenon DEF SeenInv, NoMail
<1>6. QED BY Zenon, <1>2, <1>3, <1>4, <1>5 DEF RecoveryInv

(* Every statement of request_recovery and of reset_recovery preserves it. *)
LEMMA RecoveryStepInv == RecoveryInv /\ [RecoveryNext]_recoveryVars => RecoveryInv'
<1> SUFFICES ASSUME RecoveryInv, [RecoveryNext]_recoveryVars
             PROVE  RecoveryInv'
    BY Zenon
<1>0. RecoveryTypeOK /\ LockInv /\ UseInv /\ SeenInv BY Zenon DEF RecoveryInv
<1>n. NoMail \in Mails /\ NoMail.at = "idle" BY Zenon DEF NoMail, Mails
<1>1. ASSUME NEW m \in Mail, RequestRecovery(m) PROVE RecoveryInv'
  <2> USE <1>0, <1>1 DEF RequestRecovery
  <2>1. RecoveryTypeOK' BY DEF RecoveryTypeOK
  <2>2. LockInv' BY DEF LockInv, RecoveryTypeOK
  <2>3. UseInv' BY Zenon DEF UseInv
  <2>4. SeenInv' BY DEF SeenInv, RecoveryTypeOK
  <2>5. QED BY Zenon, <2>1, <2>2, <2>3, <2>4 DEF RecoveryInv
<1>2. ASSUME NEW m \in Mail, FindUnused(m) PROVE RecoveryInv'
  <2> USE <1>0, <1>2 DEF FindUnused
  <2>1. RecoveryTypeOK'
    <3>1. [mail[m] EXCEPT !.at = "replace", !.saw = unused, !.stale = FALSE]
            \in Mails
        BY Zenon DEF RecoveryTypeOK, Mails
    <3>2. mail' \in [Mail -> Mails] BY <3>1 DEF RecoveryTypeOK, Mails
    <3>3. QED BY Zenon, <3>2 DEF RecoveryTypeOK, Mails
  <2>2. LockInv' BY DEF LockInv, RecoveryTypeOK
  <2>3. UseInv' BY Zenon DEF UseInv
  <2>4. SeenInv' BY DEF SeenInv, RecoveryTypeOK
  <2>5. QED BY Zenon, <2>1, <2>2, <2>3, <2>4 DEF RecoveryInv
<1>3. ASSUME NEW m \in Mail, Replace(m) PROVE RecoveryInv'
  <2>1. PICK t \in Token \ issued :
            /\ issued' = issued \union {t}
            /\ unused' = (unused \ mail[m].saw) \union {t}
            /\ fresh' = fresh \union {t}
      BY Zenon, <1>3 DEF Replace
  <2>2. mail' = Committed(m) BY Zenon, <1>3 DEF Replace
  <2>3. mail' \in [Mail -> Mails]
      BY Zenon, <1>0, <1>n, <2>2 DEF Committed, RecoveryTypeOK, Mails
  <2>4. RecoveryTypeOK'
    <3>1. overlapped' \in BOOLEAN BY Zenon, <1>0, <1>3 DEF Replace, RecoveryTypeOK
    <3>2. QED
        BY Zenon, <1>0, <1>3, <2>1, <2>3, <3>1 DEF Replace, RecoveryTypeOK, Mails
  <2>5. \A n \in Mail : mail'[n].at = "reset" =>
            /\ mail[n].at = "reset" /\ mail'[n] = mail[n]
            /\ mail[n].token \notin mail[m].saw
    <3>1. mail[m].saw \cap Locked = {} BY Zenon, <1>3 DEF Replace
    <3>2. QED BY <1>0, <1>n, <2>2, <3>1 DEF Committed, Locked, RecoveryTypeOK
  <2>6. LockInv' BY <1>0, <2>1, <2>5 DEF LockInv
  <2>7. UseInv' BY Zenon, <1>0, <1>3, <2>1 DEF UseInv, Replace, RecoveryTypeOK
  <2>8. \A n \in Mail : mail'[n].at = "replace" => mail'[n].stale
      BY Zenon, <1>0, <1>n, <2>2 DEF Committed, RecoveryTypeOK
  <2>9. overlapped' \/ \A s, u \in unused' : s = u
    <3>1. CASE mail[m].stale BY Zenon, <1>3, <3>1 DEF Replace
    <3>2. CASE ~mail[m].stale
      <4>1. unused \subseteq mail[m].saw
          BY Zenon, <1>0, <1>3, <3>2 DEF SeenInv, Replace
      <4>2. QED BY Zenon, <2>1, <4>1
    <3>3. QED BY Zenon, <3>1, <3>2
  <2>10. SeenInv' BY Zenon, <2>8, <2>9 DEF SeenInv
  <2>11. QED BY Zenon, <2>4, <2>6, <2>7, <2>10 DEF RecoveryInv
<1>4. ASSUME NEW m \in Mail, NEW t \in Token, ResetRecovery(m, t)
      PROVE  RecoveryInv'
  <2> USE <1>0, <1>4 DEF ResetRecovery
  <2>1. RecoveryTypeOK' BY ZenonT(30) DEF RecoveryTypeOK
  <2>2. LockInv' BY DEF LockInv, Locked, RecoveryTypeOK
  <2>3. UseInv' BY Zenon DEF UseInv
  <2>4. SeenInv' BY DEF SeenInv, RecoveryTypeOK
  <2>5. QED BY Zenon, <2>1, <2>2, <2>3, <2>4 DEF RecoveryInv
<1>5. ASSUME NEW m \in Mail, ResetCommit(m) PROVE RecoveryInv'
  <2> DEFINE t == mail[m].token
  <2>1. t \in unused /\ t \in Token
      BY Zenon, <1>0, <1>5 DEF ResetCommit, LockInv, RecoveryTypeOK
  <2>2. RecoveryTypeOK'
    <3>1. resets' \in [Token -> 0..2]
        BY <1>0, <1>5, <2>1 DEF ResetCommit, RecoveryTypeOK
    <3>2. QED
        BY Zenon, <1>0, <1>5, <1>n, <3>1 DEF ResetCommit, RecoveryTypeOK, Mails
  <2>3. LockInv'
      BY Zenon, <1>0, <1>5, <1>n, <2>1 DEF ResetCommit, LockInv, RecoveryTypeOK
  <2>4. resets[t] = 0 BY Zenon, <1>0, <2>1 DEF UseInv
  <2>5. UseInv'
    <3>1. \A s \in Token : resets'[s] = IF s = t /\ standing # "deleted"
                                        THEN 1 ELSE resets[s]
        BY <1>0, <1>5, <2>4 DEF ResetCommit, RecoveryTypeOK
    <3>2. QED BY <1>0, <1>5, <2>1, <3>1 DEF ResetCommit, UseInv, RecoveryTypeOK
  <2>6. SeenInv' BY Zenon, <1>0, <1>5, <1>n DEF ResetCommit, SeenInv, RecoveryTypeOK
  <2>7. QED BY Zenon, <2>2, <2>3, <2>5, <2>6 DEF RecoveryInv
<1>6. ASSUME NEW m \in Mail, MailFails(m) PROVE RecoveryInv'
  <2> USE <1>0, <1>6, <1>n DEF MailFails
  <2>1. RecoveryTypeOK' BY Zenon DEF RecoveryTypeOK, Mails
  <2>2. LockInv' BY Zenon DEF LockInv, RecoveryTypeOK
  <2>3. UseInv' BY Zenon DEF UseInv
  <2>4. SeenInv' BY Zenon DEF SeenInv, RecoveryTypeOK
  <2>5. QED BY Zenon, <2>1, <2>2, <2>3, <2>4 DEF RecoveryInv
<1>7. ASSUME NEW t \in Token, TokenExpires(t) PROVE RecoveryInv'
  BY Zenon, <1>0, <1>7
     DEF TokenExpires, RecoveryInv, RecoveryTypeOK, LockInv, UseInv, SeenInv
<1>8. ASSUME NEW next \in {"active", "disabled", "deleted"}, StandingChanges(next)
      PROVE  RecoveryInv'
  BY Zenon, <1>0, <1>8
     DEF StandingChanges, RecoveryInv, RecoveryTypeOK, LockInv, UseInv, SeenInv
<1>9. CASE UNCHANGED recoveryVars
  BY Zenon, <1>0, <1>9
     DEF recoveryVars, RecoveryInv, RecoveryTypeOK, LockInv, UseInv, SeenInv
<1>10. QED
  BY Zenon, <1>1, <1>2, <1>3, <1>4, <1>5, <1>6, <1>7, <1>8, <1>9 DEF RecoveryNext

(* A token resets the password at most once, and only the newest can be    *)
(* used unless requests overlapped (request_recovery, reset_recovery).     *)
THEOREM LatestTokenOnceAlways == RecoverySpec => []LatestTokenOnce
<1>1. RecoveryInv => LatestTokenOnce
    BY Zenon DEF RecoveryInv, UseInv, SeenInv, LatestTokenOnce
<1>2. QED BY <1>1, RecoveryInitInv, RecoveryStepInv, PTL DEF RecoverySpec
-----------------------------------------------------------------------------
(* Verifications are shared, permits balance and rate limit counters go    *)
(* away, for any number of callers, keys, flights and permits.  The map of *)
(* flights and the tasks refer to each other, one to one, from the lookup  *)
(* under the lock to the removal of the key.                               *)

Callers == [at : {"idle", "expire", "ttl", "verify", "wait"}, over : BOOLEAN,
            key : Key \union {Unset}, on : Flight \union {Unset}]
Tasks == [at : {"queued", "verifying", "finished", "sent", "unsent", "landed"},
          key : Key \union {Unset}]
Verifying == {f \in Flight : task[f].at = "verifying"}

(* A task that has not removed its key is the one registered under it, and *)
(* what is registered is such a task.  A caller that verifies has a key.   *)
MapInv ==
    /\ \A f \in Flight : task[f].at # "landed" =>
        task[f].key \in Key /\ flights[task[f].key] = f
    /\ \A k \in Key, f \in Flight : flights[k] = f =>
        task[f].at # "landed" /\ task[f].key = k
    /\ \A c \in Caller : caller[c].at # "idle" => caller[c].key \in Key

PermitInv == IsFiniteSet(Verifying) /\ PermitsAccounted

(* The type invariant, with the sets named and the limiter apart.          *)
Types ==
    /\ count \in 0..MaxCount
    /\ caller \in [Caller -> Callers]
    /\ flights \in [Key -> Flight \union {Unset}]
    /\ task \in [Flight -> Tasks]
    /\ free \in 0..Permits

LimiterInv ==
    /\ ttl \in BOOLEAN /\ due \in BOOLEAN
    /\ ttl => count > 0
    /\ CountersExpire

LoginInv == Types /\ MapInv /\ PermitInv /\ LimiterInv

(* Counting up to MaxCount never yields zero.                              *)
LEMMA Saturates ==
    \A n \in 0..MaxCount :
        LET m == IF n < MaxCount THEN n + 1 ELSE n IN m \in 0..MaxCount /\ m > 0
BY LimitAssumption

(* It holds when the replica starts.                                       *)
LEMMA LoginInitInv == Init => LoginInv
<1> SUFFICES ASSUME Init PROVE LoginInv
    BY Zenon
<1> USE PermitsAssumption, LimitAssumption, UnsetAssumption DEF Init
<1>1. Idle \in Callers BY Zenon DEF Idle, Callers
<1>2. Landed \in Tasks BY Zenon DEF Landed, Tasks
<1>3. Types BY <1>1, <1>2 DEF Types
<1>4. MapInv BY Zenon DEF MapInv, Idle, Landed
<1>5. Verifying = {} BY Zenon DEF Verifying, Landed
<1>6. PermitInv BY <1>5, FS_EmptySet DEF PermitInv, PermitsAccounted, Verifying
<1>7. ~(count > 0) /\ ttl = FALSE /\ due = FALSE OBVIOUS
<1>8. LimiterInv BY <1>7, Zenon DEF LimiterInv, CountersExpire
<1>9. QED BY Zenon, <1>3, <1>4, <1>6, <1>8 DEF LoginInv

(* Moving a caller, or returning from it, keeps the types.                 *)
LEMMA CallerTypes ==
    ASSUME Types, NEW c \in Caller
    PROVE  /\ \A at \in {"idle", "expire", "ttl", "verify", "wait"} :
                MoveTo(c, at) => caller' \in [Caller -> Callers]
           /\ Return(c) => caller' \in [Caller -> Callers]
           /\ Limited(c) => caller' \in [Caller -> Callers]
<1> USE DEF Types
<1>1. caller[c] \in Callers BY Zenon
<1>2. ASSUME NEW at \in {"idle", "expire", "ttl", "verify", "wait"}, MoveTo(c, at)
      PROVE  caller' \in [Caller -> Callers]
  <2>1. [caller[c] EXCEPT !.at = at] \in Callers BY Zenon, <1>1 DEF Callers
  <2>2. QED BY Zenon, <1>2, <2>1 DEF MoveTo
<1>3. Return(c) => caller' \in [Caller -> Callers]
  <2>1. Idle \in Callers BY Zenon DEF Idle, Callers
  <2>2. QED BY Zenon, <2>1 DEF Return
<1>4. QED BY Zenon, <1>2, <1>3 DEF Limited

(* A step that leaves the flights alone keeps their part.                  *)
LEMMA FlyingKept ==
    ASSUME LoginInv, UNCHANGED flying
    PROVE  /\ PermitInv' /\ free' \in 0..Permits
           /\ flights' \in [Key -> Flight \union {Unset}]
           /\ task' \in [Flight -> Tasks]
           /\ \A f \in Flight : task'[f].at # "landed" =>
                task'[f].key \in Key /\ flights'[task'[f].key] = f
           /\ \A k \in Key, f \in Flight : flights'[k] = f =>
                task'[f].at # "landed" /\ task'[f].key = k
BY DEF Types, LoginInv, MapInv, PermitInv, PermitsAccounted, Verifying, flying

(* The commands of enforce_rate_limit keep the limiter's part: a counter   *)
(* loses its expiry only when it goes, and a caller that leaves it without *)
(* one has remembered that.                                                *)
LEMMA LimiterKept ==
    ASSUME LoginInv, NEW c \in Caller,
           ReadTtl(c) \/ SetExpire(c) \/ Answer(c) \/ GiveUp(c)
    PROVE  LimiterInv' /\ count' = count
<1> USE DEF LoginInv, LimiterInv
<1>0. \A d \in Caller : d # c => caller'[d] = caller[d]
    BY Zenon DEF ReadTtl, SetExpire, Answer, GiveUp, Limited, MoveTo, Return, Types
<1>1. CASE ReadTtl(c)
  <2>1. count' = count /\ ttl' = ttl /\ due' \in BOOLEAN BY <1>1, Zenon DEF ReadTtl
  <2>2. CASE count > 0 /\ ~ttl /\ MoveTo(c, "expire")
    <3>1. caller'[c].at = "expire" BY <2>2 DEF MoveTo, Types
    <3>2. QED BY <2>1, <3>1, Zenon DEF CountersExpire
  <2>3. CASE count = 0 \/ ttl
    <3>1. count = 0 => ~(count > 0) OBVIOUS
    <3>2. QED BY <2>1, <2>3, <3>1, Zenon DEF CountersExpire
  <2>4. (count > 0 /\ ~ttl /\ MoveTo(c, "expire")) \/ count = 0 \/ ttl
      BY <1>1, Zenon DEF ReadTtl
  <2>5. QED BY Zenon, <2>2, <2>3, <2>4
<1>2. CASE SetExpire(c)
  <2>1. count' = count /\ ttl' = (count > 0) /\ due' = FALSE
      BY <1>2, Zenon DEF SetExpire
  <2>2. CASE count > 0
    <3>1. ttl' = TRUE /\ count' > 0 BY Zenon, <2>1, <2>2
    <3>2. QED BY <2>1, <3>1, Zenon DEF CountersExpire
  <2>3. CASE ~(count > 0)
    <3>1. ttl' = FALSE /\ ~(count' > 0) BY <2>1, <2>3
    <3>2. QED BY <2>1, <3>1, Zenon DEF CountersExpire
  <2>4. QED BY Zenon, <2>2, <2>3
<1>3. CASE Answer(c)
  <2>1. count' = count /\ ttl' = ttl /\ due' = due
      BY Zenon, <1>3 DEF Answer, limiter
  <2>2. caller[c].at \notin {"expire", "ttl"} BY Zenon, <1>3 DEF Answer
  <2>3. QED BY <1>0, <2>1, <2>2, Zenon DEF CountersExpire
<1>4. CASE GiveUp(c)
  <2>1. count' = count /\ ttl' = ttl
        /\ due' = (due \/ caller[c].at \in {"expire", "ttl"})
      BY <1>4, Zenon DEF GiveUp
  <2>2. QED BY <1>0, <2>1, Zenon DEF CountersExpire
<1>5. QED BY Zenon, <1>1, <1>2, <1>3, <1>4

(* Each command of enforce_rate_limit preserves it, and so do the end of   *)
(* the window, an answer and a request that is dropped.                    *)
LEMMA LimiterStepInv ==
    ASSUME LoginInv,
           \/ WindowEnds
           \/ \E c \in Caller :
                \/ ReadTtl(c) \/ SetExpire(c) \/ Answer(c) \/ GiveUp(c)
                \/ \E k \in Key : Incr(c, k)
    PROVE  LoginInv'
<1> USE PermitsAssumption, LimitAssumption, UnsetAssumption DEF Types
<1>0. UNCHANGED flying
    BY Zenon DEF WindowEnds, ReadTtl, SetExpire, Answer, GiveUp, Incr
<1>1. CASE WindowEnds
  <2>0. count' = 0 /\ ttl' = FALSE /\ due' = due /\ caller' = caller
      BY <1>1, Zenon DEF WindowEnds
  <2>1. Types' BY <1>0, <2>0, FlyingKept DEF LoginInv
  <2>2. MapInv' BY Zenon, <1>0, <2>0, FlyingKept DEF MapInv, LoginInv
  <2>3. ~(count' > 0) BY <2>0
  <2>4. LimiterInv'
      BY <2>0, <2>3, Zenon DEF LimiterInv, CountersExpire, LoginInv
  <2>5. QED BY Zenon, <1>0, <2>1, <2>2, <2>4, FlyingKept DEF LoginInv
<1>2. ASSUME NEW c \in Caller,
             ReadTtl(c) \/ SetExpire(c) \/ Answer(c) \/ GiveUp(c)
      PROVE  LoginInv'
  <2>1. caller[c].at # "idle" /\ (Limited(c) \/ Return(c) \/ MoveTo(c, "expire"))
      BY <1>2, Zenon DEF ReadTtl, SetExpire, Answer, GiveUp
  <2>2. LimiterInv' /\ count' = count BY Zenon, <1>2, LimiterKept
  <2>3. caller' \in [Caller -> Callers] BY Zenon, <2>1, CallerTypes DEF LoginInv
  <2>4. Types' BY Zenon, <1>0, <2>2, <2>3, FlyingKept DEF LoginInv
  <2>5. \A d \in Caller : caller'[d].at # "idle" => caller'[d].key = caller[d].key
                                                    /\ caller[d].at # "idle"
    <3>1. CASE Return(c) BY Zenon, <2>1, <3>1 DEF Return, Idle, LoginInv
    <3>2. ASSUME NEW at \in {"expire", "verify"}, MoveTo(c, at)
          PROVE  \A d \in Caller : caller'[d].key = caller[d].key
                                   /\ (d # c => caller'[d] = caller[d])
        BY Zenon, <3>2 DEF MoveTo, LoginInv, Callers
    <3>3. CASE MoveTo(c, "expire") \/ MoveTo(c, "verify") BY Zenon, <2>1, <3>2, <3>3
    <3>4. QED BY Zenon, <2>1, <3>1, <3>3 DEF Limited
  <2>6. MapInv' BY Zenon, <1>0, <2>5, FlyingKept DEF MapInv, LoginInv
  <2>7. QED BY Zenon, <1>0, <2>2, <2>4, <2>6, FlyingKept DEF LoginInv
<1>3. ASSUME NEW c \in Caller, NEW k \in Key, Incr(c, k) PROVE LoginInv'
  <2>0. count \in 0..MaxCount BY Zenon DEF LoginInv
  <2>1. count' \in 0..MaxCount /\ count' > 0
    <3>1. count' = IF count < MaxCount THEN count + 1 ELSE count
        BY <1>3, Zenon DEF Incr
    <3>2. QED BY <2>0, <3>1, Saturates, LimitAssumption, Zenon
  <2>2. ttl' = ttl /\ due' = due BY Zenon, <1>3 DEF Incr
  <2>3. \A at \in {"expire", "ttl"}, over \in BOOLEAN :
            [at |-> at, over |-> over, key |-> k, on |-> Unset] \in Callers
      BY Zenon DEF Callers
  <2> DEFINE at == IF count' = 1 THEN "expire" ELSE "ttl"
             over == count' > Limit
  <2>4. caller' = [caller EXCEPT ![c] =
                [at |-> at, over |-> over, key |-> k, on |-> Unset]]
      BY <1>3, Zenon DEF Incr
  <2>5. at \in {"expire", "ttl"} /\ over \in BOOLEAN OBVIOUS
  <2> HIDE DEF at, over
  <2>6. caller' \in [Caller -> Callers] BY Zenon, <2>3, <2>4, <2>5 DEF LoginInv
  <2>7. Types' BY Zenon, <1>0, <2>1, <2>6, FlyingKept DEF LoginInv
  <2>8. MapInv' BY <1>0, <2>4, <2>5, FlyingKept DEF MapInv, LoginInv
  <2>9. caller'[c].at \in {"expire", "ttl"} BY Zenon, <2>4, <2>5 DEF LoginInv
  <2>10. LimiterInv'
      BY <2>1, <2>2, <2>9, Zenon DEF LimiterInv, CountersExpire, LoginInv
  <2>11. QED BY Zenon, <1>0, <2>7, <2>8, <2>10, FlyingKept DEF LoginInv
<1>4. QED BY Zenon, <1>1, <1>2, <1>3

(* A step that leaves the limiter alone and moves no caller that is in it  *)
(* keeps its part.                                                         *)
LEMMA LimiterUnmoved ==
    ASSUME LoginInv, UNCHANGED limiter,
           \A c \in Caller : caller[c].at \in {"expire", "ttl"} =>
                             caller'[c].at \in {"expire", "ttl"}
    PROVE  LimiterInv' /\ count' \in 0..MaxCount
<1>1. count' = count /\ ttl' = ttl /\ due' = due BY Zenon DEF limiter
<1>2. LimiterInv' BY <1>1, Zenon DEF LoginInv, LimiterInv, CountersExpire
<1>3. QED BY Zenon, <1>1, <1>2 DEF LoginInv, Types

(* A step that neither starts nor ends a verification keeps the balance.   *)
LEMMA PermitsUnmoved ==
    ASSUME LoginInv, UNCHANGED free,
           \A f \in Flight : task'[f].at = "verifying" <=> task[f].at = "verifying"
    PROVE  PermitInv' /\ free' \in 0..Permits
<1>1. Verifying' = Verifying BY Zenon DEF Verifying
<1>2. QED BY Zenon, <1>1 DEF LoginInv, PermitInv, PermitsAccounted, Verifying, Types

(* The lookup under the lock joins the key's flight or registers a new one *)
(* for a key that has none.                                                *)
LEMMA SubscribeInv ==
    ASSUME LoginInv, NEW c \in Caller, Subscribe(c)
    PROVE  LoginInv'
<1> USE UnsetAssumption DEF LoginInv, Types
<1> DEFINE k == caller[c].key
<1>1. k \in Key /\ caller[c].at = "verify" BY Zenon DEF Subscribe, MapInv
<1>2. PICK f \in Flight :
        /\ \/ flights[k] = f /\ UNCHANGED <<flights, task>>
           \/ /\ flights[k] = Unset /\ Unused(f)
              /\ flights' = [flights EXCEPT ![k] = f]
              /\ NewFlight(f, k)
        /\ caller' = [caller EXCEPT ![c].at = "wait", ![c].on = f]
        /\ UNCHANGED <<limiter, free>>
    BY Zenon DEF Subscribe
<1> HIDE DEF k
<1>3. [caller[c] EXCEPT !.at = "wait", !.on = f] \in Callers
    BY ZenonT(30) DEF Callers
<1>4. caller' \in [Caller -> Callers]
      /\ \A d \in Caller : caller'[d].key = caller[d].key
                           /\ (d # c => caller'[d] = caller[d])
    BY Zenon, <1>2, <1>3 DEF Callers
<1>5. LimiterInv' /\ count' \in 0..MaxCount
    BY Zenon, <1>1, <1>2, <1>4, LimiterUnmoved
<1>6. CASE UNCHANGED <<flights, task>>
  <2>1. PermitInv' /\ free' \in 0..Permits BY Zenon, <1>2, <1>6, PermitsUnmoved
  <2>2. MapInv' BY <1>1, <1>4, <1>6 DEF MapInv, k
  <2>3. QED BY Zenon, <1>4, <1>5, <1>6, <2>1, <2>2
<1>7. CASE /\ flights[k] = Unset /\ Unused(f)
           /\ flights' = [flights EXCEPT ![k] = f]
           /\ NewFlight(f, k)
  <2>1. [at |-> "queued", key |-> k] \in Tasks
      BY Zenon, <1>1 DEF Tasks
  <2>2. /\ task' \in [Flight -> Tasks] /\ task'[f].at = "queued" /\ task'[f].key = k
        /\ \A g \in Flight : g # f => task'[g] = task[g]
      BY Zenon, <1>7, <2>1 DEF NewFlight
  <2>3. task[f].at = "landed" BY Zenon, <1>7 DEF Unused
  <2>4. PermitInv' /\ free' \in 0..Permits
      BY Zenon, <1>2, <2>2, <2>3, PermitsUnmoved
  <2>5. flights' \in [Key -> Flight \union {Unset}] BY Zenon, <1>1, <1>7
  <2>6. MapInv' BY <1>1, <1>4, <1>7, <2>2, <2>3 DEF MapInv, k
  <2>7. QED BY Zenon, <1>4, <1>5, <2>2, <2>4, <2>5, <2>6
<1>8. QED BY Zenon, <1>2, <1>6, <1>7

(* A task that goes on under its key keeps the map and the rest right.     *)
LEMMA TaskGoesOn ==
    ASSUME LoginInv, NEW f \in Flight, UNCHANGED <<limiter, caller, flights>>,
           NEW t \in Tasks, t.key = task[f].key, t.at # "landed",
           task[f].at # "landed", task' = [task EXCEPT ![f] = t],
           PermitInv', free' \in 0..Permits
    PROVE  LoginInv'
<1> USE DEF LoginInv, Types
<1>1. LimiterInv' /\ count' \in 0..MaxCount BY Zenon, LimiterUnmoved
<1>2. task' \in [Flight -> Tasks] BY Zenon
<1>3. \A g \in Flight : /\ task'[g].key = task[g].key
                        /\ task'[g].at = "landed" <=> task[g].at = "landed"
    BY Zenon
<1>4. MapInv' BY <1>3 DEF MapInv
<1>5. QED BY Zenon, <1>1, <1>2, <1>4

(* A permit, or the timeout.                                               *)
LEMMA AcquireInv ==
    ASSUME LoginInv, NEW f \in Flight, Acquire(f)
    PROVE  LoginInv'
<1> USE DEF LoginInv, Types
<1>1. task[f].at = "queued" /\ UNCHANGED <<limiter, caller, flights>>
    BY Zenon DEF Acquire
<1>2. CASE /\ free > 0 /\ free' = free - 1
           /\ task' = [task EXCEPT ![f].at = "verifying"]
  <2> DEFINE t == [task[f] EXCEPT !.at = "verifying"]
  <2>1. t \in Tasks /\ t.key = task[f].key /\ t.at = "verifying" BY Zenon DEF Tasks
  <2>2. task' = [task EXCEPT ![f] = t] BY Zenon, <1>2
  <2> HIDE DEF t
  <2>3. Verifying' = Verifying \union {f} BY Zenon, <2>1, <2>2 DEF Verifying
  <2>4. f \notin Verifying BY Zenon, <1>1 DEF Verifying
  <2>5. IsFiniteSet(Verifying) /\ free + Cardinality(Verifying) = Permits
      BY Zenon DEF PermitInv, PermitsAccounted, Verifying
  <2>6. /\ IsFiniteSet(Verifying')
        /\ Cardinality(Verifying') = Cardinality(Verifying) + 1
        /\ Cardinality(Verifying) \in Nat
      BY Zenon, <2>3, <2>4, <2>5, FS_AddElement, FS_CardinalityType
  <2>7. free' + Cardinality(Verifying') = Permits /\ free' \in 0..Permits
      BY <1>2, <2>5, <2>6, PermitsAssumption
  <2>8. PermitInv' BY Zenon, <2>6, <2>7 DEF PermitInv, PermitsAccounted, Verifying
  <2>9. QED BY Zenon, <1>1, <2>1, <2>2, <2>7, <2>8, TaskGoesOn
<1>3. CASE /\ task' = [task EXCEPT ![f].at = "finished"]
           /\ UNCHANGED free
  <2> DEFINE t == [task[f] EXCEPT !.at = "finished"]
  <2>1. t \in Tasks /\ t.key = task[f].key /\ t.at = "finished"
      BY Zenon DEF Tasks
  <2>2. task' = [task EXCEPT ![f] = t] BY Zenon, <1>3
  <2> HIDE DEF t
  <2>3. PermitInv' /\ free' \in 0..Permits
      BY Zenon, <1>1, <1>3, <2>1, <2>2, PermitsUnmoved
  <2>4. QED BY Zenon, <1>1, <2>1, <2>2, <2>3, TaskGoesOn
<1>4. QED BY Zenon, <1>2, <1>3 DEF Acquire

(* The verification gives its permit back.                                 *)
LEMMA VerifyInv ==
    ASSUME LoginInv, NEW f \in Flight, Verify(f)
    PROVE  LoginInv'
<1> USE DEF LoginInv, Types
<1>1. /\ task[f].at = "verifying" /\ free' = free + 1
      /\ UNCHANGED <<limiter, caller, flights>>
    BY Zenon DEF Verify
<1>2. task' = [task EXCEPT ![f].at = "finished"] BY Zenon DEF Verify
<1> DEFINE t == [task[f] EXCEPT !.at = "finished"]
<1>3. t \in Tasks /\ t.key = task[f].key /\ t.at = "finished"
    BY Zenon DEF Tasks
<1>4. task' = [task EXCEPT ![f] = t] BY Zenon, <1>2
<1> HIDE DEF t
<1>5. Verifying' = Verifying \ {f} BY Zenon, <1>3, <1>4 DEF Verifying
<1>6. f \in Verifying BY Zenon, <1>1 DEF Verifying
<1>7. /\ IsFiniteSet(Verifying) /\ free + Cardinality(Verifying) = Permits
      /\ free \in 0..Permits
    BY Zenon DEF PermitInv, PermitsAccounted, Verifying
<1> HIDE DEF LoginInv, Types
<1>8. /\ IsFiniteSet(Verifying') /\ Cardinality(Verifying') \in Nat
      /\ Cardinality(Verifying') = Cardinality(Verifying) - 1
      /\ Cardinality(Verifying) \in Nat
    BY Zenon, <1>5, <1>6, <1>7, FS_RemoveElement, FS_CardinalityType
<1>9. free' + Cardinality(Verifying') = Permits /\ free' \in 0..Permits
    BY <1>1, <1>7, <1>8, PermitsAssumption
<1>10. PermitInv' BY Zenon, <1>8, <1>9 DEF PermitInv, PermitsAccounted, Verifying
<1>11. QED BY Zenon, <1>1, <1>3, <1>4, <1>9, <1>10, TaskGoesOn

(* Publishing the outcome.                                                 *)
LEMMA SendInv ==
    ASSUME LoginInv, NEW f \in Flight, Send(f)
    PROVE  LoginInv'
<1> USE DEF LoginInv, Types
<1>1. task[f].at = "finished" /\ UNCHANGED <<limiter, caller, flights, free>>
    BY Zenon DEF Send
<1>o. PICK o \in {"sent", "unsent"} : task' = [task EXCEPT ![f].at = o]
    BY DEF Send
<1> DEFINE t == [task[f] EXCEPT !.at = o]
<1>2. t \in Tasks /\ t.key = task[f].key /\ t.at \in {"sent", "unsent"}
    BY Zenon DEF Tasks
<1>3. task' = [task EXCEPT ![f] = t] BY Zenon, <1>o
<1> HIDE DEF t
<1>4. PermitInv' /\ free' \in 0..Permits BY Zenon, <1>1, <1>2, <1>3, PermitsUnmoved
<1>5. QED BY Zenon, <1>1, <1>2, <1>3, <1>4, TaskGoesOn

(* Removing the key takes the task's own entry out of the map, no other.   *)
LEMMA UnregisterInv ==
    ASSUME LoginInv, NEW f \in Flight, Unregister(f)
    PROVE  LoginInv'
<1> USE UnsetAssumption DEF LoginInv, Types
<1> DEFINE k == task[f].key
           t == Landed
<1>1. /\ task[f].at \in {"sent", "unsent"} /\ UNCHANGED <<limiter, caller, free>>
      /\ flights' = [flights EXCEPT ![k] = Unset]
    BY Zenon DEF Unregister
<1>2. t \in Tasks /\ t.at = "landed" BY Zenon DEF Tasks, Landed
<1>3. task' = [task EXCEPT ![f] = t] BY Zenon DEF Unregister
<1>4. k \in Key /\ flights[k] = f BY Zenon, <1>1 DEF MapInv
<1> HIDE DEF k, t
<1>5. PermitInv' /\ free' \in 0..Permits BY Zenon, <1>1, <1>2, <1>3, PermitsUnmoved
<1>6. LimiterInv' /\ count' \in 0..MaxCount BY Zenon, <1>1, LimiterUnmoved
<1>7. /\ task' \in [Flight -> Tasks]
      /\ flights' \in [Key -> Flight \union {Unset}]
    BY Zenon, <1>1, <1>2, <1>3, <1>4
<1>8. MapInv'
  <2>1. \A g \in Flight : task'[g].at # "landed" =>
            /\ g # f /\ task'[g] = task[g]
            /\ task[g].key \in Key /\ flights[task[g].key] = g
      BY Zenon, <1>2, <1>3 DEF MapInv
  <2>2. \A g \in Flight : task'[g].at # "landed" =>
            task'[g].key \in Key /\ flights'[task'[g].key] = g
      BY <1>1, <1>4, <2>1
  <2>3. \A j \in Key, g \in Flight : flights'[j] = g =>
            task'[g].at # "landed" /\ task'[g].key = j
      BY <1>1, <1>3, <1>4 DEF MapInv
  <2>4. QED BY Zenon, <1>1, <2>2, <2>3 DEF MapInv
<1>9. QED BY Zenon, <1>1, <1>5, <1>6, <1>7, <1>8

(* So every step preserves the invariant.                                  *)
LEMMA LoginStepInv == LoginInv /\ [Next]_vars => LoginInv'
<1> SUFFICES ASSUME LoginInv, [Next]_vars PROVE LoginInv'
    BY Zenon
<1>1. ASSUME NEW c \in Caller,
             CallerStep(c) \/ GiveUp(c) \/ \E k \in Key : Incr(c, k)
      PROVE  LoginInv'
    BY Zenon, <1>1, LimiterStepInv, SubscribeInv DEF CallerStep
<1>2. ASSUME NEW f \in Flight, FlightStep(f) PROVE LoginInv'
    BY Zenon, <1>2, AcquireInv, VerifyInv, SendInv, UnregisterInv DEF FlightStep
<1>3. CASE WindowEnds BY Zenon, <1>3, LimiterStepInv
<1>4. CASE UNCHANGED vars
  <2>1. UNCHANGED limiter /\ UNCHANGED flying /\ caller' = caller
      BY Zenon, <1>4 DEF vars
  <2>2. LimiterInv' /\ count' \in 0..MaxCount BY Zenon, <2>1, LimiterUnmoved
  <2>3. MapInv' BY Zenon, <2>1, FlyingKept DEF LoginInv, MapInv
  <2>4. QED BY Zenon, <2>1, <2>2, <2>3, FlyingKept DEF LoginInv, Types
<1>5. QED BY Zenon, <1>1, <1>2, <1>3, <1>4 DEF Next

(* The invariant implies the properties.                                   *)
LEMMA LoginInvImplies ==
    LoginInv => TypeOK /\ OneFlightPerKey /\ PermitsAccounted /\ CountersExpire
<1> SUFFICES ASSUME LoginInv
             PROVE  TypeOK /\ OneFlightPerKey /\ PermitsAccounted /\ CountersExpire
    BY Zenon
<1>1. TypeOK BY Zenon DEF LoginInv, Types, LimiterInv, TypeOK, Callers, Tasks
<1>2. OneFlightPerKey BY DEF LoginInv, MapInv, OneFlightPerKey, Aloft
<1>3. QED BY Zenon, <1>1, <1>2 DEF LoginInv, PermitInv, LimiterInv

(* The types of the module's state, a counter with an expiry being set.    *)
THEOREM LoginTypes == Spec => []TypeOK
BY LoginInitInv, LoginStepInv, LoginInvImplies, PTL DEF Spec

(* verify_password_coalesced runs one verification of a key at a time, and *)
(* a caller that looks the key up meanwhile finds it.                      *)
THEOREM OneFlightPerKeyAlways == Spec => []OneFlightPerKey
BY LoginInitInv, LoginStepInv, LoginInvImplies, PTL DEF Spec

(* The semaphore's permits balance through timeouts, panics and callers    *)
(* that are gone, so that no more than the configured number verify.       *)
THEOREM PermitsAccountedAlways == Spec => []PermitsAccounted
BY LoginInitInv, LoginStepInv, LoginInvImplies, PTL DEF Spec

(* A counter of enforce_rate_limit without an expiry is about to get one,  *)
(* or a caller gave up there and the next one sees to it.                  *)
THEOREM CountersExpireAlways == Spec => []CountersExpire
BY LoginInitInv, LoginStepInv, LoginInvImplies, PTL DEF Spec
=============================================================================
