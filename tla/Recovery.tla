------------------------------ MODULE Recovery ------------------------------
(***************************************************************************)
(* Recovery of one account by a mailed token (backend/src/api/account.rs): *)
(* the rows of account_recovery_tokens, requests that replace the unused   *)
(* ones by a new one, and resets that use one up.  A DELETE removes the    *)
(* rows its statement saw, so it does not see the token of a request that  *)
(* had not committed by then; it waits for rows a reset holds FOR UPDATE.  *)
(***************************************************************************)
EXTENDS Integers

CONSTANTS
    Token,          \* tokens the account may be mailed
    Mail,           \* requests and resets, on any replica
    NoToken

ASSUME TokenAssumption == NoToken \notin Token

VARIABLES
    standing,   \* the account: "active", "disabled" or "deleted"
    issued,     \* tokens ever inserted
    unused,     \* rows with used_at NULL
    fresh,      \* tokens whose expires_at has not passed
    mail,       \* [at, saw, token, stale] of each request; stale: another
                \* one committed after its DELETE saw the rows
    resets,     \* history: password resets by each token, saturated at 2
    overlapped  \* history: the newest token's request was stale

recoveryVars == <<standing, issued, unused, fresh, mail, resets, overlapped>>

NoMail == [at |-> "idle", saw |-> {}, token |-> NoToken, stale |-> FALSE]

RecoveryTypeOK ==
    /\ standing \in {"active", "disabled", "deleted"}
    /\ issued \subseteq Token /\ unused \subseteq issued /\ fresh \subseteq issued
    /\ mail \in [Mail -> [at : {"idle", "request", "replace", "reset"},
                          saw : SUBSET Token, token : Token \union {NoToken},
                          stale : BOOLEAN]]
    /\ resets \in [Token -> 0..2]
    /\ overlapped \in BOOLEAN

RecoveryInit ==
    /\ standing = "active"
    /\ issued = {} /\ unused = {} /\ fresh = {}
    /\ mail = [m \in Mail |-> NoMail]
    /\ resets = [t \in Token |-> 0]
    /\ overlapped = FALSE

(* The request m has committed its token, which the others do not see.     *)
Committed(m) ==
    [n \in Mail |-> IF n = m THEN NoMail
                    ELSE IF mail[n].at = "replace"
                    THEN [mail[n] EXCEPT !.stale = TRUE] ELSE mail[n]]

(* Tokens whose row a reset has locked.                                    *)
Locked == {mail[m].token : m \in {n \in Mail : mail[n].at = "reset"}}
-----------------------------------------------------------------------------
(* request_recovery: past its rate limit, and only for an active account.  *)
RequestRecovery(m) ==
    /\ mail[m].at = "idle" /\ standing = "active"
    /\ mail' = [mail EXCEPT ![m].at = "request"]
    /\ UNCHANGED <<standing, issued, unused, fresh, resets, overlapped>>

(* The DELETE of the unused tokens looks for its rows.                     *)
FindUnused(m) ==
    /\ mail[m].at = "request"
    /\ mail' = [mail EXCEPT ![m].at = "replace", ![m].saw = unused,
                            ![m].stale = FALSE]
    /\ UNCHANGED <<standing, issued, unused, fresh, resets, overlapped>>

(* It deletes those that are still unused, and the new token is inserted.  *)
Replace(m) ==
    /\ mail[m].at = "replace" /\ mail[m].saw \cap Locked = {}
    /\ \E t \in Token \ issued :
        /\ issued' = issued \union {t}
        /\ unused' = (unused \ mail[m].saw) \union {t}
        /\ fresh' = fresh \union {t}
    /\ mail' = Committed(m)
    /\ overlapped' = mail[m].stale
    /\ UNCHANGED <<standing, resets>>

ResetUnlocked(m, t) ==
    /\ mail[m].at = "idle" /\ t \in unused \cap fresh
    /\ mail' = [mail EXCEPT ![m].at = "reset", ![m].token = t]
    /\ UNCHANGED <<standing, issued, unused, fresh, resets, overlapped>>

(* reset_recovery: the SELECT .. FOR UPDATE of a token it was sent.        *)
ResetRecovery(m, t) ==
    /\ mail[m].at = "idle" /\ t \in (unused \cap fresh) \ Locked
    /\ mail' = [mail EXCEPT ![m].at = "reset", ![m].token = t]
    /\ UNCHANGED <<standing, issued, unused, fresh, resets, overlapped>>

(* The new password, not for a deleted account, the used token, a commit.  *)
ResetCommit(m) ==
    LET t == mail[m].token
    IN  /\ mail[m].at = "reset"
        /\ unused' = unused \ {t}
        /\ resets' = [resets EXCEPT ![t] =
                IF standing # "deleted" /\ @ < 2 THEN @ + 1 ELSE @]
        /\ mail' = [mail EXCEPT ![m] = NoMail]
        /\ UNCHANGED <<standing, issued, fresh, overlapped>>

(* An error or the death of the replica rolls the request back.            *)
MailFails(m) ==
    /\ mail[m].at # "idle"
    /\ mail' = [mail EXCEPT ![m] = NoMail]
    /\ UNCHANGED <<standing, issued, unused, fresh, resets, overlapped>>

(* Half an hour passes over a token.                                       *)
TokenExpires(t) ==
    /\ t \in fresh
    /\ fresh' = fresh \ {t}
    /\ UNCHANGED <<standing, issued, unused, mail, resets, overlapped>>

(* The account is disabled, enabled or deleted (module Accounts).          *)
StandingChanges(next) ==
    /\ standing # "deleted" /\ standing # next
    /\ standing' = next
    /\ UNCHANGED <<issued, unused, fresh, mail, resets, overlapped>>

RecoveryNext ==
    \/ \E m \in Mail :
        \/ RequestRecovery(m) \/ FindUnused(m) \/ Replace(m) \/ ResetCommit(m)
        \/ MailFails(m)
        \/ \E t \in Token : ResetRecovery(m, t)
    \/ \E t \in Token : TokenExpires(t)
    \/ \E next \in {"active", "disabled", "deleted"} : StandingChanges(next)

RecoverySpec == RecoveryInit /\ [][RecoveryNext]_recoveryVars
-----------------------------------------------------------------------------
(* A token resets the password at most once, however many requests present *)
(* it at a time, and only the newest of an account's tokens can be used,   *)
(* unless its request overlapped with another one: then both stay usable.  *)
LatestTokenOnce ==
    /\ \A t \in Token : resets[t] <= 1
    /\ overlapped \/ \A s, t \in unused : s = t
=============================================================================
