------------------------------ MODULE Accounts ------------------------------
(***************************************************************************)
(* User rows and the admin role (backend/src/api/admin.rs, api/account.rs, *)
(* repository/postgres.rs): who is disabled, who is deleted and who has    *)
(* the role.  admin_remove_role counts the administrators and deletes the  *)
(* role's row in a later statement of its transaction; nothing locks what  *)
(* it counted.  What the changes do to sessions is in module Sessions.     *)
(***************************************************************************)
EXTENDS Integers, FiniteSets

CONSTANTS
    Account, FirstAdmin,
    Call            \* admin_remove_role requests, on any replica

ASSUME AccountAssumption == IsFiniteSet(Account) /\ FirstAdmin \in Account

VARIABLES
    disabled,   \* users with disabled_at set
    deleted,    \* users with deleted_at set
    admins,     \* users with a user_roles row for admin
    call,       \* [at, who, stale] of each request; stale: administrators
                \* were lost since its count
    unguarded   \* history: the last administrator went by a stale count or
                \* by a change that counts nobody

accountVars == <<disabled, deleted, admins, call, unguarded>>

NoCall == [at |-> "idle", who |-> FirstAdmin, stale |-> FALSE]

(* The rows that admin_remove_role counts.                                 *)
Administrators == admins \ (disabled \union deleted)

AccountsTypeOK ==
    /\ disabled \subseteq Account /\ deleted \subseteq Account
    /\ admins \subseteq Account
    /\ call \in [Call -> [at : {"idle", "counted"}, who : Account,
                          stale : BOOLEAN]]
    /\ unguarded \in BOOLEAN

AccountsInit ==
    /\ disabled = {} /\ deleted = {}
    /\ admins = {FirstAdmin}
    /\ call = [c \in Call |-> NoCall]
    /\ unguarded = FALSE

(* The administrators become those of the primed variables: what that      *)
(* means for the counts of others, and for who is to blame.                *)
Recount(calls, exempt) ==
    LET left == Administrators'
    IN  /\ call' = [c \in Call |->
                IF calls[c].at = "counted" /\ ~(Administrators \subseteq left)
                THEN [calls[c] EXCEPT !.stale = TRUE] ELSE calls[c]]
        /\ unguarded' = (left = {} /\ (unguarded \/ exempt))
-----------------------------------------------------------------------------
(* assign_role: any existing user, active or not.                          *)
AssignRole(u) ==
    /\ u \notin admins
    /\ admins' = admins \union {u}
    /\ UNCHANGED <<disabled, deleted>>
    /\ Recount(call, FALSE)

(* set_user_disabled, which also clears disabled_at of a deleted user.     *)
SetUserDisabled(u, off) ==
    /\ disabled' = IF off THEN disabled \union {u} ELSE disabled \ {u}
    /\ UNCHANGED <<deleted, admins>>
    /\ Recount(call, TRUE)

(* admin_delete_user of somebody else, and delete_account of oneself.      *)
DeleteUser(u) ==
    /\ u \notin deleted
    /\ deleted' = deleted \union {u}
    /\ disabled' = disabled \union {u}
    /\ UNCHANGED admins
    /\ Recount(call, TRUE)

CountAnyRole(c, u) ==
    /\ call[c].at = "idle"
    /\ Cardinality(admins) > 1
    /\ call' = [call EXCEPT ![c] =
            [at |-> "counted", who |-> u, stale |-> FALSE]]
    /\ UNCHANGED <<disabled, deleted, admins, unguarded>>

(* admin_remove_role: the count, which refuses the final administrator.    *)
CountAdmins(c, u) ==
    /\ call[c].at = "idle"
    /\ Cardinality(Administrators) > 1
    /\ call' = [call EXCEPT ![c] =
            [at |-> "counted", who |-> u, stale |-> FALSE]]
    /\ UNCHANGED <<disabled, deleted, admins, unguarded>>

(* Its DELETE and the commit; without a row it is NotFound.                *)
RemoveRole(c) ==
    /\ call[c].at = "counted"
    /\ admins' = admins \ {call[c].who}
    /\ UNCHANGED <<disabled, deleted>>
    /\ Recount([call EXCEPT ![c] = NoCall], call[c].stale)

(* A failure rolls the request back.                                       *)
RemoveRoleFails(c) ==
    /\ call[c].at = "counted"
    /\ call' = [call EXCEPT ![c] = NoCall]
    /\ UNCHANGED <<disabled, deleted, admins, unguarded>>

AccountsNext ==
    \/ \E u \in Account :
        \/ AssignRole(u) \/ DeleteUser(u)
        \/ \E off \in BOOLEAN : SetUserDisabled(u, off)
        \/ \E c \in Call : CountAdmins(c, u)
    \/ \E c \in Call : RemoveRole(c) \/ RemoveRoleFails(c)

AccountsSpec == AccountsInit /\ [][AccountsNext]_accountVars
-----------------------------------------------------------------------------
(* Removing roles never leaves the service without an active administrator *)
(* (admin.rs: "the final administrator cannot be removed"), however many   *)
(* requests run, unless administrators were lost between the count of the  *)
(* last removal and its commit; otherwise it was a disabling or a deletion *)
(* of an account, neither of which counts.                                 *)
AdministratorRemains == Administrators # {} \/ unguarded
=============================================================================
