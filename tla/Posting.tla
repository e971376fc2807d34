------------------------------ MODULE Posting ------------------------------
(***************************************************************************)
(* Who may write to a channel (backend/src/api/channels.rs): a user's bans *)
(* and membership, and the channel's state, archiving and restriction.  A  *)
(* request asks for them in up to three queries and writes in a later      *)
(* statement; administrators change any of them in between.                *)
(***************************************************************************)
EXTENDS Integers

CONSTANTS
    Ban,        \* bans of the user, for the channel or for all
    Post        \* requests of the user's socket

VARIABLES
    public,     \* the channel's kind; fixed
    powers,     \* the socket's session has chat:moderate; fixed
    bans,       \* bans neither revoked nor expired
    rank,       \* the user's membership_role; "moderator" also for an owner
    open,       \* deleted_at is NULL
    archived,   \* archived_at is set
    restricted, \* posting_restricted
    post        \* [at, kind, throughout, ever, lifted] of each request;
                \* history: the bars in force ever since it began, has any
                \* been, and was the restriction it read lifted meanwhile

postingVars == <<public, powers, bans, rank, open, archived, restricted, post>>
channelVars == <<public, powers, bans, rank, open, archived, restricted>>

Bar == {"banned", "outside", "deleted", "archived", "restricted"}
NoPost == [at |-> "idle", kind |-> "send", throughout |-> {}, ever |-> FALSE,
           lifted |-> FALSE]

PostingTypeOK ==
    /\ public \in BOOLEAN /\ powers \in BOOLEAN
    /\ bans \subseteq Ban
    /\ rank \in {"none", "member", "moderator"}
    /\ open \in BOOLEAN /\ archived \in BOOLEAN /\ restricted \in BOOLEAN
    /\ post \in [Post -> [at : {"idle", "access", "posting", "role", "write",
                                "done", "refused"},
                          kind : {"send", "alter"}, throughout : SUBSET Bar,
                          ever : BOOLEAN, lifted : BOOLEAN]]

PostingInit ==
    /\ public \in BOOLEAN /\ powers \in BOOLEAN
    /\ bans = {} /\ rank = "none"
    /\ open = TRUE /\ archived = FALSE /\ restricted = FALSE
    /\ post = [p \in Post |-> NoPost]

(* What stands against a request.  Editing and deleting a message needs    *)
(* access only.                                                            *)
Denials ==
    {b \in Bar : \/ b = "banned" /\ bans # {}
                 \/ b = "outside" /\ ~public /\ rank = "none"
                 \/ b = "deleted" /\ ~open}
Bars(kind) ==
    {b \in Bar : \/ b \in Denials
                 \/ kind = "send" /\ ~powers /\
                        \/ b = "archived" /\ archived
                        \/ b = "restricted" /\ restricted /\ rank # "moderator"}

(* The bars become those of the primed variables: the requests under way.  *)
Observe ==
    LET now == [kind \in {"send", "alter"} |-> Bars(kind)']
    IN  post' = [p \in Post |->
            IF post[p].at = "idle" THEN post[p]
            ELSE [post[p] EXCEPT !.throughout = @ \cap now[post[p].kind],
                                 !.ever = @ \/ now[post[p].kind] # {},
                                 !.lifted = @ \/ (post[p].at = "role"
                                                 /\ ~restricted')]]
-----------------------------------------------------------------------------
Move(p, at) == post' = [post EXCEPT ![p].at = at] /\ UNCHANGED channelVars

(* handle_client_event: SendMessage, or EditMessage and DeleteMessage.     *)
Ask(p, kind) ==
    /\ post[p].at = "idle"
    /\ post' = [post EXCEPT ![p] =
            [at |-> "access", kind |-> kind, throughout |-> Bars(kind),
             ever |-> Bars(kind) # {}, lifted |-> FALSE]]
    /\ UNCHANGED channelVars

(* ensure_channel_access: channel, membership and bans in one query.       *)
CheckAccess(p) ==
    /\ post[p].at = "access"
    /\ Move(p, IF Denials # {} THEN "refused"
               ELSE IF post[p].kind = "send" THEN "posting" ELSE "write")

(* ensure_channel_posting_access: the channel's row.                       *)
CheckPosting(p) ==
    /\ post[p].at = "posting"
    /\ Move(p, IF ~open \/ (archived /\ ~powers) THEN "refused"
               ELSE IF ~restricted \/ powers THEN "write" ELSE "role")

CheckRoleAnyMember(p) ==
    /\ post[p].at = "role"
    /\ Move(p, IF rank # "none" THEN "write" ELSE "refused")

(* Its second query: may this member post in a restricted channel?         *)
CheckRole(p) ==
    /\ post[p].at = "role"
    /\ Move(p, IF rank = "moderator" THEN "write" ELSE "refused")

(* save_message, edit_message or delete_message: not in a deleted channel. *)
Write(p) ==
    /\ post[p].at = "write"
    /\ Move(p, IF open THEN "done" ELSE "refused")

(* The answer is sent, or the request fails for another reason.            *)
EndPost(p) ==
    /\ post[p].at # "idle"
    /\ post' = [post EXCEPT ![p] = NoPost]
    /\ UNCHANGED channelVars
-----------------------------------------------------------------------------
(* admin_create_ban.  Its checks of user and channel precede the INSERT,   *)
(* so the channel may be deleted by then.                                  *)
AdminCreateBan(b) ==
    /\ b \notin bans
    /\ bans' = bans \union {b}
    /\ UNCHANGED <<public, powers, rank, open, archived, restricted>>
    /\ Observe

(* admin_revoke_ban, or expires_at has passed.                             *)
BanEnds(b) ==
    /\ b \in bans
    /\ bans' = bans \ {b}
    /\ UNCHANGED <<public, powers, rank, open, archived, restricted>>
    /\ Observe

(* Invitation, removal, promotion and so on (module Membership).           *)
RankChanges(next) ==
    /\ rank' = next
    /\ UNCHANGED <<public, powers, bans, open, archived, restricted>>
    /\ Observe

(* admin_update_channel, and the second statement of admin_create_channel. *)
AdminUpdateChannel(flag) ==
    /\ open
    /\ restricted' = flag
    /\ UNCHANGED <<public, powers, bans, rank, open, archived>>
    /\ Observe

(* admin_channel_state: archive and restore.                               *)
ArchiveOrRestore(flag) ==
    /\ archived' = flag
    /\ UNCHANGED <<public, powers, bans, rank, open, restricted>>
    /\ Observe

(* admin_channel_state: delete and undelete.                               *)
DeleteOrUndelete(flag) ==
    /\ open' = ~flag
    /\ UNCHANGED <<public, powers, bans, rank, archived, restricted>>
    /\ Observe

PostStep(p) ==
    \/ \E kind \in {"send", "alter"} : Ask(p, kind)
    \/ CheckAccess(p) \/ CheckPosting(p) \/ CheckRole(p) \/ Write(p) \/ EndPost(p)

PostingNext ==
    \/ \E p \in Post : PostStep(p)
    \/ \E b \in Ban : AdminCreateBan(b) \/ BanEnds(b)
    \/ \E next \in {"none", "member", "moderator"} : RankChanges(next)
    \/ \E flag \in BOOLEAN :
        AdminUpdateChannel(flag) \/ ArchiveOrRestore(flag) \/ DeleteOrUndelete(flag)

PostingSpec == PostingInit /\ [][PostingNext]_postingVars
-----------------------------------------------------------------------------
(* Although a request's checks are queries of their own, one that has      *)
(* written was not barred by any one thing all the way: a ban, a missing   *)
(* membership, a deletion, an archiving or a restriction that stood from   *)
(* its beginning has stopped it.  One that was refused did meet a bar: a   *)
(* ban that is over, or a restriction lifted before, stops nobody, unless  *)
(* the restriction was lifted and the moderator demoted between the two    *)
(* queries about them.                                                     *)
BarsObeyed ==
    \A p \in Post : /\ post[p].at = "done" => post[p].throughout = {}
                    /\ post[p].at = "refused" => post[p].ever \/ post[p].lifted
=============================================================================
