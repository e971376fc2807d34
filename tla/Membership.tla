----------------------------- MODULE Membership -----------------------------
(***************************************************************************)
(* The members of one private channel (backend/src/api/members.rs,         *)
(* services.rs, api/channels.rs, api/admin.rs): its owner_user_id, the     *)
(* membership_role of each user and an invite link.  Most handlers check   *)
(* first and write in a later statement, so a check may be stale when its  *)
(* write commits, and the channel deleted or undeleted in between.         *)
(***************************************************************************)
EXTENDS Integers

CONSTANTS
    User, Creator,
    Moderators,    \* users with the chat:moderate permission
    Req,           \* concurrent requests, on any replica
    MaxUses,       \* max_uses of the invite link, 0 for no limit
    UseBound,      \* bound on the uses considered
    NoReq

ASSUME CreatorAssumption == Creator \in User
ASSUME UsesAssumption == MaxUses \in Nat /\ UseBound \in Nat
ASSUME NoReqAssumption == NoReq \notin Req

VARIABLES
    live,      \* channels.deleted_at IS NULL
    link,      \* there is an invite link (the first one made)
    owner,     \* channels.owner_user_id
    role,      \* channel_members.membership_role, "none" without a row
    uses,      \* channel_invite_links.uses
    rowLock,   \* the request holding the link and channel rows FOR UPDATE
    req,       \* what each request is about to write
    joins,     \* history: users added through the link
    stale      \* history: a transfer or departure committed on a stale check

vars == <<live, link, owner, role, uses, rowLock, req, joins, stale>>

Ops == {"idle", "invite", "remove", "promote", "demote", "leave", "target",
        "transfer", "link", "accept"}
Idle == [at |-> "idle", by |-> Creator, who |-> Creator]

TypeOK ==
    /\ live \in BOOLEAN /\ link \in BOOLEAN
    /\ owner \in User
    /\ role \in [User -> {"none", "member", "moderator", "owner"}]
    /\ uses \in Nat /\ joins \in Nat
    /\ rowLock \in Req \union {NoReq}
    /\ req \in [Req -> [at : Ops, by : User, who : User]]
    /\ stale \in BOOLEAN
    /\ rowLock # NoReq => req[rowLock].at = "accept"

(* create_private_conversation                                             *)
Init ==
    /\ live = TRUE /\ link = FALSE
    /\ owner = Creator
    /\ role = [u \in User |-> IF u = Creator THEN "owner" ELSE "none"]
    /\ uses = 0 /\ joins = 0
    /\ rowLock = NoReq
    /\ req = [r \in Req |-> Idle]
    /\ stale = FALSE

Begin(r, at, by, who) ==
    /\ req[r].at = "idle"
    /\ req' = [req EXCEPT ![r] = [at |-> at, by |-> by, who |-> who]]
    /\ UNCHANGED <<live, link, owner, role, uses, rowLock, joins, stale>>

Commit(r, at) ==
    /\ req[r].at = at
    /\ req' = [req EXCEPT ![r] = Idle]

(* UPDATE or DELETE of one membership row, when its role is in from.       *)
SetRole(u, from, to) ==
    role' = [role EXCEPT ![u] = IF @ \in from THEN to ELSE @]

(* owned_private_channel, channel_moderator_manager                        *)
Owns(u) == live /\ owner = u
Manages(u) == live /\ (u \in Moderators \/ owner = u)
-----------------------------------------------------------------------------
DeleteChannelUnlocked ==
    /\ live
    /\ live' = FALSE
    /\ UNCHANGED <<link, owner, role, uses, rowLock, req, joins, stale>>

(* delete_channel_service: one UPDATE, which waits for a FOR UPDATE lock.  *)
DeleteChannel ==
    /\ Moderators # {}
    /\ live /\ rowLock = NoReq
    /\ live' = FALSE
    /\ UNCHANGED <<link, owner, role, uses, rowLock, req, joins, stale>>

(* create_public_channel with the name of a deleted channel: the INSERT    *)
(* conflicts and undeletes the row, private kind, owner and members kept.  *)
CreatePublicChannel ==
    /\ ~live /\ rowLock = NoReq
    /\ live' = TRUE
    /\ UNCHANGED <<link, owner, role, uses, rowLock, req, joins, stale>>

(* admin_channel_state: delete or undelete, whatever the state was.        *)
AdminChannelState(undelete) ==
    /\ rowLock = NoReq
    /\ live' = undelete
    /\ UNCHANGED <<link, owner, role, uses, rowLock, req, joins, stale>>

(* create_invite_link: the caller is a member, and owner or moderator.     *)
CreateInviteLink(r, u) ==
    /\ ~link
    /\ Manages(u) /\ role[u] # "none"
    /\ Begin(r, "link", u, u)

(* The new row refers to the channel, so it waits like a new member's.     *)
LinkCommit(r) ==
    /\ Commit(r, "link")
    /\ rowLock = NoReq
    /\ link' = TRUE
    /\ UNCHANGED <<live, owner, role, uses, rowLock, joins, stale>>
-----------------------------------------------------------------------------
(* invite_member: a new row refers to the channel, so it waits for a       *)
(* request that holds the channel FOR UPDATE.                              *)
InviteMember(r, by, who) == Owns(by) /\ Begin(r, "invite", by, who)

InviteCommit(r) ==
    /\ Commit(r, "invite")
    /\ rowLock = NoReq \/ role[req[r].who] # "none"
    /\ SetRole(req[r].who, {"none"}, "member")
    /\ UNCHANGED <<live, link, owner, uses, rowLock, joins, stale>>

(* remove_member                                                           *)
RemoveMember(r, by, who) == Owns(by) /\ Begin(r, "remove", by, who)

(* DELETE .. WHERE membership_role <> 'owner'                              *)
RemoveCommit(r) ==
    /\ Commit(r, "remove")
    /\ SetRole(req[r].who, {"member", "moderator"}, "none")
    /\ UNCHANGED <<live, link, owner, uses, rowLock, joins, stale>>

(* promote_channel_moderator                                               *)
PromoteModerator(r, by, who) == Manages(by) /\ Begin(r, "promote", by, who)

PromoteCommit(r) ==
    /\ Commit(r, "promote")
    /\ SetRole(req[r].who, {"member"}, "moderator")
    /\ UNCHANGED <<live, link, owner, uses, rowLock, joins, stale>>

(* demote_channel_moderator                                                *)
DemoteModerator(r, by, who) == Manages(by) /\ Begin(r, "demote", by, who)

DemoteCommit(r) ==
    /\ Commit(r, "demote")
    /\ SetRole(req[r].who, {"moderator"}, "member")
    /\ UNCHANGED <<live, link, owner, uses, rowLock, joins, stale>>

(* leave_channel: the check, then a DELETE of whatever row is there.       *)
LeaveChannel(r, u) ==
    /\ live
    /\ role[u] \in {"member", "moderator"} /\ owner # u
    /\ Begin(r, "leave", u, u)

LeaveCommit(r) ==
    LET u == req[r].who
    IN  /\ Commit(r, "leave")
        /\ SetRole(u, {"member", "moderator", "owner"}, "none")
        /\ stale' = (stale \/ role[u] = "owner" \/ owner = u)
        /\ UNCHANGED <<live, link, owner, uses, rowLock, joins>>

(* transfer_channel_ownership: the owner, then the target, is checked.     *)
TransferOwnership(r, by, who) ==
    Owns(by) /\ by # who /\ Begin(r, "target", by, who)

TransferTarget(r) ==
    /\ req[r].at = "target"
    /\ req' = IF role[req[r].who] = "none"
              THEN [req EXCEPT ![r] = Idle]
              ELSE [req EXCEPT ![r].at = "transfer"]
    /\ UNCHANGED <<live, link, owner, role, uses, rowLock, joins, stale>>

TransferKeepingRole(r) ==
    LET by == req[r].by
        who == req[r].who
    IN  /\ Commit(r, "transfer")
        /\ rowLock = NoReq
        /\ owner' = who
        /\ role' = [role EXCEPT ![who] = IF @ = "none" THEN @ ELSE "owner"]
        /\ stale' = (stale \/ owner # by \/ role[who] = "none")
        /\ UNCHANGED <<live, link, uses, rowLock, joins>>

(* Its transaction: three UPDATEs, the membership ones by user id only.    *)
TransferCommit(r) ==
    LET by == req[r].by
        who == req[r].who
    IN  /\ Commit(r, "transfer")
        /\ rowLock = NoReq
        /\ owner' = who
        /\ role' = [role EXCEPT ![by] = IF @ = "none" THEN @ ELSE "moderator",
                                ![who] = IF @ = "none" THEN @ ELSE "owner"]
        /\ stale' = (stale \/ owner # by \/ role[who] = "none")
        /\ UNCHANGED <<live, link, uses, rowLock, joins>>

Usable == live /\ link /\ (MaxUses = 0 \/ uses < MaxUses)

AcceptWithoutLock(r, u) ==
    /\ req[r].at = "idle" /\ Usable
    /\ req' = [req EXCEPT ![r] = [at |-> "accept", by |-> u, who |-> u]]
    /\ UNCHANGED <<live, link, owner, role, uses, rowLock, joins, stale>>

(* accept_invite_link: SELECT .. FOR UPDATE locks link and channel.        *)
AcceptInviteLink(r, u) ==
    /\ req[r].at = "idle" /\ rowLock = NoReq
    /\ Usable /\ uses < UseBound
    /\ rowLock' = r
    /\ req' = [req EXCEPT ![r] = [at |-> "accept", by |-> u, who |-> u]]
    /\ UNCHANGED <<live, link, owner, role, uses, joins, stale>>

(* A member does not use the link up.                                      *)
AcceptCommit(r) ==
    LET new == IF role[req[r].who] = "none" THEN 1 ELSE 0
    IN  /\ Commit(r, "accept")
        /\ SetRole(req[r].who, {"none"}, "member")
        /\ uses' = uses + new
        /\ joins' = joins + new
        /\ rowLock' = IF rowLock = r THEN NoReq ELSE rowLock
        /\ UNCHANGED <<live, link, owner, stale>>

(* An error, a rollback or the death of the replica.                       *)
Fail(r) ==
    /\ req[r].at # "idle"
    /\ req' = [req EXCEPT ![r] = Idle]
    /\ rowLock' = IF rowLock = r THEN NoReq ELSE rowLock
    /\ UNCHANGED <<live, link, owner, role, uses, joins, stale>>

CommitStep(r) ==
    \/ InviteCommit(r) \/ RemoveCommit(r) \/ PromoteCommit(r) \/ DemoteCommit(r)
    \/ LeaveCommit(r) \/ TransferTarget(r) \/ TransferCommit(r)
    \/ LinkCommit(r) \/ AcceptCommit(r) \/ Fail(r)

ManageStep(r, by, who) ==
    \/ InviteMember(r, by, who) \/ RemoveMember(r, by, who)
    \/ PromoteModerator(r, by, who) \/ DemoteModerator(r, by, who)
    \/ TransferOwnership(r, by, who)

Next ==
    \/ \E r \in Req : CommitStep(r)
    \/ \E r \in Req, by, who \in User : ManageStep(r, by, who)
    \/ \E r \in Req, u \in User :
        LeaveChannel(r, u) \/ CreateInviteLink(r, u) \/ AcceptInviteLink(r, u)
    \/ DeleteChannel \/ CreatePublicChannel
    \/ \E undelete \in BOOLEAN : AdminChannelState(undelete)

Spec == Init /\ [][Next]_vars
-----------------------------------------------------------------------------
(* The channel's owner, and no one else, has the owner role, so the        *)
(* channel is never orphaned (plan.txt:293), as long as no transfer and no *)
(* departure committed on a check that another request had made stale.     *)
(* Stale checks of the other handlers do no harm.                          *)
OwnerHoldsRole ==
    ~stale => \A u \in User : role[u] = "owner" <=> u = owner

(* A limited link never admits more users than max_uses, however many      *)
(* accept it at once, and uses counts exactly the users it admitted.       *)
LinkAdmitsAtMostMaxUses ==
    /\ uses = joins
    /\ MaxUses > 0 => joins <= MaxUses

(* Nobody joins a deleted channel through its link: the deletion waits for *)
(* an acceptance that has checked deleted_at, or comes before its check.   *)
JoinsOnlyLiveChannel == [][joins' # joins => live /\ link]_vars

(* The inductive invariant behind all three: only the request that locked the   *)
(* link's row is about to use it, and the link is still usable then.       *)
MembershipInv ==
    /\ TypeOK /\ OwnerHoldsRole /\ LinkAdmitsAtMostMaxUses
    /\ \A r \in Req : req[r].at = "accept" => rowLock = r
    /\ rowLock # NoReq => Usable
=============================================================================
