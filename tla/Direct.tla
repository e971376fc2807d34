------------------------------- MODULE Direct -------------------------------
(***************************************************************************)
(* The direct conversation of two users (open_direct of backend/src/       *)
(* services.rs): channel rows with their direct_key, of which a partial    *)
(* unique index allows one that is not deleted, and their members.  Opens  *)
(* overlap with each other, with departures (leave_channel of members.rs)  *)
(* and with deletion and undeletion.  Uncommitted rows are seen by nobody  *)
(* else, but an insertion that conflicts with one waits for it.            *)
(***************************************************************************)
EXTENDS Integers

CONSTANTS
    Peer,       \* the two users
    Row,        \* ids of channel rows with their direct_key
    Visit,      \* requests, on any replica
    NoRow

ASSUME RowAssumption == NoRow \notin Row

VARIABLES
    row,        \* [Row -> {"none", "live", "deleted"}], committed rows
    inside,     \* channel_members of each row, committed
    visit,      \* [at, row, new, who, adds, since] of each request: its row,
                \* has it inserted it, who is leaving, the members it adds,
                \* and the history of who left since it looked for them
    away        \* history: who left each row since the last open of it

directVars == <<row, inside, visit, away>>

NoVisit == [at |-> "idle", row |-> NoRow, new |-> FALSE, who |-> {},
            adds |-> {}, since |-> {}]

DirectTypeOK ==
    /\ row \in [Row -> {"none", "live", "deleted"}]
    /\ inside \in [Row -> SUBSET Peer]
    /\ visit \in [Visit ->
            [at : {"idle", "insert", "select", "members", "commit", "leave"},
             row : Row \union {NoRow}, new : BOOLEAN, who : SUBSET Peer,
             adds : SUBSET Peer, since : SUBSET Peer]]
    /\ away \in [Row -> SUBSET Peer]

DirectInit ==
    /\ row = [d \in Row |-> "none"]
    /\ inside = [d \in Row |-> {}]
    /\ visit = [v \in Visit |-> NoVisit]
    /\ away = [d \in Row |-> {}]

Live == {d \in Row : row[d] = "live"}
Inserting == {v \in Visit : visit[v].new}
Advance(v, at) == visit' = [visit EXCEPT ![v].at = at]
-----------------------------------------------------------------------------
(* open_direct by either user: permission, ban and target are checked.     *)
OpenDirect(v) ==
    /\ visit[v].at = "idle"
    /\ Advance(v, "insert")
    /\ UNCHANGED <<row, inside, away>>

(* INSERT .. ON CONFLICT DO NOTHING, which waits for an uncommitted row.   *)
InsertRow(v) ==
    /\ visit[v].at = "insert" /\ Inserting = {}
    /\ \/ Live # {} /\ Advance(v, "select")
       \/ /\ Live = {}
          /\ \E d \in Row :
              /\ row[d] = "none"
              /\ visit' = [visit EXCEPT ![v].at = "members", ![v].row = d,
                                        ![v].new = TRUE]
    /\ UNCHANGED <<row, inside, away>>

(* fetch_one of the conflicting row: an error if it is deleted by now.     *)
SelectRow(v) ==
    /\ visit[v].at = "select"
    /\ \/ Live = {} /\ visit' = [visit EXCEPT ![v] = NoVisit]
       \/ \E d \in Live :
            visit' = [visit EXCEPT ![v].at = "members", ![v].row = d]
    /\ UNCHANGED <<row, inside, away>>

AddMembersIfNew(v) ==
    /\ visit[v].at = "members"
    /\ visit' = [visit EXCEPT ![v].at = "commit",
                              ![v].adds = IF visit[v].new THEN Peer ELSE {}]
    /\ UNCHANGED <<row, inside, away>>

(* Both INSERT INTO channel_members .. ON CONFLICT DO NOTHING; they wait   *)
(* for the same rows inserted by an open that has not committed.           *)
AddMembers(v) ==
    /\ visit[v].at = "members"
    /\ \A w \in Visit : visit[w].row = visit[v].row => visit[w].adds = {}
    /\ visit' = [visit EXCEPT ![v].at = "commit",
                              ![v].adds = Peer \ inside[visit[v].row]]
    /\ UNCHANGED <<row, inside, away>>

CommitOpen(v) ==
    LET d == visit[v].row
    IN  /\ visit[v].at = "commit"
        /\ row' = IF visit[v].new THEN [row EXCEPT ![d] = "live"] ELSE row
        /\ inside' = [inside EXCEPT ![d] = @ \union visit[v].adds]
        /\ away' = [away EXCEPT ![d] = @ \intersect visit[v].since]
        /\ visit' = [visit EXCEPT ![v] = NoVisit]

(* An error, a rollback or the death of the replica.                       *)
AbortVisit(v) ==
    /\ visit[v].at # "idle"
    /\ visit' = [visit EXCEPT ![v] = NoVisit]
    /\ UNCHANGED <<row, inside, away>>

(* leave_channel: nobody owns a direct conversation, so any member may.    *)
LeaveDirect(v, u, d) ==
    /\ visit[v].at = "idle"
    /\ d \in Live /\ u \in inside[d]
    /\ visit' = [visit EXCEPT ![v].at = "leave", ![v].row = d, ![v].who = {u}]
    /\ UNCHANGED <<row, inside, away>>

(* Its DELETE of the membership row.                                       *)
LeaveDirectCommit(v) ==
    LET d == visit[v].row
        gone == visit[v].who \intersect inside[d]
    IN  /\ visit[v].at = "leave"
        /\ inside' = [inside EXCEPT ![d] = @ \ gone]
        /\ away' = [away EXCEPT ![d] = @ \union gone]
        /\ visit' = [w \in Visit |->
                IF w = v THEN NoVisit
                ELSE IF visit[w].at = "commit" /\ visit[w].row = d
                THEN [visit[w] EXCEPT !.since = @ \union gone]
                ELSE visit[w]]
        /\ UNCHANGED row

(* delete_channel_service, or admin_channel_state with delete.             *)
DeleteDirect(d) ==
    /\ d \in Live
    /\ row' = [row EXCEPT ![d] = "deleted"]
    /\ UNCHANGED <<inside, visit, away>>

(* admin_channel_state with undelete: refused by the index over a live row *)
(* and waiting for an uncommitted one.                                     *)
UndeleteDirect(d) ==
    /\ row[d] = "deleted" /\ Live = {} /\ Inserting = {}
    /\ row' = [row EXCEPT ![d] = "live"]
    /\ UNCHANGED <<inside, visit, away>>

DirectNext ==
    \/ \E v \in Visit :
        \/ OpenDirect(v) \/ InsertRow(v) \/ SelectRow(v) \/ AddMembers(v)
        \/ CommitOpen(v) \/ AbortVisit(v) \/ LeaveDirectCommit(v)
        \/ \E u \in Peer, d \in Row : LeaveDirect(v, u, d)
    \/ \E d \in Row : DeleteDirect(d) \/ UndeleteDirect(d)

DirectSpec == DirectInit /\ [][DirectNext]_directVars
-----------------------------------------------------------------------------
(* Two users never have two live conversations, so both open the same one, *)
(* and each is a member of every conversation that was opened, unless that *)
(* user left after the last open of it had looked at the members: opening  *)
(* it again brings both back.                                              *)
PeersMeet ==
    /\ \A c, d \in Live : c = d
    /\ \A d \in Row : row[d] # "none" => Peer \ inside[d] \subseteq away[d]
=============================================================================
