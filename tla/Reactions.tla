----------------------------- MODULE Reactions -----------------------------
(***************************************************************************)
(* Reactions with one emoji to one message (AddReaction and RemoveReaction *)
(* of backend/src/websocket/handler.rs, broadcast_reaction of history.rs): *)
(* a request writes its row, reads all rows and publishes what it read; a  *)
(* browser in the room shows the last list it was sent since it joined,    *)
(* and none before the first (+page.svelte).                               *)
(***************************************************************************)
EXTENDS Integers

CONSTANTS
    Fan,        \* users who may react
    Press       \* requests, on any replica

VARIABLES
    fans,       \* message_reactions: who has reacted
    press,      \* [at, saw] of each request: the list it read
    listed,     \* the list the browser shows
    touched,    \* history: users who reacted, or took a reaction back, since
                \* the last moment without a request under way
    crowded,    \* history: two requests have overlapped since that moment
    doubt       \* history: users the browser may be wrong about (see
                \* PublishReaction, ReactionFails and Join)

reactionVars == <<fans, press, listed, touched, crowded, doubt>>

NoPress == [at |-> "idle", saw |-> {}]

ReactionsTypeOK ==
    /\ fans \subseteq Fan /\ listed \subseteq Fan
    /\ press \in [Press -> [at : {"idle", "read", "publish"}, saw : SUBSET Fan]]
    /\ touched \subseteq Fan /\ crowded \in BOOLEAN /\ doubt \subseteq Fan

ReactionsInit ==
    /\ fans = {} /\ listed = {}
    /\ press = [p \in Press |-> NoPress]
    /\ touched = {} /\ crowded = FALSE /\ doubt = {}

Pressed == {p \in Press : press[p].at # "idle"}

(* A request ends; with the last one, touched and crowded start anew.      *)
Finish(p) ==
    /\ press' = [press EXCEPT ![p] = NoPress]
    /\ touched' = IF Pressed = {p} THEN {} ELSE touched
    /\ crowded' = (crowded /\ Pressed # {p})
-----------------------------------------------------------------------------
ReactPublishingOld(p, u, add) ==
    /\ press[p].at = "idle"
    /\ fans' = IF add THEN fans \union {u} ELSE fans \ {u}
    /\ press' = [press EXCEPT ![p] = [at |-> "publish", saw |-> fans]]
    /\ touched' = touched \union {u}
    /\ crowded' = (Pressed # {})
    /\ UNCHANGED <<listed, doubt>>

(* The INSERT or DELETE of the user's row.                                 *)
React(p, u, add) ==
    /\ press[p].at = "idle"
    /\ fans' = IF add THEN fans \union {u} ELSE fans \ {u}
    /\ press' = [press EXCEPT ![p] = [at |-> "read", saw |-> {}]]
    /\ touched' = touched \union {u}
    /\ crowded' = (crowded \/ Pressed # {})
    /\ UNCHANGED <<listed, doubt>>

(* broadcast_reaction: the rows, then the event.                           *)
ReadFans(p) ==
    /\ press[p].at = "read"
    /\ press' = [press EXCEPT ![p].at = "publish", ![p].saw = fans]
    /\ UNCHANGED <<fans, listed, touched, crowded, doubt>>

(* The browser receives the event, or loses it on the way.  Lists of       *)
(* overlapping requests may arrive in the wrong order: they leave a doubt  *)
(* about the users of these requests, and about nobody else.               *)
PublishReaction(p, heard) ==
    /\ press[p].at = "publish"
    /\ listed' = IF heard THEN press[p].saw ELSE listed
    /\ doubt' = IF heard THEN (IF crowded THEN touched ELSE {})
                ELSE doubt \union touched
    /\ Finish(p)
    /\ UNCHANGED fans

(* A failing query or publication, or the death of the replica.            *)
ReactionFails(p) ==
    /\ press[p].at # "idle"
    /\ doubt' = doubt \union touched
    /\ Finish(p)
    /\ UNCHANGED <<fans, listed>>

(* 'joined', on a switch of rooms or a new connection: reactions = [], and *)
(* no event brings back the reactions made before.                         *)
Join ==
    /\ listed' = {}
    /\ doubt' = fans
    /\ UNCHANGED <<fans, press, touched, crowded>>

ReactionsNext ==
    \/ \E p \in Press :
          \/ \E u \in Fan, add \in BOOLEAN : React(p, u, add)
          \/ ReadFans(p) \/ ReactionFails(p)
          \/ \E heard \in BOOLEAN : PublishReaction(p, heard)
    \/ Join

ReactionsSpec == ReactionsInit /\ [][ReactionsNext]_reactionVars
-----------------------------------------------------------------------------
(* When no request is under way, a browser in the room shows a user's      *)
(* reaction exactly when the database has it, for every user but those of  *)
(* requests that overlapped, those of a lost event, and those who had      *)
(* reacted when the browser joined.  One event puts all of them right but  *)
(* the users of requests that overlapped with its own.                     *)
ReactionsShown ==
    Pressed = {} => \A u \in Fan \ doubt : u \in listed <=> u \in fans
=============================================================================
