------------------------------ MODULE Presence ------------------------------
(***************************************************************************)
(* Whether a user is shown in a channel (backend/src/websocket/presence.rs *)
(* and the loop of websocket/handler.rs): the entry of the user in the     *)
(* channel's Valkey set and a key with a lifetime, shared by all tabs of   *)
(* the user.  The tabs move between channels; what they write for another  *)
(* channel than Room does not touch its entry and key.  A tab of another   *)
(* user lists Room and then follows its events (+page.svelte).  One clock  *)
(* tick is one heartbeat interval of the browser, 15 seconds.              *)
(***************************************************************************)
EXTENDS Integers, Sequences

CONSTANTS
    Tab,        \* tabs of the user, with sockets on one replica
    Channel, Main,
    Room,       \* the channel whose presence is followed
    Ttl,        \* PRESENCE_TTL_SECONDS, in heartbeat intervals
    Misses,     \* heartbeats in a row that may fail
    InboxCap    \* room events the watching tab may be behind

ASSUME ChannelAssumption == Main \in Channel /\ Room \in Channel
ASSUME TtlAssumption == /\ Ttl \in Nat /\ Misses \in Nat /\ Misses + 1 < Ttl
                        /\ InboxCap \in Nat \ {0}

VARIABLES
    member,     \* the presence set of Room holds the user
    ttl,        \* what is left of the presence key's lifetime, 0 without one
    sock,       \* [at, chan, to, first] of each tab's socket task
    due,        \* tabs whose heartbeat of this interval is yet to be handled
    watch,      \* where the watching tab's socket task is; "blind" is in the
                \* loop without a list, before its first event of the user
    shown,      \* its participants contain the user
    inbox,      \* room events it has not been sent yet
    down,       \* SHUTTING_DOWN: -1 before, 0 in the interval it is set, then 1
    fails,      \* history: failed heartbeats since the last good one; more
                \* than Misses also when someone else removed the user
    fault,      \* history: a removal from Room did not happen
    empty,      \* history: intervals without a tab in Room, up to Ttl
    hidden,     \* history: tabs after whose event came another's farewell
    missed      \* history: an event is lost or was never published

store == <<member, ttl>>
view == <<watch, shown, inbox, missed>>
presenceVars == <<store, sock, due, view, hidden, down, fails, fault, empty>>

Excused == Misses + 1
Gone == [at |-> "closed", chan |-> Main, to |-> Main, first |-> FALSE]
Loop == {"open", "alert"}   \* in select!, without and with the flag's branch
Staying == Loop \union {"smembers", "mget", "srem", "announce", "beat"}
There(s) == sock[s].chan = Room
Stayers == {s \in Tab : There(s) /\ sock[s].at \in Staying}
Nobody == \A s \in Tab : sock[s].at # "closed" => ~There(s)

(* The user is among what list_presence returns.                           *)
Listed == member /\ ttl > 0

PresenceTypeOK ==
    /\ member \in BOOLEAN /\ ttl \in 0..Ttl
    /\ sock \in [Tab -> [at : Staying \union {"closed", "enter", "depart",
                                              "farewell", "leave", "bye"},
                         chan : Channel, to : Channel, first : BOOLEAN]]
    /\ due \subseteq Tab
    /\ watch \in {"away", "smembers", "mget", "srem", "blind", "watching"}
    /\ shown \in BOOLEAN /\ missed \in BOOLEAN /\ hidden \subseteq Tab
    /\ inbox \in Seq({"joined", "left"}) /\ Len(inbox) <= InboxCap
    /\ down \in -1..1
    /\ fails \in [Tab -> 0..Excused]
    /\ fault \in BOOLEAN /\ empty \in 0..Ttl

PresenceInit ==
    /\ member = FALSE /\ ttl = 0
    /\ sock = [s \in Tab |-> Gone]
    /\ due = {}
    /\ watch = "away" /\ shown = FALSE /\ inbox = <<>> /\ missed = FALSE
    /\ hidden = {}
    /\ down = -1
    /\ fails = [s \in Tab |-> Excused]
    /\ fault = FALSE /\ empty = 0
-----------------------------------------------------------------------------
RefreshKeepingTtl == member' = TRUE /\ ttl' = IF ttl > 0 THEN ttl ELSE Ttl

(* refresh_presence and remove_presence: one MULTI block each.             *)
RefreshPresence == member' = TRUE /\ ttl' = Ttl
RemovePresence == member' = FALSE /\ ttl' = 0

Excuse(S) == fails' = [s \in Tab |-> IF s \in S THEN Excused ELSE fails[s]]
Missing(s) == [fails EXCEPT ![s] = IF @ < Excused THEN @ + 1 ELSE @]
To(s, at) == sock' = [sock EXCEPT ![s].at = at]

(* broadcast to the room: the event reaches the watching tab's receiver,   *)
(* which drops its oldest one when full, or is lost on the way.            *)
Broadcast(s, event, heard) ==
    LET reached == There(s) /\ watch # "away"
        full == Len(inbox) = InboxCap
    IN  /\ inbox' = IF reached /\ heard
                    THEN Append(IF full THEN Tail(inbox) ELSE inbox, event)
                    ELSE inbox
        /\ missed' = (missed \/ (reached /\ (full \/ ~heard)))
        /\ hidden' = IF event = "joined" THEN hidden \ {s}
                     ELSE IF There(s) THEN hidden \union (Stayers \ {s})
                     ELSE hidden
        /\ UNCHANGED <<watch, shown>>

(* The tab no longer stays where it is.                                    *)
Quit(s) ==
    /\ due' = due \ {s}
    /\ Excuse({s})
    /\ hidden' = hidden \ {s}

(* The socket task ends without the removal and the event it owes.         *)
Vanish(s, listed) ==
    /\ sock' = [sock EXCEPT ![s] = Gone]
    /\ Quit(s)
    /\ fault' = (fault \/ (There(s) /\ listed))
    /\ missed' = (missed \/ (There(s) /\ watch # "away"))
    /\ UNCHANGED <<watch, shown, inbox, down, empty>>

EnterLoopUnaware(s) ==
    sock' = [sock EXCEPT ![s].at = IF sock[s].first /\ down >= 0
                                   THEN "alert" ELSE "open",
                         ![s].first = FALSE]

(* tokio::select! is entered: the branch of the flag takes part if it is   *)
(* set by now.                                                             *)
EnterLoop(s) ==
    sock' = [sock EXCEPT ![s].at = IF down = -1 THEN "open" ELSE "alert",
                         ![s].first = FALSE]
-----------------------------------------------------------------------------
(* handle_socket, up to the subscription and the history of main.          *)
Connect(s) ==
    /\ sock[s].at = "closed" /\ down = -1
    /\ sock' = [sock EXCEPT ![s] =
            [at |-> "enter", chan |-> Main, to |-> Main, first |-> TRUE]]
    /\ empty' = IF Main = Room THEN 0 ELSE empty
    /\ UNCHANGED <<store, due, view, hidden, down, fails, fault>>

(* refresh_presence of the start, of a switch or of a heartbeat.  It may   *)
(* fail, or only its answer be lost; at the start either ends the task,    *)
(* which removes nothing.                                                  *)
Refresh(s, outcome) ==
    /\ sock[s].at \in {"enter", "beat"}
    /\ IF There(s) /\ outcome # "failed" THEN RefreshPresence ELSE UNCHANGED store
    /\ \/ /\ sock[s].first => outcome = "ok"
          /\ To(s, IF sock[s].at = "enter" THEN "smembers" ELSE "announce")
          /\ fails' = IF outcome = "failed" THEN Missing(s)
                      ELSE [fails EXCEPT ![s] = IF There(s) THEN 0 ELSE Excused]
          /\ due' = due \ {s}
          /\ UNCHANGED <<view, hidden, down, fault, empty>>
       \/ /\ sock[s].first /\ outcome # "ok"
          /\ Vanish(s, outcome = "lost")

(* list_presence: SMEMBERS, MGET and, without a key, SREM.  What it finds  *)
(* elsewhere does not matter here.                                         *)
Smembers(s) ==
    /\ sock[s].at = "smembers"
    /\ To(s, IF There(s) /\ member THEN "mget" ELSE "announce")
    /\ UNCHANGED <<store, due, view, hidden, down, fails, fault, empty>>

Mget(s) ==
    /\ sock[s].at = "mget"
    /\ To(s, IF ttl > 0 THEN "announce" ELSE "srem")
    /\ UNCHANGED <<store, due, view, hidden, down, fails, fault, empty>>

Srem(s) ==
    /\ sock[s].at = "srem"
    /\ member' = FALSE
    /\ Excuse(Stayers)
    /\ To(s, "announce")
    /\ UNCHANGED <<ttl, due, view, hidden, down, fault, empty>>

(* sync_presence fails: the start is given up, a switch goes on.           *)
SyncFails(s) ==
    /\ sock[s].at \in {"smembers", "mget", "srem"}
    /\ \/ sock[s].first /\ Vanish(s, TRUE)
       \/ /\ ~sock[s].first /\ To(s, "announce")
          /\ UNCHANGED <<due, view, hidden, down, fails, fault, empty>>
    /\ UNCHANGED store

(* ParticipantJoined, then the loop.                                       *)
Announce(s, heard) ==
    /\ sock[s].at = "announce"
    /\ Broadcast(s, "joined", heard)
    /\ EnterLoop(s)
    /\ UNCHANGED <<store, due, down, fails, fault, empty>>

(* The Heartbeat arm: EXISTS of the session.  Without one the loop ends,   *)
(* and an error is only reported.                                          *)
Heartbeat(s) ==
    /\ sock[s].at \in Loop
    /\ \/ To(s, "beat") /\ UNCHANGED <<due, fails, hidden>>
       \/ To(s, "leave") /\ Quit(s)
       \/ /\ EnterLoop(s)
          /\ due' = due \ {s} /\ fails' = Missing(s) /\ UNCHANGED hidden
    /\ UNCHANGED <<store, view, down, fault, empty>>

(* Any other event of the room or the browser.                             *)
OtherEvent(s) ==
    /\ sock[s].at = "open" /\ down >= 0
    /\ EnterLoop(s)
    /\ UNCHANGED <<store, due, view, hidden, down, fails, fault, empty>>

(* JoinChannel, OpenDirect or DeleteChannel has chosen a channel.          *)
SwitchTo(s, c) ==
    /\ sock[s].at \in Loop
    /\ sock' = [sock EXCEPT ![s].at = "depart", ![s].to = c]
    /\ Quit(s)
    /\ UNCHANGED <<store, view, down, fault, empty>>

(* The loop ends: the browser closes, a receiver is closed, or the second  *)
(* after the shutdown flag has passed.                                     *)
Break(s) ==
    /\ sock[s].at \in Loop
    /\ To(s, "leave")
    /\ Quit(s)
    /\ UNCHANGED <<store, view, down, fault, empty>>

RemoveAtEndOnly(s, done) ==
    /\ sock[s].at \in {"depart", "leave"}
    /\ To(s, IF sock[s].at = "depart" THEN "farewell" ELSE "bye")
    /\ IF There(s) /\ done
       THEN /\ IF sock[s].at = "leave" THEN RemovePresence ELSE UNCHANGED store
            /\ Excuse(Stayers) /\ fault' = FALSE
       ELSE fault' = (fault \/ There(s)) /\ UNCHANGED <<store, fails>>
    /\ UNCHANGED <<due, view, hidden, down, empty>>

(* remove_presence, whose error is ignored: every tab there loses it.      *)
Remove(s, done) ==
    /\ sock[s].at \in {"depart", "leave"}
    /\ To(s, IF sock[s].at = "depart" THEN "farewell" ELSE "bye")
    /\ IF There(s) /\ done
       THEN RemovePresence /\ Excuse(Stayers) /\ fault' = FALSE
       ELSE fault' = (fault \/ There(s)) /\ UNCHANGED <<store, fails>>
    /\ UNCHANGED <<due, view, hidden, down, empty>>

(* ParticipantLeft of a switch, then the subscription to the new room and  *)
(* its history, either of which may fail.                                  *)
Farewell(s, heard) ==
    /\ sock[s].at = "farewell"
    /\ Broadcast(s, "left", heard)
    /\ \E at \in {"enter", "leave"} :
        sock' = [sock EXCEPT ![s].at = at, ![s].chan = sock[s].to,
                             ![s].to = Main]
    /\ empty' = IF sock[s].to = Room THEN 0 ELSE empty
    /\ UNCHANGED <<store, due, down, fails, fault>>

ByeSilent(s, heard) ==
    /\ sock[s].at = "bye"
    /\ sock' = [sock EXCEPT ![s] = Gone]
    /\ UNCHANGED <<store, due, view, hidden, down, fails, fault, empty>>

(* ParticipantLeft of a disconnection.                                     *)
Bye(s, heard) ==
    /\ sock[s].at = "bye"
    /\ Broadcast(s, "left", heard)
    /\ sock' = [sock EXCEPT ![s] = Gone]
    /\ UNCHANGED <<store, due, down, fails, fault, empty>>

(* The replica dies, or exits while sockets are still open.                *)
Die(s) ==
    /\ sock[s].at # "closed"
    /\ Vanish(s, sock[s].at \in Staying \union {"depart", "leave"})
    /\ UNCHANGED store

Shutdown ==
    /\ down = -1
    /\ down' = 0
    /\ UNCHANGED <<store, sock, due, view, hidden, fails, fault, empty>>
-----------------------------------------------------------------------------
(* The other user's tab joins Room: subscription, then list_presence.  The *)
(* list of @here and of admin_participants takes the same steps.           *)
WatchJoin ==
    /\ watch = "away"
    /\ watch' = "smembers"
    /\ UNCHANGED <<store, sock, due, shown, inbox, missed, hidden, down,
                   fails, fault, empty>>

WatchSmembers ==
    /\ watch = "smembers"
    /\ watch' = IF member THEN "mget" ELSE "watching"
    /\ UNCHANGED <<store, sock, due, shown, inbox, missed, hidden, down,
                   fails, fault, empty>>

WatchMget ==
    /\ watch = "mget"
    /\ watch' = IF ttl > 0 THEN "watching" ELSE "srem"
    /\ shown' = (ttl > 0)
    /\ missed' = (missed \/ (ttl > 0 /\ fault))
    /\ UNCHANGED <<store, sock, due, inbox, hidden, down, fails, fault, empty>>

WatchSrem ==
    /\ watch = "srem"
    /\ watch' = "watching"
    /\ member' = FALSE
    /\ Excuse(Stayers)
    /\ UNCHANGED <<ttl, sock, due, shown, inbox, missed, hidden, down,
                   fault, empty>>

(* An event of the room, applied to participants.                          *)
WatchEvent ==
    /\ watch \in {"blind", "watching"} /\ inbox # <<>>
    /\ watch' = "watching"
    /\ shown' = (Head(inbox) = "joined")
    /\ inbox' = Tail(inbox)
    /\ UNCHANGED <<store, sock, due, missed, hidden, down, fails, fault, empty>>

(* The list of a switch fails, which is ignored: the tab goes on with the  *)
(* empty participants that 'joined' left it.                               *)
WatchListFails ==
    /\ watch \in {"smembers", "mget", "srem"}
    /\ watch' = "blind"
    /\ UNCHANGED <<store, sock, due, shown, inbox, missed, hidden, down,
                   fails, fault, empty>>

(* It leaves, or the list of its start fails.                              *)
WatchLeave ==
    /\ watch # "away"
    /\ watch' = "away"
    /\ shown' = FALSE /\ inbox' = <<>> /\ missed' = FALSE
    /\ UNCHANGED <<store, sock, due, hidden, down, fails, fault, empty>>

(* A heartbeat interval passes.  Every tab that stays has had a heartbeat  *)
(* handled in it: the browser sends one every 15 seconds.                  *)
Tick ==
    /\ due = {}
    /\ due' = {s \in Tab : sock[s].at \in Staying}
    /\ ttl' = IF ttl > 0 THEN ttl - 1 ELSE 0
    /\ empty' = IF ~Nobody THEN 0 ELSE IF empty < Ttl THEN empty + 1 ELSE Ttl
    /\ fault' = (fault /\ ttl > 1)
    /\ down' = IF down = 0 THEN 1 ELSE down
    /\ UNCHANGED <<member, sock, view, hidden, fails>>

TabStep(s) ==
    \/ Connect(s) \/ Smembers(s) \/ Mget(s) \/ Srem(s) \/ SyncFails(s)
    \/ Heartbeat(s) \/ OtherEvent(s) \/ Break(s) \/ Die(s)
    \/ \E c \in Channel : SwitchTo(s, c)
    \/ \E outcome \in {"ok", "lost", "failed"} : Refresh(s, outcome)
    \/ \E flag \in BOOLEAN :
        Announce(s, flag) \/ Remove(s, flag) \/ Farewell(s, flag) \/ Bye(s, flag)

WatchStep ==
    \/ WatchJoin \/ WatchSmembers \/ WatchMget \/ WatchSrem \/ WatchEvent
    \/ WatchListFails \/ WatchLeave

PresenceNext == (\E s \in Tab : TabStep(s)) \/ WatchStep \/ Shutdown \/ Tick

PresenceSpec == PresenceInit /\ [][PresenceNext]_presenceVars
-----------------------------------------------------------------------------
(* A tab whose heartbeats get through, or fail at most Misses times in a   *)
(* row, keeps the user listed, unless another tab of the user has left the *)
(* channel or a list removed an entry it had found stale; then the next    *)
(* heartbeat lists the user again.                                         *)
PresentUnlessDisturbed == \A s \in Stayers : fails[s] <= Misses => Listed

(* A user without a tab in the channel is listed only where a socket died, *)
(* its start failed or its removal did, and for less than the lifetime of  *)
(* the key.                                                                *)
GhostsExpire == Listed /\ Nobody => fault /\ empty < Ttl

(* What another user sees, having missed no event: not a user whose tabs   *)
(* are all gone once the events are applied, and the user while a tab      *)
(* stays, unless another tab's farewell came after its last event.  When   *)
(* the list of a switch failed, this is so from the user's next event on,  *)
(* which a heartbeat brings.                                               *)
ViewFollows ==
    watch = "watching" /\ ~missed =>
        /\ shown /\ Nobody => inbox # <<>> /\ inbox[Len(inbox)] = "left"
        /\ \A s \in Stayers \ hidden :
            sock[s].at \in Loop /\ fails[s] <= Misses /\ inbox = <<>> => shown

(* From the heartbeat interval after the shutdown flag is set, a socket in *)
(* the loop that has had its heartbeat waits with the flag's branch, which *)
(* closes it in the next quiet second (plan.txt:739 "established sockets   *)
(* observe the shutdown flag").  Without heartbeats an idle one would not. *)
FlagObserved ==
    down = 1 => \A s \in Tab : sock[s].at = "open" => s \in due
=============================================================================
