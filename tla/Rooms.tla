------------------------------- MODULE Rooms -------------------------------
(***************************************************************************)
(* One replica's RoomManager (backend/src/websocket/rooms.rs) and the      *)
(* sockets it serves (websocket/handler.rs).  Sockets send Subscribe and   *)
(* Release commands; the manager counts the clients of each room, keeps a  *)
(* Valkey Pub/Sub subscription per room and forwards what arrives.  The    *)
(* Pub/Sub connection may die; nothing published meanwhile is replayed.    *)
(***************************************************************************)
EXTENDS Integers, Sequences, FiniteSets

CONSTANTS
    Socket, Channel, Main,
    Msg,              \* message events, stored in the history first
    MembersEvent,     \* events of broadcast_members
    CommandCapacity,  \* 128: mpsc::channel of commands
    NoRoom, Closed    \* no receiver; a receiver whose sender is gone

ASSUME ChannelAssumption == Main \in Channel /\ {NoRoom, Closed} \cap Channel = {}
ASSUME EventAssumption == Msg \cap MembersEvent = {}

Event == Msg \union MembersEvent

VARIABLES
    conn,       \* the Pub/Sub connection: "up" or "dead"
    manager,    \* "serving" commands and messages, or "retrying"
    clients,    \* RoomEntry.clients, 0 without an entry
    upstream,   \* channels the connection is subscribed to
    commands,   \* the command queue
    pc, ch,     \* where each socket's task is, and its current channel
    rx,         \* the room receiver of each socket
    reply,      \* answer to the socket's pending Subscribe
    stream,     \* events received and not yet routed
    stored,     \* messages in the history
    chanOf,     \* channel of each stored or published event
    published,
    seen,       \* per socket: events loaded or received since it joined
    signalled,  \* sockets told "realtime connection interrupted"
    lagged,     \* sockets whose receiver overflowed
    strayed     \* history: rooms released by a socket that did not hold them

roomVars == <<conn, manager, clients, upstream>>
socketVars == <<pc, ch, rx, reply>>
eventVars == <<stream, stored, chanOf, published>>
viewVars == <<seen, signalled, lagged>>
vars == <<roomVars, commands, socketVars, eventVars, viewVars, strayed>>

Subscribe(c, s) == [op |-> "subscribe", ch |-> c, by |-> s, held |-> TRUE]
Release(c, s) == [op |-> "release", ch |-> c, by |-> s, held |-> rx[s] = c]

Commands == [op : {"subscribe", "release"}, ch : Channel, by : Socket,
             held : BOOLEAN]

TypeOK ==
    /\ conn \in {"up", "dead"} /\ manager \in {"serving", "retrying"}
    /\ clients \in [Channel -> Nat]
    /\ upstream \subseteq Channel
    /\ commands \in Seq(Commands)
    /\ pc \in [Socket -> {"closed", "joining", "open", "switching", "awaiting",
                          "leaving"}]
    /\ ch \in [Socket -> Channel]
    /\ rx \in [Socket -> Channel \union {NoRoom, Closed}]
    /\ reply \in [Socket -> {"none", "ok", "err"}]
    /\ stream \in Seq(Event)
    /\ stored \subseteq Msg /\ published \subseteq Event
    /\ chanOf \in [Event -> Channel]
    /\ seen \in [Socket -> SUBSET Event]
    /\ signalled \subseteq Socket /\ lagged \subseteq Socket
    /\ strayed \subseteq Channel

Init ==
    /\ conn = "up" /\ manager = "serving"
    /\ clients = [c \in Channel |-> 0]
    /\ upstream = {}
    /\ commands = <<>>
    /\ pc = [s \in Socket |-> "closed"]
    /\ ch = [s \in Socket |-> Main]
    /\ rx = [s \in Socket |-> NoRoom]
    /\ reply = [s \in Socket |-> "none"]
    /\ stream = <<>>
    /\ stored = {} /\ published = {}
    /\ chanOf = [e \in Event |-> Main]
    /\ seen = [s \in Socket |-> {}]
    /\ signalled = {} /\ lagged = {}
    /\ strayed = {}

(* commands.send(..).await: waits for room in the queue.                   *)
Send(command) ==
    /\ Len(commands) < CommandCapacity
    /\ commands' = Append(commands, command)

(* The task ends; a later connection of the socket starts afresh.          *)
Forget(s) ==
    /\ ch' = [ch EXCEPT ![s] = Main]
    /\ rx' = [rx EXCEPT ![s] = NoRoom]
    /\ seen' = [seen EXCEPT ![s] = {}]
    /\ signalled' = signalled \ {s}
    /\ lagged' = lagged \ {s}
-----------------------------------------------------------------------------
(* handle_socket starts: subscribe_control, then subscribe(main).          *)
Connect(s) ==
    /\ pc[s] = "closed"
    /\ Send(Subscribe(Main, s))
    /\ pc' = [pc EXCEPT ![s] = "joining"]
    /\ UNCHANGED <<roomVars, ch, rx, reply, eventVars, viewVars, strayed>>

JoinedWithoutHistory(s) ==
    /\ pc[s] \in {"joining", "awaiting"}
    /\ reply[s] = "ok"
    /\ reply' = [reply EXCEPT ![s] = "none"]
    /\ pc' = [pc EXCEPT ![s] = "open"]
    /\ UNCHANGED <<roomVars, commands, ch, rx, eventVars, viewVars, strayed>>

(* The subscription is granted and send_joined_with_history succeeds.      *)
Joined(s) ==
    /\ pc[s] \in {"joining", "awaiting"}
    /\ reply[s] = "ok"
    /\ reply' = [reply EXCEPT ![s] = "none"]
    /\ pc' = [pc EXCEPT ![s] = "open"]
    /\ seen' = [seen EXCEPT ![s] = @ \union {m \in stored : chanOf[m] = ch[s]}]
    /\ UNCHANGED <<roomVars, commands, ch, rx, eventVars, signalled, lagged,
                   strayed>>

(* Sending the history or the members fails, or presence does at startup.  *)
JoinFails(s) ==
    /\ pc[s] \in {"joining", "awaiting"}
    /\ reply[s] = "ok"
    /\ reply' = [reply EXCEPT ![s] = "none"]
    /\ pc' = [pc EXCEPT ![s] = "leaving"]
    /\ UNCHANGED <<roomVars, commands, ch, rx, eventVars, viewVars, strayed>>

(* subscribe returns an error: at startup the task ends, after a switch it *)
(* leaves the loop with channel already set to the new one.                *)
Refused(s) ==
    /\ reply[s] = "err"
    /\ reply' = [reply EXCEPT ![s] = "none"]
    /\ IF pc[s] = "joining"
       THEN pc' = [pc EXCEPT ![s] = "closed"] /\ Forget(s)
       ELSE pc' = [pc EXCEPT ![s] = "leaving"] /\ UNCHANGED <<ch, rx, viewVars>>
    /\ UNCHANGED <<roomVars, commands, eventVars, strayed>>

(* handle_client_event on OpenDirect, JoinChannel or the deletion of the   *)
(* current channel: after its checks, *channel is the new channel.         *)
HandleClientEvent(s, c) ==
    /\ pc[s] = "open"
    /\ ch' = [ch EXCEPT ![s] = c]

(* It asks for a switch: release(previous_channel) first.                  *)
Switch(s, c) ==
    /\ HandleClientEvent(s, c)
    /\ Send(Release(ch[s], s))
    /\ pc' = [pc EXCEPT ![s] = "switching"]
    /\ rx' = [rx EXCEPT ![s] = NoRoom]
    /\ UNCHANGED <<roomVars, reply, eventVars, viewVars, strayed>>

SwitchSubscribe(s) ==
    /\ pc[s] = "switching"
    /\ Send(Subscribe(ch[s], s))
    /\ pc' = [pc EXCEPT ![s] = "awaiting"]
    /\ seen' = [seen EXCEPT ![s] = {}]
    /\ UNCHANGED <<roomVars, ch, rx, reply, eventVars, signalled, lagged, strayed>>

(* The client closes, a send fails, or shutdown is observed.               *)
Disconnect(s) ==
    /\ pc[s] = "open"
    /\ pc' = [pc EXCEPT ![s] = "leaving"]
    /\ UNCHANGED <<roomVars, commands, ch, rx, reply, eventVars, viewVars, strayed>>

ReceiverClosedIgnored(s) ==
    /\ pc[s] = "open"
    /\ rx[s] = Closed
    /\ UNCHANGED vars

(* room_rx.recv() returns Closed.                                          *)
ReceiverClosed(s) ==
    /\ pc[s] = "open"
    /\ rx[s] = Closed
    /\ pc' = [pc EXCEPT ![s] = "leaving"]
    /\ UNCHANGED <<roomVars, commands, ch, rx, reply, eventVars, viewVars, strayed>>

(* The last statement of handle_socket.                                    *)
Leave(s) ==
    /\ pc[s] = "leaving"
    /\ Send(Release(ch[s], s))
    /\ pc' = [pc EXCEPT ![s] = "closed"]
    /\ Forget(s)
    /\ UNCHANGED <<roomVars, reply, eventVars, strayed>>
-----------------------------------------------------------------------------
HandleSubscribeSilentRefusal ==
    /\ manager = "serving" /\ commands # <<>>
    /\ Head(commands).op = "subscribe"
    /\ LET c == Head(commands).ch
           s == Head(commands).by
           granted == clients[c] > 0 \/ conn = "up"
       IN  /\ reply' = [reply EXCEPT ![s] = IF granted THEN "ok" ELSE "none"]
           /\ rx' = IF granted THEN [rx EXCEPT ![s] = c] ELSE rx
           /\ clients' = IF granted THEN [clients EXCEPT ![c] = @ + 1] ELSE clients
           /\ upstream' = IF granted THEN upstream \union {c} ELSE upstream
    /\ commands' = Tail(commands)
    /\ UNCHANGED <<conn, manager, pc, ch, eventVars, viewVars, strayed>>

(* ManagerCommand::Subscribe.                                              *)
HandleSubscribe ==
    /\ manager = "serving" /\ commands # <<>>
    /\ Head(commands).op = "subscribe"
    /\ LET c == Head(commands).ch
           s == Head(commands).by
           granted == clients[c] > 0 \/ conn = "up"
       IN  /\ reply' = [reply EXCEPT ![s] = IF granted THEN "ok" ELSE "err"]
           /\ rx' = IF granted THEN [rx EXCEPT ![s] = c] ELSE rx
           /\ clients' = IF granted THEN [clients EXCEPT ![c] = @ + 1] ELSE clients
           /\ upstream' = IF granted THEN upstream \union {c} ELSE upstream
    /\ commands' = Tail(commands)
    /\ UNCHANGED <<conn, manager, pc, ch, eventVars, viewVars, strayed>>

HandleReleaseKeepingRoom ==
    /\ manager = "serving" /\ commands # <<>>
    /\ Head(commands).op = "release"
    /\ LET c == Head(commands).ch
       IN  clients' = [clients EXCEPT ![c] = IF @ > 1 THEN @ - 1 ELSE @]
    /\ commands' = Tail(commands)
    /\ UNCHANGED <<conn, manager, upstream, socketVars, eventVars, viewVars, strayed>>

(* ManagerCommand::Release: saturating_sub; the last client's release      *)
(* drops the entry with its sender and unsubscribes.                       *)
HandleRelease ==
    /\ manager = "serving" /\ commands # <<>>
    /\ Head(commands).op = "release"
    /\ LET c == Head(commands).ch
           left == IF clients[c] > 0 THEN clients[c] - 1 ELSE 0
       IN  /\ clients' = [clients EXCEPT ![c] = left]
           /\ upstream' = IF left = 0 THEN upstream \ {c} ELSE upstream
           /\ rx' = [s \in Socket |->
                        IF left = 0 /\ rx[s] = c THEN Closed ELSE rx[s]]
           /\ strayed' = IF clients[c] > 0 /\ ~Head(commands).held
                         THEN strayed \union {c} ELSE strayed
    /\ commands' = Tail(commands)
    /\ UNCHANGED <<conn, manager, pc, ch, reply, eventVars, viewVars>>

(* A Pub/Sub message reaches the loop: messages go to the sender of their  *)
(* room, Members events match no arm.  Receivers in slow overflow.         *)
Route ==
    /\ manager = "serving" /\ stream # <<>>
    /\ LET e == Head(stream)
           holders == {s \in Socket : rx[s] = chanOf[e]}
       IN  \E slow \in SUBSET holders :
            /\ lagged' = lagged \union slow
            /\ seen' = [s \in Socket |->
                    IF e \in Msg /\ s \in holders \ slow
                    THEN seen[s] \union {e} ELSE seen[s]]
    /\ stream' = Tail(stream)
    /\ UNCHANGED <<roomVars, commands, socketVars, stored, chanOf, published,
                   signalled, strayed>>

(* stream.next() returns None once the buffered messages are drained: tell *)
(* every connected client, then retry.  The control channel of 128 events  *)
(* is taken to suffice: a socket behind it would only log what it skips.   *)
NoticeLoss ==
    /\ manager = "serving" /\ conn = "dead" /\ stream = <<>>
    /\ manager' = "retrying"
    /\ signalled' = signalled \union {s \in Socket : pc[s] # "closed"}
    /\ UNCHANGED <<conn, clients, upstream, commands, socketVars, eventVars,
                   seen, lagged, strayed>>

ReconnectControlOnly ==
    /\ manager = "retrying"
    /\ conn' = "up" /\ manager' = "serving"
    /\ upstream' = {}
    /\ UNCHANGED <<clients, commands, socketVars, eventVars, viewVars, strayed>>

(* A retry connects and restores every room's subscription.                *)
Reconnect ==
    /\ manager = "retrying"
    /\ conn' = "up" /\ manager' = "serving"
    /\ upstream' = {c \in Channel : clients[c] > 0}
    /\ UNCHANGED <<clients, commands, socketVars, eventVars, viewVars, strayed>>
-----------------------------------------------------------------------------
ConnectionDies ==
    /\ conn = "up"
    /\ conn' = "dead"
    /\ UNCHANGED <<manager, clients, upstream, commands, socketVars, eventVars,
                   viewVars, strayed>>

(* store_message of SendMessage, on any replica.                           *)
StoreMessage(m, c) ==
    /\ m \in Msg \ stored
    /\ stored' = stored \union {m}
    /\ chanOf' = [chanOf EXCEPT ![m] = c]
    /\ UNCHANGED <<roomVars, commands, socketVars, stream, published, viewVars,
                   strayed>>

(* PUBLISH: only live subscriptions get the event.                         *)
Deliver(e, c) ==
    /\ published' = published \union {e}
    /\ stream' = IF conn = "up" /\ c \in upstream THEN Append(stream, e) ELSE stream
    /\ UNCHANGED <<roomVars, commands, socketVars, stored, viewVars, strayed>>

(* broadcast of SendMessage, after store_message.                          *)
PublishMessage(m) ==
    /\ m \in stored \ published
    /\ Deliver(m, chanOf[m])
    /\ UNCHANGED chanOf

(* broadcast_members after an invitation or a removal.                     *)
PublishMembers(e, c) ==
    /\ e \in MembersEvent \ published
    /\ chanOf' = [chanOf EXCEPT ![e] = c]
    /\ Deliver(e, c)

SocketStep(s) ==
    \/ Connect(s) \/ Joined(s) \/ JoinFails(s) \/ Refused(s)
    \/ SwitchSubscribe(s) \/ Disconnect(s) \/ ReceiverClosed(s) \/ Leave(s)

Next ==
    \/ \E s \in Socket : SocketStep(s)
    \/ \E s \in Socket, c \in Channel : Switch(s, c)
    \/ HandleSubscribe \/ HandleRelease \/ Route
    \/ NoticeLoss \/ Reconnect \/ ConnectionDies
    \/ \E m \in Msg, c \in Channel : StoreMessage(m, c)
    \/ \E m \in Msg : PublishMessage(m)
    \/ \E e \in MembersEvent, c \in Channel : PublishMembers(e, c)

Spec == Init /\ [][Next]_vars

(* Every task keeps running; select! picks its ready branches at random,   *)
(* so a command that waits is taken although losses recur; Valkey comes    *)
(* back.  Clients, messages and losses are free.                           *)
Fairness ==
    /\ \A s \in Socket :
        /\ WF_vars(Joined(s) \/ JoinFails(s))
        /\ WF_vars(Refused(s))
        /\ SF_vars(SwitchSubscribe(s))
        /\ WF_vars(ReceiverClosed(s))
        /\ SF_vars(Leave(s))
    /\ SF_vars(HandleSubscribe \/ HandleRelease)
    /\ SF_vars(Route)
    /\ WF_vars(NoticeLoss)
    /\ WF_vars(Reconnect)

FairSpec == Spec /\ Fairness
-----------------------------------------------------------------------------
Held(c) == {s \in Socket : rx[s] = c}
ReleasesQueued(c) ==
    {i \in 1..Len(commands) :
        commands[i].op = "release" /\ commands[i].ch = c /\ commands[i].held}

(* The client count of a room is exactly the number of sockets that hold   *)
(* its receiver plus their releases on the way, unless a socket whose      *)
(* subscription was refused has released a room it never held.             *)
CountsHolders ==
    \A c \in Channel \ strayed :
        clients[c] = Cardinality(Held(c)) + Cardinality(ReleasesQueued(c))

(* While the connection lives every room with clients is subscribed at     *)
(* Valkey, also after any number of losses and restorations.               *)
RoomsSubscribed ==
    conn = "up" /\ manager = "serving" =>
        \A c \in Channel : clients[c] > 0 <=> c \in upstream

(* A socket in its loop has, or will get from the stream, every published  *)
(* message of its channel: from the history loaded after subscribing or    *)
(* live.  Otherwise it lagged, or the loss is signalled or about to be     *)
(* (plan.txt:327 "instead of silently missing events").                    *)
NoSilentGap ==
    \A s \in Socket : pc[s] = "open" /\ rx[s] = ch[s] =>
        \A m \in Msg \cap published : chanOf[m] = ch[s] =>
            \/ m \in seen[s]
            \/ \E i \in 1..Len(stream) : stream[i] = m
            \/ s \in signalled \union lagged
            \/ conn = "dead" /\ manager = "serving"

(* A socket never waits for ever on the manager: each Subscribe is         *)
(* answered, through connection losses and a full command queue.           *)
SubscribeAnswered ==
    \A s \in Socket : pc[s] \in {"joining", "switching", "awaiting"} ~>
                      pc[s] \in {"open", "leaving", "closed"}

(* A socket whose room was dropped under it does not stay deaf: it leaves  *)
(* its loop and closes, or gets a live receiver by switching.              *)
DeafSocketsRecover ==
    \A s \in Socket :
        (pc[s] = "open" /\ rx[s] = Closed) ~> (pc[s] = "closed" \/ rx[s] \in Channel)

(* plan.txt:277: "membership refresh events are also published to active   *)
(* WebSocket rooms so connected clients receive the same updates": a       *)
(* socket that holds the room and keeps up gets every event routed.        *)
RoomEventsReachHolders ==
    [][\A s \in Socket :
        stream # <<>> /\ stream' = Tail(stream) /\ rx[s] = chanOf[Head(stream)] =>
            Head(stream) \in seen'[s] \/ s \in lagged']_vars
=============================================================================
