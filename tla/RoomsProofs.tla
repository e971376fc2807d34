---------------------------- MODULE RoomsProofs ----------------------------
(***************************************************************************)
(* The client counts, the subscriptions and the events of the rooms, for   *)
(* any number of sockets, channels, messages and lost connections.         *)
(***************************************************************************)
EXTENDS Rooms, FiniteSetTheorems, TLAPS

(* A socket holds no room but its own, and none while it waits for an      *)
(* answer, after a refusal or when its task is over.                       *)
SocketInv ==
    \A s \in Socket :
        /\ pc[s] = "closed" => rx[s] = NoRoom /\ ch[s] = Main
        /\ pc[s] = "joining" => ch[s] = Main
        /\ pc[s] = "switching" => rx[s] = NoRoom
        /\ pc[s] \in {"joining", "awaiting"} /\ reply[s] = "none" => rx[s] = NoRoom
        /\ reply[s] # "none" => pc[s] \in {"joining", "awaiting"}
        /\ reply[s] = "err" => rx[s] = NoRoom
        /\ rx[s] \in Channel => rx[s] = ch[s]

(* A Subscribe in the queue is the only one of a socket that waits for it. *)
CommandInv ==
    /\ \A i \in 1..Len(commands) : commands[i].op = "subscribe" =>
        /\ pc[commands[i].by] \in {"joining", "awaiting"}
        /\ reply[commands[i].by] = "none"
        /\ commands[i].ch = ch[commands[i].by]
    /\ \A i, j \in 1..Len(commands) :
        /\ commands[i].op = "subscribe" /\ commands[j].op = "subscribe"
        /\ commands[i].by = commands[j].by
        => i = j

(* A room that is held has clients; while the manager retries, its holders *)
(* have been told.                                                         *)
HoldInv ==
    /\ \A s \in Socket : rx[s] \in Channel => clients[rx[s]] > 0
    /\ manager = "retrying" =>
        conn = "dead" /\ \A s \in Socket : rx[s] \in Channel => s \in signalled

(* A message is stored before it is published.                             *)
StoreInv == published \cap Msg \subseteq stored

RoomsInv ==
    /\ TypeOK /\ SocketInv /\ CommandInv /\ HoldInv /\ StoreInv
    /\ RoomsSubscribed /\ NoSilentGap

CountInv ==
    /\ \A c \in Channel : IsFiniteSet(Held(c))
    /\ CountsHolders

(* It holds before the first socket connects.                              *)
LEMMA RoomsInitInv == Init => RoomsInv /\ CountInv
<1> SUFFICES ASSUME Init PROVE RoomsInv /\ CountInv
    BY Zenon
<1> USE ChannelAssumption DEF Init
<1>1. TypeOK BY DEF TypeOK, Event
<1>2. SocketInv BY Zenon DEF SocketInv
<1>3. CommandInv /\ HoldInv BY DEF CommandInv, HoldInv
<1>4. StoreInv /\ RoomsSubscribed /\ NoSilentGap
    BY DEF StoreInv, RoomsSubscribed, NoSilentGap
<1>5. \A c \in Channel : Held(c) = {} /\ ReleasesQueued(c) = {}
    BY DEF Held, ReleasesQueued
<1>6. \A c \in Channel : IsFiniteSet(Held(c)) /\ Cardinality(Held(c)) = 0
                        /\ Cardinality(ReleasesQueued(c)) = 0
    BY Zenon, <1>5, FS_EmptySet
<1>7. CountsHolders BY <1>6 DEF CountsHolders
<1>8. QED BY Zenon, <1>1, <1>2, <1>3, <1>4, <1>6, <1>7 DEF RoomsInv, CountInv

(* What a sent command adds to the queue.                                  *)
LEMMA SendQueue ==
    ASSUME TypeOK, NEW x \in Commands, Send(x)
    PROVE  /\ commands' \in Seq(Commands)
           /\ Len(commands') = Len(commands) + 1 /\ Len(commands) \in Nat
           /\ commands'[Len(commands) + 1] = x
           /\ \A i \in 1..Len(commands) : commands'[i] = commands[i]
BY DEF TypeOK, Send

(* What a handled command takes from it.                                   *)
LEMMA TailQueue ==
    ASSUME TypeOK, commands # <<>>, commands' = Tail(commands)
    PROVE  /\ commands' \in Seq(Commands) /\ Head(commands) \in Commands
           /\ Head(commands) = commands[1]
           /\ Len(commands) \in Nat \ {0} /\ Len(commands') = Len(commands) - 1
           /\ \A i \in 1..Len(commands') : /\ i + 1 \in 1..Len(commands)
                                           /\ commands'[i] = commands[i + 1]
BY DEF TypeOK

(* Every command comes from a socket.                                      *)
LEMMA SenderType == TypeOK => \A i \in 1..Len(commands) : commands[i].by \in Socket
<1>1. TypeOK => \A i \in 1..Len(commands) : commands[i] \in Commands BY DEF TypeOK
<1>2. QED BY Zenon, <1>1 DEF Commands

(* A step that sends nothing and changes no state the queue depends on.    *)
LEMMA QueueKept ==
    ASSUME RoomsInv, UNCHANGED commands, NEW s \in Socket,
           \A o \in Socket \ {s} :
                pc'[o] = pc[o] /\ reply'[o] = reply[o] /\ ch'[o] = ch[o],
           reply[s] # "none" \/ pc[s] \notin {"joining", "awaiting"}
    PROVE  CommandInv'
<1>1. \A i \in 1..Len(commands) : commands[i].by \in Socket
    BY Zenon, SenderType DEF RoomsInv
<1>2. \A i \in 1..Len(commands) :
        commands[i].op = "subscribe" => commands[i].by \in Socket \ {s}
    BY Zenon, <1>1 DEF RoomsInv, CommandInv
<1>3. QED BY <1>2 DEF RoomsInv, CommandInv

(* The answer to a Subscribe: into the loop with the history, or out.      *)
LEMMA AnsweredInv ==
    ASSUME RoomsInv, NEW s \in Socket, Joined(s) \/ JoinFails(s) \/ Refused(s)
    PROVE  RoomsInv'
<1> USE ChannelAssumption DEF RoomsInv, roomVars, eventVars, viewVars
<1>1. /\ UNCHANGED <<roomVars, commands, eventVars, strayed>>
      /\ reply' = [reply EXCEPT ![s] = "none"] /\ reply[s] # "none"
    BY Zenon DEF Joined, JoinFails, Refused
<1>2. CASE Joined(s)
  <2>1. TypeOK' BY Zenon, <1>2 DEF Joined, TypeOK, Event
  <2>2. SocketInv' BY <1>2 DEF Joined, TypeOK, SocketInv
  <2>3. CommandInv' BY Zenon, <1>1, <1>2, QueueKept DEF Joined, TypeOK
  <2>4. HoldInv' /\ StoreInv' /\ RoomsSubscribed'
      BY Zenon, <1>2 DEF Joined, HoldInv, StoreInv, RoomsSubscribed
  <2>5. NoSilentGap' BY <1>2 DEF Joined, TypeOK, NoSilentGap, StoreInv
  <2>6. QED BY Zenon, <2>1, <2>2, <2>3, <2>4, <2>5
<1>3. CASE JoinFails(s)
  <2>1. TypeOK' BY Zenon, <1>3 DEF JoinFails, TypeOK
  <2>2. SocketInv' BY <1>3 DEF JoinFails, TypeOK, SocketInv
  <2>3. CommandInv' BY Zenon, <1>1, <1>3, QueueKept DEF JoinFails, TypeOK
  <2>4. HoldInv' /\ StoreInv' /\ RoomsSubscribed'
      BY Zenon, <1>3 DEF JoinFails, HoldInv, StoreInv, RoomsSubscribed
  <2>5. NoSilentGap' BY <1>3 DEF JoinFails, TypeOK, NoSilentGap
  <2>6. QED BY Zenon, <2>1, <2>2, <2>3, <2>4, <2>5
<1>4. CASE Refused(s)
  <2>0. rx[s] = NoRoom BY Zenon, <1>4 DEF Refused, SocketInv
  <2>1. CommandInv'
    <3>1. ASSUME NEW o \in Socket, o # s
          PROVE  pc'[o] = pc[o] /\ reply'[o] = reply[o] /\ ch'[o] = ch[o]
        BY <1>1, <1>4, <3>1 DEF Refused, Forget, TypeOK
    <3>2. QED BY Zenon, <1>1, <3>1, QueueKept
  <2>2. StoreInv' /\ RoomsSubscribed' BY Zenon, <1>1 DEF StoreInv, RoomsSubscribed
  <2>3. CASE pc[s] = "joining"
    <3>1. pc' = [pc EXCEPT ![s] = "closed"] /\ Forget(s)
        BY Zenon, <1>4, <2>3 DEF Refused
    <3>2. TypeOK' BY Zenon, <1>1, <3>1 DEF Forget, TypeOK
    <3>3. SocketInv' BY <1>1, <3>1 DEF Forget, TypeOK, SocketInv
    <3>4. HoldInv' BY Zenon, <1>1, <2>0, <3>1 DEF Forget, HoldInv, TypeOK
    <3>5. NoSilentGap' BY <1>1, <3>1 DEF Forget, TypeOK, NoSilentGap
    <3>6. QED BY Zenon, <2>1, <2>2, <3>2, <3>3, <3>4, <3>5
  <2>4. CASE pc[s] # "joining"
    <3>1. pc' = [pc EXCEPT ![s] = "leaving"] /\ UNCHANGED <<ch, rx, viewVars>>
        BY Zenon, <1>4, <2>4 DEF Refused
    <3>2. TypeOK' BY Zenon, <1>1, <3>1 DEF TypeOK
    <3>3. SocketInv' BY <1>1, <3>1 DEF TypeOK, SocketInv
    <3>4. HoldInv' BY Zenon, <1>1, <3>1 DEF HoldInv
    <3>5. NoSilentGap' BY Zenon, <1>1, <3>1 DEF TypeOK, NoSilentGap
    <3>6. QED BY Zenon, <2>1, <2>2, <3>2, <3>3, <3>4, <3>5
  <2>5. QED BY Zenon, <2>3, <2>4
<1>5. QED BY Zenon, <1>2, <1>3, <1>4

(* Leaving the loop.                                                       *)
LEMMA LeavingInv ==
    ASSUME RoomsInv, NEW s \in Socket, Disconnect(s) \/ ReceiverClosed(s)
    PROVE  RoomsInv'
<1> USE DEF RoomsInv, roomVars, eventVars, viewVars
<1>1. /\ pc[s] = "open" /\ pc' = [pc EXCEPT ![s] = "leaving"]
      /\ UNCHANGED <<roomVars, commands, ch, rx, reply, eventVars, viewVars, strayed>>
    BY Zenon DEF Disconnect, ReceiverClosed
<1>2. TypeOK' BY Zenon, <1>1 DEF TypeOK
<1>3. SocketInv' BY Zenon, <1>1 DEF TypeOK, SocketInv
<1>4. CommandInv' BY Zenon, <1>1, QueueKept DEF TypeOK
<1>5. HoldInv' /\ StoreInv' /\ RoomsSubscribed'
    BY Zenon, <1>1 DEF HoldInv, StoreInv, RoomsSubscribed
<1>6. NoSilentGap' BY Zenon, <1>1 DEF TypeOK, NoSilentGap
<1>7. QED BY Zenon, <1>2, <1>3, <1>4, <1>5, <1>6

(* The queue with a release added by a socket that waits for no answer.    *)
LEMMA ReleaseQueued ==
    ASSUME RoomsInv, NEW s \in Socket, NEW x \in Commands, x.op = "release",
           Send(x), UNCHANGED reply,
           \A o \in Socket \ {s} : pc'[o] = pc[o] /\ ch'[o] = ch[o],
           pc[s] \notin {"joining", "awaiting"}
    PROVE  CommandInv'
<1> USE DEF RoomsInv
<1>1. \A i \in 1..Len(commands) : commands[i].by \in Socket BY Zenon, SenderType
<1>2. \A i \in 1..Len(commands) :
        commands[i].op = "subscribe" => commands[i].by \in Socket \ {s}
    BY Zenon, <1>1 DEF CommandInv
<1>3. /\ Len(commands') = Len(commands) + 1 /\ Len(commands) \in Nat
      /\ commands'[Len(commands) + 1] = x
      /\ \A i \in 1..Len(commands) : commands'[i] = commands[i]
    BY Zenon, SendQueue
<1>4. \A i \in 1..Len(commands') : commands'[i].op = "subscribe" =>
        /\ i \in 1..Len(commands) /\ commands'[i] = commands[i]
        /\ commands[i].by \in Socket \ {s}
    BY <1>2, <1>3
<1>5. QED BY <1>4 DEF CommandInv

(* A release is a command, whether its socket held the room or not.        *)
LEMMA ReleaseType ==
    ASSUME NEW c \in Channel, NEW s \in Socket
    PROVE  /\ Release(c, s) \in Commands /\ Release(c, s).op = "release"
           /\ Release(c, s).ch = c /\ Release(c, s).held = (rx[s] = c)
<1>1. \A b \in BOOLEAN :
        [op |-> "release", ch |-> c, by |-> s, held |-> b] \in Commands
    BY Zenon DEF Commands
<1>2. (rx[s] = c) \in BOOLEAN BY Zenon
<1>3. Release(c, s) = [op |-> "release", ch |-> c, by |-> s, held |-> (rx[s] = c)]
    BY Zenon DEF Release
<1>4. Release(c, s) \in Commands BY <1>1, <1>2, <1>3, Zenon
<1>5. QED BY <1>3, <1>4

(* Asking for another channel.                                             *)
LEMMA SwitchInv ==
    ASSUME RoomsInv, NEW s \in Socket, NEW c \in Channel, Switch(s, c)
    PROVE  RoomsInv'
<1> USE ChannelAssumption DEF RoomsInv, roomVars, eventVars, viewVars
<1>1. /\ pc[s] = "open" /\ pc' = [pc EXCEPT ![s] = "switching"]
      /\ ch' = [ch EXCEPT ![s] = c] /\ rx' = [rx EXCEPT ![s] = NoRoom]
      /\ Send(Release(ch[s], s))
      /\ UNCHANGED <<roomVars, reply, eventVars, viewVars, strayed>>
    BY Zenon DEF Switch, HandleClientEvent
<1>2. PICK x \in Commands : x = Release(ch[s], s) BY ReleaseType DEF TypeOK
<1>3. x.op = "release" BY <1>2, ReleaseType DEF TypeOK
<1>4. TypeOK' BY Zenon, <1>1, <1>2, SendQueue DEF TypeOK
<1>5. SocketInv' BY <1>1 DEF TypeOK, SocketInv
<1>6. CommandInv' BY Zenon, <1>1, <1>2, <1>3, ReleaseQueued DEF TypeOK
<1>7. HoldInv' BY Zenon, <1>1 DEF HoldInv, TypeOK
<1>8. StoreInv' /\ RoomsSubscribed' BY Zenon, <1>1 DEF StoreInv, RoomsSubscribed
<1>9. NoSilentGap' BY <1>1 DEF NoSilentGap, TypeOK
<1>10. QED BY Zenon, <1>4, <1>5, <1>6, <1>7, <1>8, <1>9

(* The end of the task.                                                    *)
LEMMA LeaveInv ==
    ASSUME RoomsInv, NEW s \in Socket, Leave(s)
    PROVE  RoomsInv'
<1> USE ChannelAssumption DEF RoomsInv, roomVars, eventVars
<1>1. /\ pc[s] = "leaving" /\ pc' = [pc EXCEPT ![s] = "closed"]
      /\ Send(Release(ch[s], s)) /\ Forget(s)
      /\ UNCHANGED <<roomVars, reply, eventVars, strayed>>
    BY Zenon DEF Leave
<1>2. PICK x \in Commands : x = Release(ch[s], s) BY ReleaseType DEF TypeOK
<1>3. x.op = "release" BY <1>2, ReleaseType DEF TypeOK
<1>4. TypeOK' BY Zenon, <1>1, <1>2, SendQueue DEF TypeOK, Forget
<1>5. SocketInv' BY <1>1 DEF TypeOK, SocketInv, Forget
<1>6. CommandInv' BY Zenon, <1>1, <1>2, <1>3, ReleaseQueued DEF TypeOK, Forget
<1>7. HoldInv' BY Zenon, <1>1 DEF HoldInv, TypeOK, Forget
<1>8. StoreInv' /\ RoomsSubscribed' BY Zenon, <1>1 DEF StoreInv, RoomsSubscribed
<1>9. NoSilentGap' BY <1>1 DEF NoSilentGap, TypeOK, Forget
<1>10. QED BY Zenon, <1>4, <1>5, <1>6, <1>7, <1>8, <1>9

(* The queue with a Subscribe added by a socket that had none in it.       *)
LEMMA SubscribeQueued ==
    ASSUME RoomsInv, NEW s \in Socket, NEW c \in Channel, Send(Subscribe(c, s)),
           UNCHANGED <<reply, ch>>, reply[s] = "none", ch[s] = c,
           NEW at \in {"joining", "awaiting"}, pc' = [pc EXCEPT ![s] = at],
           pc[s] \notin {"joining", "awaiting"}
    PROVE  CommandInv' /\ commands' \in Seq(Commands)
<1> USE DEF RoomsInv
<1>1. PICK x \in Commands : x = Subscribe(c, s) BY Zenon DEF Subscribe, Commands
<1>2. x.op = "subscribe" /\ x.ch = c /\ x.by = s BY Zenon, <1>1 DEF Subscribe
<1>3. \A i \in 1..Len(commands) : commands[i].by \in Socket BY Zenon, SenderType
<1>4. \A i \in 1..Len(commands) :
        commands[i].op = "subscribe" => commands[i].by \in Socket \ {s}
    BY Zenon, <1>3 DEF CommandInv
<1>5. /\ Len(commands') = Len(commands) + 1 /\ Len(commands) \in Nat
      /\ commands'[Len(commands) + 1] = x /\ commands' \in Seq(Commands)
      /\ \A i \in 1..Len(commands) : commands'[i] = commands[i]
    BY Zenon, <1>1, SendQueue
<1>6. pc'[s] = at /\ \A o \in Socket \ {s} : pc'[o] = pc[o] BY Zenon DEF TypeOK
<1>7. \A i \in 1..Len(commands') : commands'[i].op = "subscribe" =>
        /\ pc'[commands'[i].by] \in {"joining", "awaiting"}
        /\ reply'[commands'[i].by] = "none"
        /\ commands'[i].ch = ch'[commands'[i].by]
    BY <1>2, <1>4, <1>5, <1>6 DEF CommandInv
<1>8. \A i, j \in 1..Len(commands') :
        /\ commands'[i].op = "subscribe" /\ commands'[j].op = "subscribe"
        /\ commands'[i].by = commands'[j].by
        => i = j
    BY <1>2, <1>4, <1>5 DEF CommandInv
<1>9. QED BY Zenon, <1>5, <1>7, <1>8 DEF CommandInv

(* Connecting, and subscribing to the channel switched to.                 *)
LEMMA SubscribingInv ==
    ASSUME RoomsInv, NEW s \in Socket, Connect(s) \/ SwitchSubscribe(s)
    PROVE  RoomsInv'
<1> USE ChannelAssumption DEF RoomsInv, roomVars, eventVars, viewVars
<1>1. /\ pc[s] \in {"closed", "switching"} /\ reply[s] = "none" /\ ch[s] \in Channel
      /\ rx[s] = NoRoom
      /\ pc' = [pc EXCEPT ![s] = IF pc[s] = "closed" THEN "joining" ELSE "awaiting"]
      /\ Send(Subscribe(ch[s], s))
      /\ UNCHANGED <<roomVars, ch, rx, reply, eventVars, signalled, lagged, strayed>>
      /\ seen' \in {seen, [seen EXCEPT ![s] = {}]}
  <2>1. CASE Connect(s) BY Zenon, <2>1 DEF Connect, TypeOK, SocketInv
  <2>2. CASE SwitchSubscribe(s)
      BY Zenon, <2>2 DEF SwitchSubscribe, TypeOK, SocketInv
  <2>3. QED BY Zenon, <2>1, <2>2
<1>2. CommandInv' /\ commands' \in Seq(Commands) BY Zenon, <1>1, SubscribeQueued
<1>3. TypeOK' BY Zenon, <1>1, <1>2 DEF TypeOK
<1>4. SocketInv' BY Zenon, <1>1 DEF TypeOK, SocketInv
<1>5. HoldInv' /\ StoreInv' /\ RoomsSubscribed'
    BY Zenon, <1>1 DEF HoldInv, StoreInv, RoomsSubscribed
<1>6. NoSilentGap' BY Zenon, <1>1 DEF NoSilentGap, TypeOK
<1>7. QED BY Zenon, <1>2, <1>3, <1>4, <1>5, <1>6

(* A Subscribe is answered.                                                *)
LEMMA HandleSubscribeInv ==
    ASSUME RoomsInv, HandleSubscribe
    PROVE  RoomsInv'
<1> USE ChannelAssumption DEF RoomsInv, eventVars, viewVars
<1> DEFINE c == Head(commands).ch
           s == Head(commands).by
           granted == clients[c] > 0 \/ conn = "up"
<1>1. /\ manager = "serving" /\ commands # <<>> /\ Head(commands).op = "subscribe"
      /\ reply' = [reply EXCEPT ![s] = IF granted THEN "ok" ELSE "err"]
      /\ rx' = IF granted THEN [rx EXCEPT ![s] = c] ELSE rx
      /\ clients' = IF granted THEN [clients EXCEPT ![c] = @ + 1] ELSE clients
      /\ upstream' = IF granted THEN upstream \union {c} ELSE upstream
      /\ commands' = Tail(commands)
      /\ UNCHANGED <<conn, manager, pc, ch, eventVars, viewVars, strayed>>
    BY Zenon DEF HandleSubscribe
<1>2. /\ commands' \in Seq(Commands) /\ Head(commands) \in Commands
      /\ Head(commands) = commands[1]
      /\ Len(commands) \in Nat \ {0} /\ Len(commands') = Len(commands) - 1
      /\ \A i \in 1..Len(commands') : /\ i + 1 \in 1..Len(commands)
                                      /\ commands'[i] = commands[i + 1]
    BY Zenon, <1>1, TailQueue
<1>3. c \in Channel /\ s \in Socket BY Zenon, <1>2 DEF Commands
<1>4. /\ pc[s] \in {"joining", "awaiting"} /\ reply[s] = "none" /\ c = ch[s]
      /\ rx[s] = NoRoom
  <2>1. 1 \in 1..Len(commands) BY <1>2
  <2>2. pc[s] \in {"joining", "awaiting"} /\ reply[s] = "none" /\ c = ch[s]
      BY Zenon, <1>1, <1>2, <2>1 DEF CommandInv
  <2>3. QED BY Zenon, <1>3, <2>2 DEF SocketInv
<1>5. \A i \in 1..Len(commands') :
        commands'[i].op = "subscribe" => commands'[i].by \in Socket \ {s}
  <2>1. \A i \in 1..Len(commands) : commands[i].by \in Socket BY Zenon, SenderType
  <2>2. QED BY <1>1, <1>2, <2>1 DEF CommandInv
<1> HIDE DEF c, s, granted
<1>6. /\ clients' \in [Channel -> Nat]
      /\ \A d \in Channel : clients'[d] >= clients[d]
      /\ granted => clients'[c] > 0
      /\ ~granted => clients' = clients /\ rx' = rx /\ upstream' = upstream
    BY <1>1, <1>3 DEF TypeOK
<1>7. TypeOK' BY Zenon, <1>1, <1>2, <1>3, <1>6 DEF TypeOK
<1>8. SocketInv' BY <1>1, <1>3, <1>4 DEF TypeOK, SocketInv
<1>9. CommandInv'
  <2>1. \A o \in Socket \ {s} : reply'[o] = reply[o] BY Zenon, <1>1 DEF TypeOK
  <2>2. \A i \in 1..Len(commands') : commands'[i].op = "subscribe" =>
            /\ pc'[commands'[i].by] \in {"joining", "awaiting"}
            /\ reply'[commands'[i].by] = "none"
            /\ commands'[i].ch = ch'[commands'[i].by]
      BY SMTT(30), <1>1, <1>2, <1>5, <2>1 DEF CommandInv
  <2>3. \A i, j \in 1..Len(commands') :
            /\ commands'[i].op = "subscribe" /\ commands'[j].op = "subscribe"
            /\ commands'[i].by = commands'[j].by
            => i = j
    <3> SUFFICES ASSUME NEW i \in 1..Len(commands'), NEW j \in 1..Len(commands'),
                        commands'[i].op = "subscribe",
                        commands'[j].op = "subscribe",
                        commands'[i].by = commands'[j].by
                 PROVE  i = j
        BY Zenon
    <3>1. i + 1 = j + 1 BY ZenonT(30), <1>2 DEF CommandInv
    <3>2. QED BY <3>1, <1>2
  <2>4. QED BY Zenon, <2>2, <2>3 DEF CommandInv
<1>10. HoldInv'
  <2>1. \A o \in Socket : rx'[o] \in Channel => clients'[rx'[o]] > 0
    <3> SUFFICES ASSUME NEW o \in Socket, rx'[o] \in Channel
                 PROVE  clients'[rx'[o]] > 0
        BY Zenon
    <3>1. CASE o = s /\ granted BY Zenon, <1>1, <1>3, <1>6, <3>1 DEF TypeOK
    <3>2. CASE o # s \/ ~granted
      <4>1. rx'[o] = rx[o] BY Zenon, <1>1, <3>2 DEF TypeOK
      <4>2. clients[rx[o]] > 0 BY Zenon, <4>1 DEF HoldInv
      <4>3. QED BY <1>6, <4>1, <4>2 DEF TypeOK
    <3>3. QED BY Zenon, <3>1, <3>2
  <2>2. QED BY Zenon, <1>1, <2>1 DEF HoldInv
<1>11. StoreInv' BY Zenon, <1>1 DEF StoreInv
<1>12. RoomsSubscribed'
  <2> SUFFICES ASSUME conn = "up", NEW d \in Channel
               PROVE  clients'[d] > 0 <=> d \in upstream'
      BY Zenon, <1>1 DEF RoomsSubscribed
  <2>1. granted BY Zenon DEF granted
  <2>2. CASE d = c BY Zenon, <1>1, <1>3, <1>6, <2>1, <2>2
  <2>3. CASE d # c BY Zenon, <1>1, <1>3, <2>1, <2>3 DEF RoomsSubscribed, TypeOK
  <2>4. QED BY Zenon, <2>2, <2>3
<1>13. NoSilentGap'
  <2>1. \A o \in Socket : pc[o] = "open" => rx'[o] = rx[o]
      BY Zenon, <1>1, <1>4 DEF TypeOK
  <2>2. QED BY <1>1, <2>1 DEF NoSilentGap
<1>14. QED BY Zenon, <1>7, <1>8, <1>9, <1>10, <1>11, <1>12, <1>13

(* A Release is handled; the last one closes what receivers are left.      *)
LEMMA HandleReleaseInv ==
    ASSUME RoomsInv, HandleRelease
    PROVE  RoomsInv'
<1> USE ChannelAssumption DEF RoomsInv, eventVars, viewVars
<1> DEFINE c == Head(commands).ch
           left == IF clients[c] > 0 THEN clients[c] - 1 ELSE 0
<1>1. /\ manager = "serving" /\ commands # <<>>
      /\ clients' = [clients EXCEPT ![c] = left]
      /\ upstream' = IF left = 0 THEN upstream \ {c} ELSE upstream
      /\ rx' = [s \in Socket |-> IF left = 0 /\ rx[s] = c THEN Closed ELSE rx[s]]
      /\ strayed' \subseteq strayed \union {c}
      /\ commands' = Tail(commands)
      /\ UNCHANGED <<conn, manager, pc, ch, reply, eventVars, viewVars>>
    BY Zenon DEF HandleRelease
<1>2. /\ commands' \in Seq(Commands) /\ Head(commands) \in Commands
      /\ Len(commands) \in Nat \ {0} /\ Len(commands') = Len(commands) - 1
      /\ \A i \in 1..Len(commands') : /\ i + 1 \in 1..Len(commands)
                                      /\ commands'[i] = commands[i + 1]
    BY Zenon, <1>1, TailQueue
<1>3. c \in Channel BY Zenon, <1>2 DEF Commands
<1>4. left \in Nat /\ clients[c] \in Nat /\ (clients[c] > 0 => left = clients[c] - 1)
      /\ (clients[c] = 0 => left = 0)
    BY <1>3 DEF TypeOK
<1> HIDE DEF c, left
<1>5. TypeOK' BY Zenon, <1>1, <1>2, <1>3, <1>4 DEF TypeOK
<1>6. SocketInv' BY Zenon, <1>1, <1>3 DEF TypeOK, SocketInv
<1>7. CommandInv'
  <2>1. \A i \in 1..Len(commands') : commands'[i].op = "subscribe" =>
            /\ pc'[commands'[i].by] \in {"joining", "awaiting"}
            /\ reply'[commands'[i].by] = "none"
            /\ commands'[i].ch = ch'[commands'[i].by]
      BY <1>1, <1>2 DEF CommandInv
  <2>2. \A i, j \in 1..Len(commands') :
            /\ commands'[i].op = "subscribe" /\ commands'[j].op = "subscribe"
            /\ commands'[i].by = commands'[j].by
            => i = j
    <3> SUFFICES ASSUME NEW i \in 1..Len(commands'), NEW j \in 1..Len(commands'),
                        commands'[i].op = "subscribe",
                        commands'[j].op = "subscribe",
                        commands'[i].by = commands'[j].by
                 PROVE  i = j
        BY Zenon
    <3>1. i + 1 = j + 1 BY SMTT(30), <1>2 DEF CommandInv
    <3>2. QED BY <3>1, <1>2
  <2>3. QED BY Zenon, <2>1, <2>2 DEF CommandInv
<1>8. HoldInv'
  <2>1. \A s \in Socket : rx'[s] \in Channel =>
            rx'[s] = rx[s] /\ (rx[s] = c => left > 0)
      BY <1>1, <1>4
  <2>2. \A s \in Socket : rx'[s] \in Channel => clients'[rx'[s]] > 0
      BY Zenon, <1>1, <1>3, <2>1 DEF HoldInv, TypeOK
  <2>3. QED BY Zenon, <1>1, <2>2 DEF HoldInv
<1>9. StoreInv' BY Zenon, <1>1 DEF StoreInv
<1>10. RoomsSubscribed'
  <2> SUFFICES ASSUME conn = "up", NEW d \in Channel
               PROVE  clients'[d] > 0 <=> d \in upstream'
      BY Zenon, <1>1 DEF RoomsSubscribed
  <2>1. clients[d] > 0 <=> d \in upstream BY Zenon, <1>1 DEF RoomsSubscribed
  <2>2. CASE d = c BY <1>1, <1>3, <1>4, <2>1, <2>2 DEF TypeOK
  <2>3. CASE d # c BY Zenon, <1>1, <1>3, <2>1, <2>3 DEF TypeOK
  <2>4. QED BY Zenon, <2>2, <2>3
<1>11. NoSilentGap' BY Zenon, <1>1 DEF NoSilentGap, TypeOK
<1>12. QED BY Zenon, <1>5, <1>6, <1>7, <1>8, <1>9, <1>10, <1>11

(* An event is routed to the holders of its room.                          *)
LEMMA RouteInv ==
    ASSUME RoomsInv, Route
    PROVE  RoomsInv'
<1> USE ChannelAssumption DEF RoomsInv, roomVars, socketVars
<1> DEFINE e == Head(stream)
           holders == {s \in Socket : rx[s] = chanOf[e]}
<1>1. /\ manager = "serving" /\ stream # <<>> /\ stream' = Tail(stream)
      /\ UNCHANGED <<roomVars, commands, socketVars, stored, chanOf, published,
                     signalled, strayed>>
    BY Zenon DEF Route
<1>2. PICK slow \in SUBSET holders :
        /\ lagged' = lagged \union slow
        /\ seen' = [s \in Socket |-> IF e \in Msg /\ s \in holders \ slow
                                     THEN seen[s] \union {e} ELSE seen[s]]
    BY Zenon DEF Route
<1>3. /\ e \in Event /\ stream' \in Seq(Event) /\ e = stream[1]
      /\ Len(stream) \in Nat \ {0} /\ Len(stream') = Len(stream) - 1
      /\ \A i \in 1..Len(stream') : stream'[i] = stream[i + 1]
    BY <1>1 DEF TypeOK
<1> HIDE DEF e
<1>4. TypeOK' BY <1>1, <1>2, <1>3 DEF TypeOK
<1>5. SocketInv' /\ CommandInv' /\ HoldInv' /\ StoreInv' /\ RoomsSubscribed'
    BY Zenon, <1>1 DEF SocketInv, CommandInv, HoldInv, StoreInv, RoomsSubscribed
<1>6. NoSilentGap'
  <2> SUFFICES ASSUME NEW s \in Socket, pc[s] = "open", rx[s] = ch[s],
                      NEW m \in Msg \cap published, chanOf[m] = ch[s]
               PROVE  \/ m \in seen'[s]
                      \/ \E i \in 1..Len(stream') : stream'[i] = m
                      \/ s \in signalled \union lagged'
                      \/ conn = "dead" /\ manager = "serving"
      BY Zenon, <1>1 DEF NoSilentGap
  <2>1. CASE m \in seen[s] BY Zenon, <1>2, <2>1
  <2>2. ASSUME NEW i \in 1..Len(stream), stream[i] = m
        PROVE  \/ m \in seen'[s] \/ s \in lagged'
               \/ \E j \in 1..Len(stream') : stream'[j] = m
    <3>1. CASE i = 1
      <4>1. m = e /\ s \in holders BY Zenon, <1>3, <2>2, <3>1
      <4>2. QED BY Zenon, <1>2, <4>1
    <3>2. CASE i # 1
      <4>1. i - 1 \in 1..Len(stream') /\ stream'[i - 1] = m
          BY SMTT(30), <1>3, <2>2, <3>2
      <4>2. QED BY Zenon, <4>1
    <3>3. QED BY Zenon, <3>1, <3>2
  <2>3. CASE s \in signalled \union lagged BY Zenon, <1>2, <2>3
  <2>4. QED BY Zenon, <2>1, <2>2, <2>3 DEF NoSilentGap
<1>7. QED BY Zenon, <1>4, <1>5, <1>6

(* The connection dies, its loss is noticed, and a new one is made.        *)
LEMMA ConnectionInv ==
    ASSUME RoomsInv, NoticeLoss \/ Reconnect \/ ConnectionDies
    PROVE  RoomsInv'
<1> USE ChannelAssumption DEF RoomsInv, roomVars, socketVars, eventVars, viewVars
<1>1. CASE NoticeLoss
  <2>1. TypeOK' BY Zenon, <1>1 DEF NoticeLoss, TypeOK
  <2>2. SocketInv' /\ CommandInv' /\ StoreInv' /\ RoomsSubscribed'
      BY Zenon, <1>1
      DEF NoticeLoss, SocketInv, CommandInv, StoreInv, RoomsSubscribed
  <2>3. \A s \in Socket : rx[s] \in Channel => pc[s] # "closed"
      BY Zenon DEF SocketInv
  <2>4. HoldInv' BY Zenon, <1>1, <2>3 DEF NoticeLoss, HoldInv
  <2>5. NoSilentGap' BY Zenon, <1>1 DEF NoticeLoss, NoSilentGap
  <2>6. QED BY Zenon, <2>1, <2>2, <2>4, <2>5
<1>2. CASE Reconnect
  <2>1. TypeOK' BY Zenon, <1>2 DEF Reconnect, TypeOK
  <2>2. SocketInv' /\ CommandInv' /\ StoreInv' /\ HoldInv'
      BY Zenon, <1>2 DEF Reconnect, SocketInv, CommandInv, StoreInv, HoldInv
  <2>3. RoomsSubscribed' BY Zenon, <1>2 DEF Reconnect, RoomsSubscribed
  <2>4. \A s \in Socket : rx[s] = ch[s] => s \in signalled
      BY Zenon, <1>2 DEF Reconnect, HoldInv, TypeOK
  <2>5. NoSilentGap' BY Zenon, <1>2, <2>4 DEF Reconnect, NoSilentGap
  <2>6. QED BY Zenon, <2>1, <2>2, <2>3, <2>5
<1>3. CASE ConnectionDies
  <2>1. TypeOK' BY Zenon, <1>3 DEF ConnectionDies, TypeOK
  <2>2. SocketInv' /\ CommandInv' /\ StoreInv' /\ HoldInv' /\ RoomsSubscribed'
      BY Zenon, <1>3 DEF ConnectionDies, SocketInv, CommandInv, StoreInv, HoldInv,
         RoomsSubscribed
  <2>3. NoSilentGap' BY Zenon, <1>3 DEF ConnectionDies, NoSilentGap, HoldInv
  <2>4. QED BY Zenon, <2>1, <2>2, <2>3
<1>4. QED BY Zenon, <1>1, <1>2, <1>3

(* A message is stored, and events are published.                          *)
LEMMA EventInv ==
    ASSUME RoomsInv,
           \/ \E m \in Msg, c \in Channel : StoreMessage(m, c)
           \/ \E m \in Msg : PublishMessage(m)
           \/ \E e \in MembersEvent, c \in Channel : PublishMembers(e, c)
    PROVE  RoomsInv'
<1> USE ChannelAssumption, EventAssumption
    DEF RoomsInv, roomVars, socketVars, viewVars, Event
<1>0. /\ UNCHANGED <<roomVars, commands, socketVars, viewVars, strayed>>
      /\ SocketInv' /\ CommandInv' /\ HoldInv' /\ RoomsSubscribed'
  <2>1. UNCHANGED <<roomVars, commands, socketVars, viewVars, strayed>>
      BY Zenon DEF StoreMessage, PublishMessage, PublishMembers, Deliver
  <2>2. QED BY <2>1 DEF SocketInv, CommandInv, HoldInv, RoomsSubscribed
<1>1. ASSUME NEW m \in Msg, NEW c \in Channel, StoreMessage(m, c) PROVE RoomsInv'
  <2>1. TypeOK' BY <1>0, <1>1 DEF StoreMessage, TypeOK
  <2>2. StoreInv' BY Zenon, <1>1 DEF StoreMessage, StoreInv
  <2>3. NoSilentGap' BY <1>0, <1>1 DEF StoreMessage, NoSilentGap, StoreInv, TypeOK
  <2>4. QED BY Zenon, <1>0, <2>1, <2>2, <2>3
<1>2. ASSUME NEW e \in Event, NEW c \in Channel, Deliver(e, c)
      PROVE  /\ stream' \in Seq(Event) /\ published' = published \union {e}
             /\ \A i \in 1..Len(stream) : i \in 1..Len(stream') /\ stream'[i] = stream[i]
             /\ conn = "up" /\ c \in upstream =>
                    \E i \in 1..Len(stream') : stream'[i] = e
  <2>1. /\ published' = published \union {e} /\ stream \in Seq(Event)
        /\ Len(stream) \in Nat
        /\ stream' = IF conn = "up" /\ c \in upstream THEN Append(stream, e) ELSE stream
      BY <1>2 DEF Deliver, TypeOK
  <2>2. CASE conn = "up" /\ c \in upstream
    <3>1. stream' = Append(stream, e) BY Zenon, <2>1, <2>2
    <3>2. /\ stream' \in Seq(Event) /\ Len(stream') = Len(stream) + 1
          /\ stream'[Len(stream) + 1] = e
          /\ \A i \in 1..Len(stream) : stream'[i] = stream[i]
        BY <2>1, <3>1
    <3>3. Len(stream) + 1 \in 1..Len(stream') BY <2>1, <3>2
    <3>4. QED BY <2>1, <3>2, <3>3
  <2>3. CASE ~(conn = "up" /\ c \in upstream) BY Zenon, <2>1, <2>3
  <2>4. QED BY Zenon, <2>2, <2>3
<1>3. ASSUME NEW m \in Msg, PublishMessage(m) PROVE RoomsInv'
  <2>1. /\ m \in stored /\ chanOf' = chanOf /\ stored' = stored
        /\ chanOf[m] \in Channel /\ Deliver(m, chanOf[m])
      BY Zenon, <1>3 DEF PublishMessage, Deliver, TypeOK
  <2>2. TypeOK' BY SMTT(30), <1>0, <1>2, <2>1 DEF TypeOK
  <2>3. StoreInv' BY <1>2, <2>1 DEF StoreInv
  <2>4. NoSilentGap'
    <3> SUFFICES ASSUME NEW s \in Socket, pc[s] = "open", rx[s] = ch[s],
                        NEW n \in Msg \cap published', chanOf[n] = ch[s]
                 PROVE  \/ n \in seen[s]
                        \/ \E i \in 1..Len(stream') : stream'[i] = n
                        \/ s \in signalled \union lagged
                        \/ conn = "dead" /\ manager = "serving"
        BY Zenon, <1>0, <2>1 DEF NoSilentGap
    <3>1. CASE n \in published BY Zenon, <1>2, <2>1, <3>1 DEF NoSilentGap
    <3>2. CASE n = m
      <4>1. clients[ch[s]] > 0 /\ (manager = "retrying" => s \in signalled)
          BY Zenon DEF HoldInv, TypeOK
      <4>2. CASE conn = "up" /\ manager = "serving"
          BY Zenon, <1>2, <2>1, <3>2, <4>1, <4>2 DEF RoomsSubscribed
      <4>3. QED BY Zenon, <4>1, <4>2 DEF TypeOK
    <3>3. QED BY SMTT(30), <1>2, <2>1, <3>1, <3>2
  <2>5. QED BY Zenon, <1>0, <2>2, <2>3, <2>4
<1>4. ASSUME NEW e \in MembersEvent, NEW c \in Channel, PublishMembers(e, c)
      PROVE  RoomsInv'
  <2>1. /\ chanOf' = [chanOf EXCEPT ![e] = c] /\ stored' = stored /\ e \notin Msg
        /\ Deliver(e, c)
      BY Zenon, <1>4 DEF PublishMembers, Deliver
  <2>2. TypeOK' BY <1>0, <1>2, <2>1 DEF TypeOK
  <2>3. StoreInv' BY <1>2, <2>1 DEF StoreInv
  <2>4. \A n \in Msg : chanOf'[n] = chanOf[n] BY Zenon, <2>1 DEF TypeOK
  <2>5. NoSilentGap' BY <1>0, <1>2, <2>1, <2>4 DEF NoSilentGap
  <2>6. QED BY Zenon, <1>0, <2>2, <2>3, <2>5
<1>5. QED BY Zenon, <1>1, <1>3, <1>4
-----------------------------------------------------------------------------
(***************************************************************************)
(* Counting the clients.                                                   *)
(***************************************************************************)
Counts(x, c) == x.op = "release" /\ x.ch = c /\ x.held

(* The releases in the queue are finitely many.                            *)
LEMMA QueuedFinite ==
    ASSUME TypeOK, NEW c
    PROVE  /\ IsFiniteSet(ReleasesQueued(c)) /\ Cardinality(ReleasesQueued(c)) \in Nat
           /\ ReleasesQueued(c) = {i \in 1..Len(commands) : Counts(commands[i], c)}
<1>1. Len(commands) \in Nat BY DEF TypeOK
<1>2. ReleasesQueued(c) \subseteq 1..Len(commands) BY Zenon DEF ReleasesQueued
<1>3. IsFiniteSet(1..Len(commands)) BY <1>1, FS_Interval
<1>4. IsFiniteSet(ReleasesQueued(c)) BY Zenon, <1>2, <1>3, FS_Subset
<1>5. QED BY Zenon, <1>4, FS_CardinalityType DEF ReleasesQueued, Counts

LEMMA QueuedFiniteNext ==
    ASSUME TypeOK', NEW c
    PROVE  Cardinality(ReleasesQueued(c)') \in Nat
<1>1. Len(commands') \in Nat BY DEF TypeOK
<1>2. ReleasesQueued(c)' \subseteq 1..Len(commands') BY Zenon DEF ReleasesQueued
<1>3. IsFiniteSet(1..Len(commands')) BY <1>1, FS_Interval
<1>4. IsFiniteSet(ReleasesQueued(c)') BY Zenon, <1>2, <1>3, FS_Subset
<1>5. QED BY Zenon, <1>4, FS_CardinalityType

(* Sending a command adds one when it is the release of a holder.          *)
LEMMA QueuedSend ==
    ASSUME TypeOK, TypeOK', NEW x \in Commands, Send(x), NEW c
    PROVE  Cardinality(ReleasesQueued(c)') =
            Cardinality(ReleasesQueued(c)) + (IF Counts(x, c) THEN 1 ELSE 0)
<1>1. /\ Len(commands') = Len(commands) + 1 /\ Len(commands) \in Nat
      /\ commands'[Len(commands) + 1] = x
      /\ \A i \in 1..Len(commands) : commands'[i] = commands[i]
    BY Zenon, SendQueue
<1>2. ReleasesQueued(c)' = {i \in 1..Len(commands') : Counts(commands'[i], c)}
    BY Zenon DEF ReleasesQueued, Counts
<1>3. /\ IsFiniteSet(ReleasesQueued(c)) /\ Cardinality(ReleasesQueued(c)) \in Nat
      /\ ReleasesQueued(c) = {i \in 1..Len(commands) : Counts(commands[i], c)}
    BY Zenon, QueuedFinite
<1>4. CASE Counts(x, c)
  <2>1. ReleasesQueued(c)' = ReleasesQueued(c) \union {Len(commands) + 1}
      BY <1>1, <1>2, <1>3, <1>4
  <2>2. Len(commands) + 1 \notin ReleasesQueued(c) BY SMTT(30), <1>1, <1>3
  <2>3. QED BY Zenon, <1>3, <1>4, <2>1, <2>2, FS_AddElement
<1>5. CASE ~Counts(x, c)
  <2>1. ReleasesQueued(c)' = ReleasesQueued(c) BY <1>1, <1>2, <1>3, <1>5
  <2>2. QED BY <1>3, <1>5, <2>1
<1>6. QED BY Zenon, <1>4, <1>5

(* Handling a command takes that one away.                                 *)
LEMMA QueuedTail ==
    ASSUME TypeOK, TypeOK', commands # <<>>, commands' = Tail(commands), NEW c
    PROVE  Cardinality(ReleasesQueued(c)) =
            Cardinality(ReleasesQueued(c)')
                + (IF Counts(Head(commands), c) THEN 1 ELSE 0)
<1>1. /\ Head(commands) = commands[1]
      /\ Len(commands) \in Nat \ {0} /\ Len(commands') = Len(commands) - 1
      /\ \A i \in 1..Len(commands') : /\ i + 1 \in 1..Len(commands)
                                      /\ commands'[i] = commands[i + 1]
    BY Zenon, TailQueue
<1>2. ReleasesQueued(c)' = {i \in 1..Len(commands') : Counts(commands'[i], c)}
    BY Zenon DEF ReleasesQueued, Counts
<1>3. /\ IsFiniteSet(ReleasesQueued(c)) /\ Cardinality(ReleasesQueued(c)) \in Nat
      /\ ReleasesQueued(c) = {i \in 1..Len(commands) : Counts(commands[i], c)}
    BY Zenon, QueuedFinite
<1> DEFINE rest == ReleasesQueued(c) \ {1}
           back == [i \in rest |-> i - 1]
<1>4. ExistsBijection(rest, ReleasesQueued(c)')
  <2>1. back \in [rest -> ReleasesQueued(c)'] BY <1>1, <1>2, <1>3
  <2>2. \A i, j \in rest : back[i] = back[j] => i = j BY <1>3
  <2>3. \A k \in ReleasesQueued(c)' : \E i \in rest : back[i] = k
    <3> SUFFICES ASSUME NEW k \in ReleasesQueued(c)'
                 PROVE  \E i \in rest : back[i] = k
        BY Zenon
    <3>1. k + 1 \in rest /\ back[k + 1] = k BY <1>1, <1>2, <1>3
    <3>2. QED BY Zenon, <3>1
  <2> HIDE DEF back, rest
  <2>4. back \in Bijection(rest, ReleasesQueued(c)')
      BY Zenon, <2>1, <2>2, <2>3 DEF Bijection, Injection, Surjection, IsInjective
  <2>5. QED BY Zenon, <2>4 DEF ExistsBijection
<1>5. IsFiniteSet(rest) BY Zenon, <1>3, FS_RemoveElement
<1>6. Cardinality(ReleasesQueued(c)') = Cardinality(rest)
    BY Zenon, <1>4, <1>5, FS_Bijection
<1>7. Cardinality(rest) = IF 1 \in ReleasesQueued(c)
                          THEN Cardinality(ReleasesQueued(c)) - 1
                          ELSE Cardinality(ReleasesQueued(c))
    BY Zenon, <1>3, FS_RemoveElement
<1>8. 1 \in ReleasesQueued(c) <=> Counts(Head(commands), c) BY <1>1, <1>3
<1>9. QED BY <1>3, <1>6, <1>7, <1>8

(* A step that leaves the rooms, the receivers and the releases alone.     *)
LEMMA CountKept ==
    ASSUME CountInv, UNCHANGED <<clients, strayed>>,
           \A c \in Channel : /\ Held(c)' = Held(c)
                              /\ Cardinality(ReleasesQueued(c)') =
                                    Cardinality(ReleasesQueued(c))
    PROVE  CountInv'
<1>1. \A c \in Channel : IsFiniteSet(Held(c)') BY Zenon DEF CountInv
<1>2. CountsHolders' BY Zenon DEF CountInv, CountsHolders
<1>3. QED BY Zenon, <1>1, <1>2 DEF CountInv

(* A release is queued and the receiver dropped: what one side of the sum  *)
(* loses the other gains.                                                  *)
LEMMA CountReleased ==
    ASSUME RoomsInv, TypeOK', CountInv, NEW s \in Socket, Send(Release(ch[s], s)),
           rx' = [rx EXCEPT ![s] = NoRoom], UNCHANGED <<clients, strayed>>
    PROVE  CountInv'
<1> USE ChannelAssumption DEF RoomsInv
<1>1. PICK x \in Commands : x = Release(ch[s], s) BY ReleaseType DEF TypeOK
<1>2. \A c \in Channel : Counts(x, c) <=> c = ch[s] /\ rx[s] = c
  <2>1. x.op = "release" /\ x.ch = ch[s] /\ x.held = (rx[s] = ch[s])
      BY <1>1, ReleaseType DEF TypeOK
  <2>2. QED BY <2>1, Zenon DEF Counts
<1>3. \A c \in Channel : c # rx[s] => Held(c)' = Held(c) BY DEF Held, TypeOK
<1>4. \A c \in Channel : c = rx[s] => Held(c)' = Held(c) \ {s} /\ s \in Held(c)
    BY Zenon DEF Held, TypeOK
<1>5. \A c \in Channel : Counts(x, c) <=> c = rx[s]
    BY Zenon, <1>2 DEF SocketInv
<1>6. \A c \in Channel :
        /\ Cardinality(ReleasesQueued(c)) \in Nat
        /\ Cardinality(ReleasesQueued(c)') =
            Cardinality(ReleasesQueued(c)) + (IF Counts(x, c) THEN 1 ELSE 0)
    BY Zenon, <1>1, QueuedSend, QueuedFinite
<1>7. \A c \in Channel : IsFiniteSet(Held(c)) /\ Cardinality(Held(c)) \in Nat
    BY Zenon, FS_CardinalityType DEF CountInv
<1>8. \A c \in Channel :
        /\ IsFiniteSet(Held(c)')
        /\ Cardinality(Held(c)') =
            Cardinality(Held(c)) - (IF c = rx[s] THEN 1 ELSE 0)
    BY <1>3, <1>4, <1>7, FS_RemoveElement
<1>9. \A c \in Channel :
        Cardinality(Held(c)') + Cardinality(ReleasesQueued(c)') =
            Cardinality(Held(c)) + Cardinality(ReleasesQueued(c))
    BY <1>5, <1>6, <1>7, <1>8
<1>10. CountsHolders' BY Zenon, <1>9 DEF CountInv, CountsHolders
<1>11. QED BY Zenon, <1>8, <1>10 DEF CountInv

(* A Subscribe is granted: one more client and one more holder.            *)
LEMMA CountSubscribed ==
    ASSUME RoomsInv, TypeOK', CountInv, HandleSubscribe
    PROVE  CountInv'
<1> USE ChannelAssumption DEF RoomsInv
<1>0. PICK c \in Channel, s \in Socket :
        c = Head(commands).ch /\ s = Head(commands).by
    BY Zenon, TailQueue DEF HandleSubscribe, Commands
<1> DEFINE granted == clients[c] > 0 \/ conn = "up"
<1>1. /\ commands # <<>> /\ Head(commands).op = "subscribe"
      /\ rx' = IF granted THEN [rx EXCEPT ![s] = c] ELSE rx
      /\ clients' = IF granted THEN [clients EXCEPT ![c] = @ + 1] ELSE clients
      /\ commands' = Tail(commands) /\ strayed' = strayed
    BY Zenon, <1>0 DEF HandleSubscribe
<1>2. Head(commands) = commands[1] /\ 1 \in 1..Len(commands) BY <1>1, TailQueue
<1>3. rx[s] = NoRoom BY Zenon, <1>0, <1>1, <1>2 DEF CommandInv, SocketInv
<1>4. ASSUME NEW d \in Channel
      PROVE  /\ Cardinality(ReleasesQueued(d)) \in Nat
             /\ Cardinality(ReleasesQueued(d)') = Cardinality(ReleasesQueued(d))
  <2>1. ~Counts(Head(commands), d) BY Zenon, <1>1 DEF Counts
  <2>2. /\ Cardinality(ReleasesQueued(d)) \in Nat
        /\ Cardinality(ReleasesQueued(d)') \in Nat
      BY Zenon, QueuedFinite, QueuedFiniteNext
  <2>3. QED BY <1>1, <2>1, <2>2, QueuedTail
<1> HIDE DEF granted
<1>5. CASE ~granted
  <2>1. clients' = clients /\ rx' = rx BY Zenon, <1>1, <1>5
  <2>2. \A d \in Channel : Held(d)' = Held(d) BY Zenon, <2>1 DEF Held
  <2>3. QED BY Zenon, <1>1, <1>4, <2>1, <2>2, CountKept
<1>6. CASE granted
  <2>1. rx' = [rx EXCEPT ![s] = c] /\ clients' = [clients EXCEPT ![c] = @ + 1]
      BY Zenon, <1>1, <1>6
  <2>2. /\ Held(c)' = Held(c) \union {s} /\ s \notin Held(c)
        /\ \A d \in Channel : d # c => Held(d)' = Held(d)
      BY <1>3, <2>1 DEF Held, TypeOK
  <2>3. \A d \in Channel : IsFiniteSet(Held(d)) /\ Cardinality(Held(d)) \in Nat
      BY Zenon, FS_CardinalityType DEF CountInv
  <2>4. /\ IsFiniteSet(Held(c)')
        /\ Cardinality(Held(c)') = Cardinality(Held(c)) + 1
      BY <2>2, <2>3, FS_AddElement
  <2>5. \A d \in Channel : IsFiniteSet(Held(d)') BY Zenon, <2>2, <2>3, <2>4
  <2>6. CountsHolders'
    <3> SUFFICES ASSUME NEW d \in Channel \ strayed
                 PROVE  clients'[d] = Cardinality(Held(d)')
                                        + Cardinality(ReleasesQueued(d)')
        BY Zenon, <1>1 DEF CountsHolders
    <3>1. clients[d] = Cardinality(Held(d)) + Cardinality(ReleasesQueued(d))
        BY Zenon DEF CountInv, CountsHolders
    <3>2. CASE d = c BY SMTT(30), <1>4, <2>1, <2>3, <2>4, <3>1, <3>2 DEF TypeOK
    <3>3. CASE d # c BY SMTT(30), <1>4, <2>1, <2>2, <3>1, <3>3 DEF TypeOK
    <3>4. QED BY Zenon, <3>2, <3>3
  <2>7. QED BY Zenon, <2>5, <2>6 DEF CountInv
<1>7. QED BY Zenon, <1>5, <1>6

(* A Release is handled: one client less and one release less, or a stray. *)
LEMMA CountHandled ==
    ASSUME RoomsInv, TypeOK', CountInv, HandleRelease
    PROVE  CountInv'
<1> USE ChannelAssumption DEF RoomsInv
<1>0. PICK x \in Commands, c \in Channel : x = Head(commands) /\ c = x.ch
  <2>1. Head(commands) \in Commands BY Zenon, TailQueue DEF HandleRelease
  <2>2. Head(commands).ch \in Channel BY Zenon, <2>1 DEF Commands
  <2>3. QED BY Zenon, <2>1, <2>2
<1>1. PICK left \in Nat : left = IF clients[c] > 0 THEN clients[c] - 1 ELSE 0
    BY SMTT(30) DEF TypeOK
<1>2. /\ commands # <<>> /\ x.op = "release"
      /\ clients' = [clients EXCEPT ![c] = left]
      /\ rx' = [s \in Socket |-> IF left = 0 /\ rx[s] = c THEN Closed ELSE rx[s]]
      /\ strayed' = IF clients[c] > 0 /\ ~x.held THEN strayed \union {c} ELSE strayed
      /\ commands' = Tail(commands)
    BY Zenon, <1>0, <1>1 DEF HandleRelease
<1>3. \A d \in Channel :
        /\ Cardinality(ReleasesQueued(d)) \in Nat
        /\ Cardinality(ReleasesQueued(d)') \in Nat
        /\ Cardinality(ReleasesQueued(d)) =
            Cardinality(ReleasesQueued(d)') + (IF Counts(x, d) THEN 1 ELSE 0)
    BY Zenon, <1>0, <1>2, QueuedTail, QueuedFinite, QueuedFiniteNext
<1>4. \A d \in Channel : Counts(x, d) <=> d = c /\ x.held
    BY Zenon, <1>0, <1>2 DEF Counts
<1>5. \A d \in Channel : d # c => Held(d)' = Held(d) BY Zenon, <1>2 DEF Held
<1>6. /\ left = 0 => Held(c)' = {}
      /\ left # 0 => Held(c)' = Held(c)
    BY Zenon, <1>2 DEF Held
<1>7. \A d \in Channel : IsFiniteSet(Held(d)) /\ Cardinality(Held(d)) \in Nat
    BY Zenon, FS_CardinalityType DEF CountInv
<1>8. \A d \in Channel : IsFiniteSet(Held(d)') BY <1>5, <1>6, <1>7, FS_EmptySet
<1>9. CountsHolders'
  <2> SUFFICES ASSUME NEW d \in Channel \ strayed'
               PROVE  clients'[d] = Cardinality(Held(d)')
                                      + Cardinality(ReleasesQueued(d)')
      BY Zenon DEF CountsHolders
  <2>1. d \notin strayed /\ clients[d] \in Nat BY Zenon, <1>2 DEF TypeOK
  <2>2. clients[d] = Cardinality(Held(d)) + Cardinality(ReleasesQueued(d))
      BY <2>1 DEF CountInv, CountsHolders
  <2>3. CASE d # c BY SMTT(30), <1>2, <1>3, <1>4, <1>5, <2>2, <2>3 DEF TypeOK
  <2>4. CASE d = c
    <3>1. clients[c] > 0 => x.held BY Zenon, <1>2, <2>4
    <3>2. clients'[c] = left BY SMTT(30), <1>2 DEF TypeOK
    <3>3. CASE clients[c] > 0
      <4>1. Cardinality(ReleasesQueued(c)) = Cardinality(ReleasesQueued(c)') + 1
          BY Zenon, <1>3, <1>4, <3>1, <3>3
      <4>2. left = Cardinality(Held(c)) + Cardinality(ReleasesQueued(c)')
          BY <1>1, <1>3, <1>7, <2>1, <2>2, <2>4, <3>3, <4>1
      <4>3. CASE left = 0
        <5>1. Cardinality(ReleasesQueued(c)') = 0 BY <1>3, <1>7, <4>2, <4>3
        <5>2. Cardinality(Held(c)') = 0 BY Zenon, <1>6, <4>3, FS_EmptySet
        <5>3. QED BY <2>4, <3>2, <4>3, <5>1, <5>2
      <4>4. CASE left # 0 BY Zenon, <1>6, <2>4, <3>2, <4>2, <4>4
      <4>5. QED BY Zenon, <4>3, <4>4
    <3>4. CASE clients[c] = 0
      <4>1. Cardinality(ReleasesQueued(c)) = 0 BY <1>3, <1>7, <2>2, <2>4, <3>4
      <4>2. Cardinality(ReleasesQueued(c)') = 0 BY <1>3, <4>1
      <4>3. left = 0 BY <1>1, <3>4
      <4>4. Cardinality(Held(c)') = 0 BY Zenon, <1>6, <4>3, FS_EmptySet
      <4>5. QED BY <2>4, <3>2, <4>2, <4>3, <4>4
    <3>5. QED BY <2>1, <2>4, <3>3, <3>4
  <2>5. QED BY Zenon, <2>3, <2>4
<1>10. QED BY Zenon, <1>8, <1>9 DEF CountInv

(* Every step of a socket preserves the invariants.                        *)
LEMMA SocketStepInv ==
    ASSUME RoomsInv, CountInv, NEW s \in Socket,
           SocketStep(s) \/ \E c \in Channel : Switch(s, c)
    PROVE  RoomsInv' /\ CountInv'
<1>1. RoomsInv'
    BY Zenon, SubscribingInv, AnsweredInv, LeavingInv, LeaveInv, SwitchInv
    DEF SocketStep
<1>2. TypeOK /\ TypeOK' BY Zenon, <1>1 DEF RoomsInv
<1>3. CASE (\E c \in Channel : Switch(s, c)) \/ Leave(s)
  <2>1. /\ Send(Release(ch[s], s)) /\ rx' = [rx EXCEPT ![s] = NoRoom]
        /\ UNCHANGED <<clients, strayed>>
      BY Zenon, <1>3 DEF Switch, Leave, Forget, roomVars
  <2>2. QED BY Zenon, <1>1, <1>2, <2>1, CountReleased
<1>4. CASE Connect(s) \/ SwitchSubscribe(s)
  <2>1. PICK c \in Channel : Send(Subscribe(c, s))
      BY Zenon, <1>2, <1>4, ChannelAssumption DEF Connect, SwitchSubscribe, TypeOK
  <2>2. Subscribe(c, s) \in Commands /\ \A d : ~Counts(Subscribe(c, s), d)
      BY Zenon DEF Subscribe, Commands, Counts
  <2>3. \A d : /\ Cardinality(ReleasesQueued(d)) \in Nat
               /\ Cardinality(ReleasesQueued(d)') = Cardinality(ReleasesQueued(d))
      BY <1>2, <2>1, <2>2, QueuedSend, QueuedFinite
  <2>4. rx' = rx /\ UNCHANGED <<clients, strayed>>
      BY Zenon, <1>4 DEF Connect, SwitchSubscribe, roomVars
  <2>5. \A d : Held(d)' = Held(d) BY Zenon, <2>4 DEF Held
  <2>6. QED BY Zenon, <1>1, <2>3, <2>4, <2>5, CountKept
<1>5. CASE Joined(s) \/ JoinFails(s) \/ Refused(s) \/ Disconnect(s) \/ ReceiverClosed(s)
  <2>1. /\ UNCHANGED <<clients, strayed, commands>>
        /\ rx' = rx \/ (Refused(s) /\ rx' = [rx EXCEPT ![s] = NoRoom])
      BY Zenon, <1>5
      DEF Joined, JoinFails, Refused, Forget, Disconnect, ReceiverClosed,
         roomVars
  <2>2. rx' = rx
      BY <2>1 DEF Refused, RoomsInv, SocketInv, TypeOK
  <2>3. \A c : Held(c)' = Held(c) /\ ReleasesQueued(c)' = ReleasesQueued(c)
      BY Zenon, <2>1, <2>2 DEF Held, ReleasesQueued
  <2>4. QED BY Zenon, <1>1, <2>1, <2>3, CountKept
<1>6. QED BY Zenon, <1>3, <1>4, <1>5 DEF SocketStep

(* So does every step.                                                     *)
LEMMA RoomsStepInv == RoomsInv /\ CountInv /\ [Next]_vars => RoomsInv' /\ CountInv'
<1> SUFFICES ASSUME RoomsInv, CountInv, [Next]_vars PROVE RoomsInv' /\ CountInv'
    BY Zenon
<1>1. ASSUME UNCHANGED <<clients, strayed, commands, rx>> PROVE CountInv'
  <2>1. \A c : Held(c)' = Held(c) /\ ReleasesQueued(c)' = ReleasesQueued(c)
      BY Zenon, <1>1 DEF Held, ReleasesQueued
  <2>2. QED BY Zenon, <1>1, <2>1, CountKept
<1>2. CASE \E s \in Socket : SocketStep(s) \/ \E c \in Channel : Switch(s, c)
    BY Zenon, <1>2, SocketStepInv
<1>3. CASE HandleSubscribe
  <2>1. RoomsInv' BY <1>3, HandleSubscribeInv
  <2>2. QED BY Zenon, <1>3, <2>1, CountSubscribed DEF RoomsInv
<1>4. CASE HandleRelease
  <2>1. RoomsInv' BY Zenon, <1>4, HandleReleaseInv
  <2>2. QED BY Zenon, <1>4, <2>1, CountHandled DEF RoomsInv
<1>5. CASE Route \/ NoticeLoss \/ Reconnect \/ ConnectionDies
  <2>1. RoomsInv' BY Zenon, <1>5, RouteInv, ConnectionInv
  <2>2. UNCHANGED <<clients, strayed, commands, rx>>
      BY Zenon, <1>5
      DEF Route, NoticeLoss, Reconnect, ConnectionDies, roomVars, socketVars
  <2>3. QED BY Zenon, <1>1, <2>1, <2>2
<1>6. CASE \/ \E m \in Msg, c \in Channel : StoreMessage(m, c)
           \/ \E m \in Msg : PublishMessage(m)
           \/ \E e \in MembersEvent, c \in Channel : PublishMembers(e, c)
  <2>1. RoomsInv' BY <1>6, EventInv
  <2>2. UNCHANGED <<clients, strayed, commands, rx>>
      BY <1>6 DEF StoreMessage, PublishMessage, PublishMembers, Deliver, roomVars,
         socketVars
  <2>3. QED BY Zenon, <1>1, <2>1, <2>2
<1>7. CASE UNCHANGED vars
  <2>1. RoomsInv'
      BY ZenonT(30), <1>7
      DEF vars, roomVars, socketVars, eventVars, viewVars, RoomsInv, TypeOK,
         SocketInv, CommandInv, HoldInv, StoreInv, RoomsSubscribed, NoSilentGap
  <2>2. UNCHANGED <<clients, strayed, commands, rx>>
      BY Zenon, <1>7 DEF vars, roomVars, socketVars
  <2>3. QED BY Zenon, <1>1, <2>1, <2>2
<1>8. QED BY Zenon, <1>2, <1>3, <1>4, <1>5, <1>6, <1>7 DEF Next

(* The model of the room manager and its sockets is well typed.            *)
THEOREM RoomsTypes == Spec => []TypeOK
<1>1. RoomsInv => TypeOK BY Zenon DEF RoomsInv
<1>2. QED BY <1>1, RoomsInitInv, RoomsStepInv, PTL DEF Spec

(* RoomEntry.clients counts the receivers and the releases on the way,     *)
(* unless a socket released a room it did not hold.                        *)
THEOREM CountsHoldersAlways == Spec => []CountsHolders
<1>1. CountInv => CountsHolders BY Zenon DEF CountInv
<1>2. QED BY <1>1, RoomsInitInv, RoomsStepInv, PTL DEF Spec

(* The subscriptions at Valkey are those of the rooms with clients, through *)
(* every loss of the Pub/Sub connection and every restoration.             *)
THEOREM RoomsSubscribedAlways == Spec => []RoomsSubscribed
<1>1. RoomsInv => RoomsSubscribed BY Zenon DEF RoomsInv
<1>2. QED BY <1>1, RoomsInitInv, RoomsStepInv, PTL DEF Spec

(* A connected client misses no published message of its channel without   *)
(* being told: the history is loaded after the subscription is granted,    *)
(* and whoever holds a room when the connection is lost is signalled.      *)
THEOREM NoSilentGapAlways == Spec => []NoSilentGap
<1>1. RoomsInv => NoSilentGap BY Zenon DEF RoomsInv
<1>2. QED BY <1>1, RoomsInitInv, RoomsStepInv, PTL DEF Spec
=============================================================================
