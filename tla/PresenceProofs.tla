--------------------------- MODULE PresenceProofs ---------------------------
(***************************************************************************)
(* Who is shown in a channel, for any number of tabs and channels and any  *)
(* lifetime of the key that outlasts the heartbeats that may fail.  The    *)
(* invariant says how much of the lifetime is left for a tab that stays,   *)
(* which tab still owes the removal of the key, and what the events on     *)
(* their way to a watching tab will make it show.                          *)
(***************************************************************************)
EXTENDS Presence, TLAPS

Socks == [at : Staying \union {"closed", "enter", "depart", "farewell", "leave",
                               "bye"},
          chan : Channel, to : Channel, first : BOOLEAN]

(* Tabs in these states remove the user's entry before they end.           *)
Owing == Staying \union {"depart", "leave"}

Starting == {"enter", "smembers", "mget", "srem", "announce"}

(* Every interval and every failed heartbeat costs at most one tick of the *)
(* lifetime since the last good refresh_presence.                          *)
KeyInv ==
    \A s \in Tab :
        /\ s \in Stayers /\ fails[s] <= Misses =>
            member /\ ttl + fails[s] + (IF s \in due THEN 1 ELSE 0) >= Ttl
        /\ s \notin Stayers => fails[s] = Excused

(* A key is there because of a tab that will remove it, or by a fault.     *)
OwedInv ==
    /\ \A s \in Tab : sock[s].first => sock[s].at \in Starting
    /\ ttl > 0 /\ ~fault => \E s \in Tab : There(s) /\ sock[s].at \in Owing

(* A key that nobody renews is older than the time without a tab.          *)
EmptyInv ==
    /\ ~Nobody => empty = 0
    /\ Nobody /\ ttl > 0 => ttl + empty <= Ttl

(* What the watching tab shows once its events are applied.                *)
Foretold == IF inbox = <<>> THEN shown ELSE inbox[Len(inbox)] = "joined"

(* It is right about an empty room, and about tabs that have announced     *)
(* themselves since the last farewell.                                     *)
ViewInv ==
    /\ watch # "watching" => ~shown
    /\ watch = "away" => inbox = <<>> /\ ~missed
    /\ watch # "away" /\ ~missed =>
        /\ Foretold => ~Nobody
        /\ \A s \in Stayers \ hidden :
            /\ sock[s].at \in Loop
            /\ inbox # <<>> \/ (watch = "watching" /\ fails[s] <= Misses)
            => Foretold

PresenceInv ==
    /\ PresenceTypeOK /\ KeyInv /\ OwedInv /\ EmptyInv /\ ViewInv
    /\ FlagObserved

(* The numbers the constants stand for.                                    *)
LEMMA Bounds == /\ Ttl \in Nat /\ Misses \in Nat /\ Misses + 1 < Ttl
                /\ Excused \in Nat /\ Excused = Misses + 1
                /\ InboxCap \in Nat /\ InboxCap > 0
BY TtlAssumption DEF Excused

(* Lifetimes and counters at zero.                                         *)
LEMMA AtZero == ~(0 > 0) /\ \A n \in Nat : n + 0 = n
OBVIOUS

(* It holds before anyone connects.                                        *)
LEMMA PresenceInitInv == PresenceInit => PresenceInv
<1> SUFFICES ASSUME PresenceInit PROVE PresenceInv
    BY Zenon
<1> USE Bounds DEF PresenceInit
<1>1. Gone \in Socks BY Zenon, ChannelAssumption DEF Gone, Socks
<1>2. \A s \in Tab : sock[s].at = "closed" /\ ~sock[s].first BY Zenon DEF Gone
<1>3. Stayers = {} BY Zenon, <1>2 DEF Stayers, Staying, Loop
<1>4. Nobody BY Zenon, <1>2 DEF Nobody
<1>5. PresenceTypeOK
  <2>1. sock \in [Tab -> Socks] BY Zenon, <1>1
  <2>2. fails \in [Tab -> 0..Excused] OBVIOUS
  <2>3. inbox \in Seq({"joined", "left"}) /\ Len(inbox) <= InboxCap OBVIOUS
  <2>4. ttl \in 0..Ttl /\ empty \in 0..Ttl /\ down \in -1..1 OBVIOUS
  <2>5. QED BY Zenon, <2>1, <2>2, <2>3, <2>4 DEF PresenceTypeOK, Socks
<1>6. KeyInv BY Zenon, <1>3 DEF KeyInv
<1>7. OwedInv BY <1>2 DEF OwedInv
<1>8. EmptyInv BY <1>4 DEF EmptyInv
<1>9. ViewInv BY Zenon, <1>3, <1>4 DEF ViewInv, Foretold
<1>10. FlagObserved BY DEF FlagObserved
<1>11. QED BY Zenon, <1>5, <1>6, <1>7, <1>8, <1>9, <1>10 DEF PresenceInv

(* The properties the runs check follow from it.                           *)
LEMMA PresenceInvImplies ==
    PresenceInv => PresentUnlessDisturbed /\ GhostsExpire /\ ViewFollows
<1> SUFFICES ASSUME PresenceInv
             PROVE  PresentUnlessDisturbed /\ GhostsExpire /\ ViewFollows
    BY Zenon
<1> USE Bounds DEF PresenceInv
<1>1. PresentUnlessDisturbed
  <2> SUFFICES ASSUME NEW s \in Stayers, fails[s] <= Misses PROVE Listed
      BY Zenon DEF PresentUnlessDisturbed
  <2>1. s \in Tab BY Zenon DEF Stayers
  <2>2. member /\ ttl + fails[s] + 1 >= Ttl
      BY <2>1 DEF KeyInv, PresenceTypeOK
  <2>3. fails[s] \in Nat /\ ttl \in Nat BY <2>1 DEF PresenceTypeOK
  <2>4. QED BY <2>2, <2>3 DEF Listed
<1>2. GhostsExpire
  <2> SUFFICES ASSUME Listed, Nobody PROVE fault /\ empty < Ttl
      BY Zenon DEF GhostsExpire
  <2>1. ttl \in Nat /\ empty \in Nat /\ ttl > 0 /\ ttl + empty <= Ttl
      BY DEF Listed, EmptyInv, PresenceTypeOK
  <2>2. \A s \in Tab : There(s) => sock[s].at \notin Owing
      BY Zenon DEF Nobody, Owing, Staying, Loop
  <2>3. fault BY Zenon, <2>1, <2>2 DEF OwedInv
  <2>4. QED BY <2>1, <2>3
<1>3. ViewFollows
  <2> SUFFICES ASSUME watch = "watching", ~missed
               PROVE  /\ shown /\ Nobody =>
                            inbox # <<>> /\ inbox[Len(inbox)] = "left"
                      /\ \A s \in Stayers \ hidden :
                            /\ sock[s].at \in Loop /\ fails[s] <= Misses
                            /\ inbox = <<>>
                            => shown
      BY Zenon DEF ViewFollows
  <2>1. inbox # <<>> => inbox[Len(inbox)] \in {"joined", "left"}
      BY DEF PresenceTypeOK
  <2>2. QED BY Zenon, <2>1 DEF ViewInv, Foretold
<1>4. QED BY Zenon, <1>1, <1>2, <1>3
-----------------------------------------------------------------------------
(* A tab that stays goes on, and perhaps a heartbeat of it has failed.     *)
LEMMA ShiftStep ==
    ASSUME PresenceInv, NEW s \in Tab,
           sock' \in [Tab -> Socks],
           \A r \in Tab \ {s} : sock'[r] = sock[r],
           sock'[s].chan = sock[s].chan,
           sock'[s].first => sock'[s].at \in Starting,
           sock[s].at \in Staying, sock'[s].at \in Staying,
           sock'[s].at \in Loop => sock[s].at \in Loop,
           sock'[s].at = "open" => \/ down = -1
                                   \/ sock[s].at = "open" /\ due' = due,
           \/ due' = due /\ fails' = fails
           \/ due' = due \ {s} /\ fails' = Missing(s),
           UNCHANGED <<store, view, hidden, down, fault, empty>>
    PROVE  PresenceInv'
<1> USE DEF PresenceInv, store, view
<1>1. Stayers' = Stayers BY Zenon DEF Stayers, There
<1>2. Nobody' = Nobody BY Zenon DEF Nobody, There, Staying, Loop
<1>3. /\ fails' \in [Tab -> 0..Excused]
      /\ due' \subseteq due
      /\ \A r \in Tab :
            \/ fails'[r] = fails[r] /\ (r \in due' <=> r \in due)
            \/ fails'[r] = fails[r] + 1
            \/ fails'[r] = Excused /\ fails[r] = Excused
  <2>1. CASE due' = due /\ fails' = fails BY Zenon, <2>1 DEF PresenceTypeOK
  <2>2. CASE due' = due \ {s} /\ fails' = Missing(s)
    <3>1. fails[s] \in 0..Excused BY Zenon DEF PresenceTypeOK
    <3>2. fails'[s] = IF fails[s] < Excused THEN fails[s] + 1 ELSE fails[s]
        BY Zenon, <2>2 DEF Missing, PresenceTypeOK
    <3>3. fails'[s] \in 0..Excused BY <3>1, <3>2, Bounds
    <3>4. \/ fails'[s] = fails[s] + 1
          \/ fails'[s] = Excused /\ fails[s] = Excused
        BY <3>1, <3>2, Bounds
    <3>5. \A r \in Tab \ {s} : fails'[r] = fails[r]
        BY Zenon, <2>2 DEF Missing, PresenceTypeOK
    <3>6. fails' = [r \in Tab |-> fails'[r]]
        BY Zenon, <2>2 DEF Missing, PresenceTypeOK
    <3>7. fails' \in [Tab -> 0..Excused]
        BY Zenon, <3>3, <3>5, <3>6 DEF PresenceTypeOK
    <3>8. QED BY Zenon, <2>2, <3>4, <3>5, <3>7
  <2>3. QED BY Zenon, <2>1, <2>2
<1>4. PresenceTypeOK' BY Zenon, <1>3 DEF PresenceTypeOK, Socks
<1>5. KeyInv'
  <2> SUFFICES ASSUME NEW r \in Tab
               PROVE  /\ r \in Stayers /\ fails'[r] <= Misses =>
                            /\ member
                            /\ ttl + fails'[r] + (IF r \in due' THEN 1 ELSE 0) >= Ttl
                      /\ r \notin Stayers => fails'[r] = Excused
      BY Zenon, <1>1 DEF KeyInv
  <2>1. fails[r] \in 0..Excused /\ fails'[r] \in 0..Excused /\ ttl \in Nat
      BY <1>3 DEF PresenceTypeOK
  <2>2. /\ r \in Stayers /\ fails[r] <= Misses =>
            member /\ ttl + fails[r] + (IF r \in due THEN 1 ELSE 0) >= Ttl
        /\ r \notin Stayers => fails[r] = Excused
      BY Zenon DEF KeyInv
  <2>3. CASE fails'[r] = fails[r] /\ (r \in due' <=> r \in due)
      BY Zenon, <2>2, <2>3
  <2>4. CASE fails'[r] = fails[r] + 1
    <3>1. fails'[r] <= Misses => fails[r] <= Misses BY <2>1, <2>4, Bounds
    <3>2. r \in Stayers BY <2>1, <2>2, <2>4, Bounds
    <3>3. fails'[r] <= Misses => member /\ ttl + fails[r] + 1 >= Ttl
        BY <2>1, <2>2, <3>1, <3>2, Bounds
    <3>4. QED BY <2>1, <2>4, <3>2, <3>3, Bounds
  <2>5. CASE fails'[r] = Excused BY <2>5, Bounds
  <2>6. \/ fails'[r] = fails[r] /\ (r \in due' <=> r \in due)
        \/ fails'[r] = fails[r] + 1
        \/ fails'[r] = Excused
      BY Zenon, <1>3
  <2>7. QED BY ONLY <2>3, <2>4, <2>5, <2>6
<1>6. OwedInv' BY Zenon DEF OwedInv, There, Owing
<1>7. EmptyInv' BY Zenon, <1>2 DEF EmptyInv
<1>8. ViewInv'
  <2>2. ASSUME NEW r \in Tab, fails'[r] <= Misses PROVE fails[r] <= Misses
    <3>1. fails[r] \in 0..Excused BY Zenon DEF PresenceTypeOK
    <3>2. \/ fails'[r] = fails[r]
          \/ fails'[r] = fails[r] + 1
          \/ fails'[r] = Excused
        BY Zenon, <1>3
    <3>3. QED BY ONLY <2>2, <3>1, <3>2, Bounds
  <2>3. \A r \in Stayers : sock'[r].at \in Loop => sock[r].at \in Loop
      BY Zenon DEF Stayers
  <2>4. Stayers \subseteq Tab BY Zenon DEF Stayers
  <2>5. Foretold' = Foretold BY Zenon DEF Foretold
  <2>6. QED BY Zenon, <1>1, <1>2, <2>2, <2>3, <2>4, <2>5 DEF ViewInv
<1>9. FlagObserved' BY <1>3 DEF FlagObserved
<1>10. QED BY Zenon, <1>4, <1>5, <1>6, <1>7, <1>8, <1>9

(* A tab leaves the loop and will remove its presence next.                *)
LEMMA DepartStep ==
    ASSUME PresenceInv, NEW s \in Tab,
           sock' \in [Tab -> Socks],
           \A r \in Tab \ {s} : sock'[r] = sock[r],
           sock'[s].chan = sock[s].chan, sock'[s].first = sock[s].first,
           sock[s].at \in Loop, sock'[s].at \in {"depart", "leave"},
           Quit(s),
           UNCHANGED <<store, view, down, fault, empty>>
    PROVE  PresenceInv'
<1> USE DEF PresenceInv, store, view
<1>1. Stayers' = Stayers \ {s} BY Zenon DEF Stayers, There, Staying, Loop
<1>2. Nobody' = Nobody BY DEF Nobody, There, Loop
<1>3. /\ due' = due \ {s} /\ hidden' = hidden \ {s}
      /\ fails' \in [Tab -> 0..Excused] /\ fails'[s] = Excused
      /\ \A r \in Tab \ {s} : fails'[r] = fails[r]
    BY Bounds DEF PresenceTypeOK, Quit, Excuse
<1>4. PresenceTypeOK' BY Zenon, <1>3 DEF PresenceTypeOK, Socks
<1>5. KeyInv' BY Zenon, <1>1, <1>3 DEF KeyInv
<1>6. OwedInv' BY DEF OwedInv, There, Owing, Staying, Loop, Starting
<1>7. EmptyInv' BY Zenon, <1>2 DEF EmptyInv
<1>8. ViewInv'
  <2>1. \A r \in Stayers' \ hidden' :
            r \in Stayers \ hidden /\ sock'[r] = sock[r] /\ fails'[r] = fails[r]
      BY Zenon, <1>1, <1>3 DEF Stayers
  <2>2. Foretold' = Foretold BY Zenon DEF Foretold
  <2>3. QED BY Zenon, <1>2, <2>1, <2>2 DEF ViewInv
<1>9. FlagObserved' BY Zenon, <1>3 DEF FlagObserved
<1>10. QED BY Zenon, <1>4, <1>5, <1>6, <1>7, <1>8, <1>9

(* A tab ends without the removal, after a refresh at most.                *)
LEMMA VanishStep ==
    ASSUME PresenceInv, NEW s \in Tab, NEW listed \in BOOLEAN,
           sock[s].at # "closed",
           Vanish(s, listed),
           \/ UNCHANGED store /\ (listed \/ sock[s].at \notin Owing)
           \/ There(s) /\ listed /\ RefreshPresence
    PROVE  PresenceInv'
<1> USE DEF PresenceInv, store
<1>1. Gone \in Socks /\ Gone.at = "closed" /\ ~Gone.first
    BY Zenon, ChannelAssumption DEF Gone, Socks
<1>2. /\ sock' \in [Tab -> Socks] /\ sock'[s] = Gone
      /\ \A r \in Tab \ {s} : sock'[r] = sock[r]
    BY Zenon, <1>1 DEF Vanish, PresenceTypeOK, Socks
<1>3. /\ due' = due \ {s} /\ hidden' = hidden \ {s}
      /\ fails' \in [Tab -> 0..Excused] /\ fails'[s] = Excused
      /\ \A r \in Tab \ {s} : fails'[r] = fails[r]
    BY Bounds DEF PresenceTypeOK, Vanish, Quit, Excuse
<1>4. /\ fault' = (fault \/ (There(s) /\ listed))
      /\ missed' = (missed \/ (There(s) /\ watch # "away"))
      /\ watch' = watch /\ shown' = shown /\ inbox' = inbox /\ down' = down
      /\ empty' = empty
    BY Zenon DEF Vanish
<1>5. Stayers' = Stayers \ {s}
    BY Zenon, <1>1, <1>2 DEF Stayers, There, Staying, Loop
<1>6. Nobody' <=> \A r \in Tab \ {s} : sock[r].at # "closed" => ~There(r)
    BY Zenon, <1>1, <1>2 DEF Nobody, There
<1>7. /\ Nobody => Nobody'
      /\ Nobody' => Nobody \/ There(s)
    BY Zenon, <1>6 DEF Nobody
<1>8. /\ member' \in BOOLEAN /\ ttl' \in 0..Ttl
      /\ (member' = member /\ ttl' = ttl) \/ (member' /\ ttl' = Ttl)
  <2>1. CASE UNCHANGED store BY Zenon, <2>1 DEF PresenceTypeOK
  <2>2. CASE RefreshPresence BY <2>2, Bounds DEF RefreshPresence
  <2>3. QED BY Zenon, <2>1, <2>2
<1>9. PresenceTypeOK'
  <2>1. fault' \in BOOLEAN /\ missed' \in BOOLEAN BY Zenon, <1>4
  <2>2. QED BY Zenon, <1>2, <1>3, <1>4, <1>8, <2>1 DEF PresenceTypeOK, Socks
<1>10. KeyInv'
  <2> SUFFICES ASSUME NEW r \in Tab
               PROVE  /\ r \in Stayers' /\ fails'[r] <= Misses =>
                            /\ member'
                            /\ ttl' + fails'[r] + (IF r \in due' THEN 1 ELSE 0) >= Ttl
                      /\ r \notin Stayers' => fails'[r] = Excused
      BY Zenon DEF KeyInv
  <2>1. CASE r = s BY Zenon, <1>3, <1>5, <2>1
  <2>2. CASE r # s
    <3>1. /\ r \in Stayers' <=> r \in Stayers
          /\ r \in due' <=> r \in due
          /\ fails'[r] = fails[r] /\ fails[r] \in Nat /\ ttl \in Nat
        BY <1>3, <1>5, <2>2 DEF PresenceTypeOK
    <3>2. QED BY <1>8, <3>1, Bounds DEF KeyInv
  <2>3. QED BY Zenon, <2>1, <2>2
<1>11. OwedInv'
  <2>1. \A r \in Tab : sock'[r].first => sock'[r].at \in Starting
      BY Zenon, <1>1, <1>2 DEF OwedInv
  <2>2. ASSUME ttl' > 0, ~fault'
        PROVE  \E r \in Tab : sock'[r].chan = Room /\ sock'[r].at \in Owing
    <3>1. ~fault /\ ~(There(s) /\ listed) BY Zenon, <1>4, <2>2
    <3>2. UNCHANGED store /\ (listed \/ sock[s].at \notin Owing) BY Zenon, <3>1
    <3>3. PICK r \in Tab : There(r) /\ sock[r].at \in Owing
        BY Zenon, <2>2, <3>1, <3>2 DEF OwedInv
    <3>4. r # s BY Zenon, <3>1, <3>2, <3>3
    <3>5. QED BY Zenon, <1>2, <3>3, <3>4 DEF There
  <2>3. QED BY Zenon, <2>1, <2>2 DEF OwedInv, There
<1>12. EmptyInv'
  <2>1. ~Nobody' => empty' = 0 BY Zenon, <1>4, <1>7 DEF EmptyInv
  <2>2. ASSUME Nobody', ttl' > 0 PROVE ttl' + empty' <= Ttl
    <3>1. CASE There(s)
      <4>1. ~Nobody BY Zenon, <3>1 DEF Nobody
      <4>2. empty' = 0 BY Zenon, <1>4, <4>1 DEF EmptyInv
      <4>3. ttl' \in Nat /\ ttl' <= Ttl BY <1>8, Bounds
      <4>4. ttl' + empty' = ttl' BY <4>2, <4>3, AtZero, Zenon
      <4>5. QED BY <4>3, <4>4, Zenon
    <3>2. CASE ~There(s)
      <4>1. Nobody /\ ttl' = ttl BY Zenon, <1>7, <2>2, <3>2
      <4>2. QED BY Zenon, <1>4, <2>2, <4>1 DEF EmptyInv
    <3>3. QED BY Zenon, <3>1, <3>2
  <2>3. QED BY Zenon, <2>1, <2>2 DEF EmptyInv
<1>13. ViewInv'
  <2>1. \A r \in Stayers' \ hidden' :
            r \in Stayers \ hidden /\ sock'[r] = sock[r] /\ fails'[r] = fails[r]
      BY Zenon, <1>2, <1>3, <1>5 DEF Stayers
  <2>2. Foretold' = Foretold BY Zenon, <1>4 DEF Foretold
  <2>3. watch' # "away" /\ ~missed' => ~missed /\ ~There(s) BY Zenon, <1>4
  <2>4. QED BY Zenon, <1>4, <1>7, <2>1, <2>2, <2>3 DEF ViewInv
<1>14. FlagObserved' BY Zenon, <1>1, <1>2, <1>3, <1>4 DEF FlagObserved
<1>15. QED BY Zenon, <1>9, <1>10, <1>11, <1>12, <1>13, <1>14

(* What a broadcast leaves in the watching tab's receiver: the event comes *)
(* last, or one is missed.                                                 *)
LEMMA BroadcastView ==
    ASSUME PresenceTypeOK, NEW s \in Tab, NEW event \in {"joined", "left"},
           NEW heard \in BOOLEAN, Broadcast(s, event, heard)
    PROVE  /\ watch' = watch /\ shown' = shown
           /\ inbox' \in Seq({"joined", "left"}) /\ Len(inbox') <= InboxCap
           /\ missed' \in BOOLEAN /\ (missed => missed')
           /\ ~There(s) \/ watch = "away" => inbox' = inbox /\ missed' = missed
           /\ There(s) /\ watch # "away" =>
                missed' \/ (inbox' # <<>> /\ inbox'[Len(inbox')] = event)
<1> DEFINE reached == There(s) /\ watch # "away"
           full == Len(inbox) = InboxCap
<1>1. /\ inbox' = IF reached /\ heard
                  THEN Append(IF full THEN Tail(inbox) ELSE inbox, event)
                  ELSE inbox
      /\ missed' = (missed \/ (reached /\ (full \/ ~heard)))
      /\ watch' = watch /\ shown' = shown
    BY Zenon DEF Broadcast
<1>2. /\ inbox \in Seq({"joined", "left"}) /\ Len(inbox) <= InboxCap
      /\ missed \in BOOLEAN
    BY Zenon DEF PresenceTypeOK
<1> HIDE DEF reached, full
<1>3. missed' \in BOOLEAN /\ (missed => missed') BY Zenon, <1>1
<1>4. ~reached => inbox' = inbox /\ missed' = missed BY Zenon, <1>1, <1>2
<1>5. CASE reached /\ heard /\ full
  <2>1. Len(inbox) > 0 BY Zenon, <1>2, <1>5, Bounds DEF full
  <2>2. Tail(inbox) \in Seq({"joined", "left"}) /\ Len(Tail(inbox)) = Len(inbox) - 1
      BY <1>2, <2>1
  <2>3. inbox' = Append(Tail(inbox), event) BY Zenon, <1>1, <1>5
  <2>4. inbox' \in Seq({"joined", "left"}) /\ Len(inbox') <= InboxCap
      BY <1>2, <2>2, <2>3, Bounds
  <2>5. missed' BY Zenon, <1>1, <1>5
  <2>6. QED BY Zenon, <1>1, <1>3, <1>4, <1>5, <2>4, <2>5 DEF reached
<1>6. CASE reached /\ heard /\ ~full
  <2>1. inbox' = Append(inbox, event) BY Zenon, <1>1, <1>6
  <2>2. Len(inbox) \in Nat /\ Len(inbox) < InboxCap
      BY <1>2, <1>6, Bounds DEF full
  <2>3. inbox' \in Seq({"joined", "left"}) /\ Len(inbox') = Len(inbox) + 1
      BY <1>2, <2>1
  <2>4. inbox' # <<>> /\ inbox'[Len(inbox')] = event
      BY <1>2, <2>1, <2>3
  <2>5. Len(inbox') <= InboxCap BY <2>2, <2>3, Bounds
  <2>6. QED BY Zenon, <1>1, <1>3, <1>4, <1>6, <2>3, <2>4, <2>5 DEF reached
<1>7. CASE reached /\ ~heard
  <2>1. inbox' = inbox /\ missed' BY Zenon, <1>1, <1>7
  <2>2. QED BY Zenon, <1>1, <1>2, <1>3, <1>4, <1>7, <2>1 DEF reached
<1>8. CASE ~reached
  BY Zenon, <1>1, <1>2, <1>3, <1>4, <1>8 DEF reached
<1>9. QED BY Zenon, <1>5, <1>6, <1>7, <1>8

(* ParticipantJoined: whoever hears it shows the user.                     *)
LEMMA AnnounceStep ==
    ASSUME PresenceInv, NEW s \in Tab, NEW heard \in BOOLEAN, Announce(s, heard)
    PROVE  PresenceInv'
<1> USE DEF PresenceInv
<1>1. Broadcast(s, "joined", heard) BY Zenon DEF Announce
<1>2. /\ UNCHANGED <<member, ttl, due, down, fails, fault, empty>>
      /\ sock[s].at = "announce"
    BY Zenon DEF Announce, store
<1>3. hidden' = hidden \ {s} BY Zenon, <1>1 DEF Broadcast
<1>4. /\ sock' \in [Tab -> Socks]
      /\ \A r \in Tab \ {s} : sock'[r] = sock[r]
      /\ sock'[s].chan = sock[s].chan /\ ~sock'[s].first
      /\ sock'[s].at = IF down = -1 THEN "open" ELSE "alert"
  <2>1. sock' = [sock EXCEPT ![s] = [sock[s] EXCEPT
                    !.at = IF down = -1 THEN "open" ELSE "alert",
                    !.first = FALSE]]
      BY Zenon DEF Announce, EnterLoop, PresenceTypeOK
  <2>2. [sock[s] EXCEPT !.at = IF down = -1 THEN "open" ELSE "alert",
                        !.first = FALSE] \in Socks
      BY ZenonT(30) DEF PresenceTypeOK, Socks, Staying, Loop
  <2>3. QED BY Zenon, <2>1, <2>2 DEF PresenceTypeOK, Socks
<1>5. sock'[s].at \in Loop BY Zenon, <1>4 DEF Loop
<1>6. Stayers' = Stayers BY <1>2, <1>4, <1>5 DEF Stayers, There, Staying
<1>7. Nobody' = Nobody BY Zenon, <1>2, <1>4 DEF Nobody, There
<1>b. /\ watch' = watch /\ shown' = shown
      /\ inbox' \in Seq({"joined", "left"}) /\ Len(inbox') <= InboxCap
      /\ missed' \in BOOLEAN /\ (missed => missed')
      /\ ~There(s) \/ watch = "away" => inbox' = inbox /\ missed' = missed
      /\ There(s) /\ watch # "away" =>
            missed' \/ (inbox' # <<>> /\ inbox'[Len(inbox')] = "joined")
    BY Zenon, <1>1, BroadcastView
<1>8. PresenceTypeOK' BY Zenon, <1>2, <1>3, <1>4, <1>b DEF PresenceTypeOK, Socks
<1>9. KeyInv' BY Zenon, <1>2, <1>6 DEF KeyInv
<1>10. OwedInv' BY Zenon, <1>2, <1>4, <1>5 DEF OwedInv, There, Owing, Staying
<1>11. EmptyInv' BY Zenon, <1>2, <1>7 DEF EmptyInv
<1>12. ViewInv'
  <2>1. CASE ~There(s) \/ watch = "away"
    <3>1. s \notin Stayers \/ watch = "away" BY Zenon, <2>1 DEF Stayers
    <3>2. Foretold' = Foretold BY Zenon, <1>b, <2>1 DEF Foretold
    <3>3. \A r \in Stayers' \ hidden' : r = s \/ (r \in Stayers \ hidden
                                                /\ sock'[r] = sock[r])
        BY Zenon, <1>3, <1>4, <1>6 DEF Stayers
    <3>4. QED BY Zenon, <1>2, <1>6, <1>7, <1>b, <2>1, <3>1, <3>2, <3>3 DEF ViewInv
  <2>2. CASE There(s) /\ watch # "away"
    <3>1. ~missed' => Foretold' BY Zenon, <1>b, <2>2 DEF Foretold
    <3>2. ~Nobody BY Zenon, <1>2, <2>2 DEF Nobody
    <3>3. QED BY Zenon, <1>7, <1>b, <2>2, <3>1, <3>2 DEF ViewInv
  <2>3. QED BY Zenon, <2>1, <2>2
<1>13. FlagObserved' BY <1>2, <1>4 DEF FlagObserved
<1>14. QED BY Zenon, <1>8, <1>9, <1>10, <1>11, <1>12, <1>13

(* ParticipantLeft, when the tab is on its way elsewhere or closed.        *)
LEMMA LeftStep ==
    ASSUME PresenceInv, NEW s \in Tab, NEW heard \in BOOLEAN,
           Broadcast(s, "left", heard),
           sock[s].at \in {"farewell", "bye"},
           sock' \in [Tab -> Socks],
           \A r \in Tab \ {s} : sock'[r] = sock[r],
           sock'[s].at \in {"enter", "leave", "closed"}, ~sock'[s].first,
           empty' = IF sock'[s].at # "closed" /\ sock'[s].chan = Room
                    THEN 0 ELSE empty,
           UNCHANGED <<store, due, down, fails, fault>>
    PROVE  PresenceInv'
<1> USE DEF PresenceInv, store
<1>1. hidden' = IF There(s) THEN hidden \union (Stayers \ {s}) ELSE hidden
    BY Zenon DEF Broadcast
<1>2. /\ watch' = watch /\ shown' = shown
      /\ inbox' \in Seq({"joined", "left"}) /\ Len(inbox') <= InboxCap
      /\ missed' \in BOOLEAN /\ (missed => missed')
      /\ ~There(s) \/ watch = "away" => inbox' = inbox /\ missed' = missed
      /\ There(s) /\ watch # "away" =>
            missed' \/ (inbox' # <<>> /\ inbox'[Len(inbox')] = "left")
    BY Zenon, BroadcastView
<1>3. Stayers' = Stayers /\ s \notin Stayers
    BY Zenon DEF Stayers, There, Staying, Loop
<1> DEFINE othersGone == \A r \in Tab \ {s} : sock[r].at # "closed" => ~There(r)
<1>4. /\ Nobody <=> othersGone /\ ~There(s)
      /\ Nobody' <=> othersGone /\ ~(sock'[s].at # "closed" /\ sock'[s].chan = Room)
    BY Zenon DEF Nobody, There
<1> HIDE DEF othersGone
<1>5. PresenceTypeOK'
  <2>1. hidden' \subseteq Tab BY Zenon, <1>1 DEF PresenceTypeOK, Stayers
  <2>2. empty' \in 0..Ttl BY Bounds DEF PresenceTypeOK
  <2>3. QED BY Zenon, <1>2, <2>1, <2>2 DEF PresenceTypeOK, Socks
<1>6. KeyInv' BY Zenon, <1>3 DEF KeyInv
<1>7. OwedInv'
  <2>1. sock[s].at \notin Owing BY Zenon DEF Owing, Staying, Loop
  <2>2. QED BY Zenon, <2>1 DEF OwedInv, There
<1>8. EmptyInv'
  <2>1. ttl \in Nat /\ ttl <= Ttl BY Bounds DEF PresenceTypeOK
  <2>2. ~Nobody' => empty' = 0 BY Zenon, <1>4 DEF EmptyInv
  <2>3. ASSUME Nobody', ttl > 0 PROVE ttl + empty' <= Ttl
    <3>1. empty' = empty BY Zenon, <1>4, <2>3
    <3>2. CASE Nobody BY Zenon, <2>3, <3>1, <3>2 DEF EmptyInv
    <3>3. CASE ~Nobody BY <2>1, <3>1, <3>3, Bounds DEF EmptyInv
    <3>4. QED BY Zenon, <3>2, <3>3
  <2>4. QED BY Zenon, <2>2, <2>3 DEF EmptyInv
<1>9. ViewInv'
  <2>1. CASE ~There(s) \/ watch = "away"
    <3>1. Foretold' = Foretold BY Zenon, <1>2, <2>1 DEF Foretold
    <3>2. \A r \in Stayers' \ hidden' : r \in Stayers \ hidden
                                        /\ sock'[r] = sock[r]
        BY Zenon, <1>1, <1>3 DEF Stayers
    <3>3. ~There(s) /\ Nobody' => Nobody BY Zenon, <1>4
    <3>4. QED BY Zenon, <1>2, <2>1, <3>1, <3>2, <3>3 DEF ViewInv
  <2>2. CASE There(s) /\ watch # "away"
    <3>1. ~missed' => ~Foretold' BY Zenon, <1>2, <2>2 DEF Foretold
    <3>2. Stayers' \ hidden' = {} BY Zenon, <1>1, <1>3, <2>2
    <3>3. QED BY Zenon, <1>2, <2>2, <3>1, <3>2 DEF ViewInv
  <2>3. QED BY Zenon, <2>1, <2>2
<1>10. FlagObserved' BY Zenon DEF FlagObserved
<1>11. QED BY Zenon, <1>5, <1>6, <1>7, <1>8, <1>9, <1>10

(* refresh_presence, when the task goes on.                                *)
LEMMA RefreshStep ==
    ASSUME PresenceInv, NEW s \in Tab, NEW outcome \in {"ok", "lost", "failed"},
           sock[s].at \in {"enter", "beat"},
           IF There(s) /\ outcome # "failed" THEN RefreshPresence
                                             ELSE UNCHANGED store,
           To(s, IF sock[s].at = "enter" THEN "smembers" ELSE "announce"),
           fails' = IF outcome = "failed" THEN Missing(s)
                    ELSE [fails EXCEPT ![s] = IF There(s) THEN 0 ELSE Excused],
           due' = due \ {s},
           UNCHANGED <<view, hidden, down, fault, empty>>
    PROVE  PresenceInv'
<1> USE DEF PresenceInv, store, view
<1>1. /\ sock' \in [Tab -> Socks]
      /\ \A r \in Tab \ {s} : sock'[r] = sock[r]
      /\ sock'[s].chan = sock[s].chan /\ sock'[s].first = sock[s].first
      /\ sock'[s].at \in {"smembers", "announce"}
    BY DEF To, PresenceTypeOK, Socks, Staying
<1>2. Stayers' = Stayers \union (IF There(s) THEN {s} ELSE {})
    BY <1>1 DEF Stayers, There, Staying, Loop
<1>3. Nobody' = Nobody BY <1>1 DEF Nobody, There
<1>4. fails[s] \in 0..Excused /\ fails' = [r \in Tab |-> fails'[r]]
    BY Zenon DEF PresenceTypeOK, Missing
<1>5. \A r \in Tab \ {s} : fails'[r] = fails[r]
    BY Zenon DEF PresenceTypeOK, Missing
<1>6. fails'[s] = IF outcome # "failed" THEN (IF There(s) THEN 0 ELSE Excused)
                  ELSE IF fails[s] < Excused THEN fails[s] + 1 ELSE fails[s]
    BY Zenon DEF PresenceTypeOK, Missing
<1>7. fails' \in [Tab -> 0..Excused]
  <2>1. fails'[s] \in 0..Excused BY <1>4, <1>6, Bounds
  <2>2. QED BY Zenon, <1>4, <1>5, <2>1 DEF PresenceTypeOK
<1>8. /\ member' \in BOOLEAN /\ ttl' \in 0..Ttl
      /\ \/ member' /\ ttl' = Ttl
         \/ member' = member /\ ttl' = ttl /\ (There(s) => outcome = "failed")
  <2>1. CASE There(s) /\ outcome # "failed" BY <2>1, Bounds DEF RefreshPresence
  <2>2. CASE ~(There(s) /\ outcome # "failed") BY Zenon, <2>2 DEF PresenceTypeOK
  <2>3. QED BY Zenon, <2>1, <2>2
<1>9. PresenceTypeOK' BY Zenon, <1>1, <1>7, <1>8 DEF PresenceTypeOK, Socks
<1>10. KeyInv'
  <2> SUFFICES ASSUME NEW r \in Tab
               PROVE  /\ r \in Stayers' /\ fails'[r] <= Misses =>
                            /\ member'
                            /\ ttl' + fails'[r] + (IF r \in due' THEN 1 ELSE 0) >= Ttl
                      /\ r \notin Stayers' => fails'[r] = Excused
      BY Zenon DEF KeyInv
  <2>1. ttl \in Nat /\ fails[r] \in 0..Excused /\ fails'[r] \in 0..Excused
      BY <1>7 DEF PresenceTypeOK
  <2>2. /\ r \in Stayers /\ fails[r] <= Misses =>
            member /\ ttl + fails[r] + (IF r \in due THEN 1 ELSE 0) >= Ttl
        /\ r \notin Stayers => fails[r] = Excused
      BY Zenon DEF KeyInv
  <2>3. CASE r # s
    <3>1. /\ r \in Stayers' <=> r \in Stayers
          /\ r \in due' <=> r \in due
          /\ fails'[r] = fails[r]
        BY Zenon, <1>2, <1>5, <2>3
    <3>2. CASE member' /\ ttl' = Ttl BY <2>1, <2>2, <3>1, <3>2, Bounds
    <3>3. CASE member' = member /\ ttl' = ttl BY Zenon, <2>2, <3>1, <3>3
    <3>4. QED BY Zenon, <1>8, <3>2, <3>3
  <2>4. CASE r = s /\ outcome # "failed"
    <3>1. fails'[r] = IF There(s) THEN 0 ELSE Excused BY Zenon, <1>6, <2>4
    <3>2. There(s) => member' /\ ttl' = Ttl BY Zenon, <1>8, <2>4
    <3>3. ~There(s) => r \notin Stayers' BY Zenon, <1>1, <2>4 DEF Stayers, There
    <3>4. There(s) => r \in Stayers' BY Zenon, <1>2, <2>4
    <3>5. QED BY <3>1, <3>2, <3>3, <3>4, Bounds
  <2>5. CASE r = s /\ outcome = "failed"
    <3>1. member' = member /\ ttl' = ttl BY Zenon, <2>5
    <3>2. s \notin due' BY Zenon
    <3>3. fails'[s] = IF fails[s] < Excused THEN fails[s] + 1 ELSE fails[s]
        BY Zenon, <1>6, <2>5
    <3>4. s \notin Stayers' => s \notin Stayers BY Zenon, <1>2
    <3>5. CASE s \in Stayers /\ fails[s] <= Misses
      <4>1. member /\ ttl + fails[s] + 1 >= Ttl BY <2>1, <2>2, <2>5, <3>5, Bounds
      <4>2. fails'[s] = fails[s] + 1 BY <2>1, <2>5, <3>3, <3>5, Bounds
      <4>3. QED BY <2>1, <2>5, <3>1, <3>2, <3>4, <3>5, <4>1, <4>2, Bounds
    <3>6. CASE ~(s \in Stayers /\ fails[s] <= Misses)
      <4>1. fails[s] = Excused BY <2>1, <2>2, <2>5, <3>6, Bounds
      <4>2. fails'[s] = Excused BY <3>3, <4>1, Bounds
      <4>3. QED BY <2>5, <4>2, Bounds
    <3>7. QED BY Zenon, <3>5, <3>6
  <2>6. QED BY Zenon, <2>3, <2>4, <2>5
<1>11. OwedInv'
  <2>1. \A r \in Tab : sock'[r].first => sock'[r].at \in Starting
      BY Zenon, <1>1 DEF OwedInv, Starting
  <2>2. sock'[s].at \in Owing BY Zenon, <1>1 DEF Owing, Staying
  <2>3. ASSUME ttl' > 0, ~fault'
        PROVE  \E r \in Tab : sock'[r].chan = Room /\ sock'[r].at \in Owing
    <3>1. CASE There(s) BY Zenon, <1>1, <2>2, <3>1 DEF There
    <3>2. CASE ~There(s)
      <4>1. PICK r \in Tab : There(r) /\ sock[r].at \in Owing
          BY Zenon, <2>3, <3>2 DEF OwedInv
      <4>2. QED BY Zenon, <1>1, <3>2, <4>1 DEF There
    <3>3. QED BY Zenon, <3>1, <3>2
  <2>4. QED BY Zenon, <2>1, <2>3 DEF OwedInv, There
<1>12. EmptyInv'
  <2>1. There(s) => ~Nobody BY Zenon DEF Nobody
  <2>2. ~There(s) => ttl' = ttl BY Zenon
  <2>3. QED BY Zenon, <1>3, <2>1, <2>2 DEF EmptyInv
<1>13. ViewInv'
  <2>1. \A r \in Stayers' \ hidden' : sock'[r].at \in Loop =>
            r \in Stayers \ hidden /\ sock'[r] = sock[r] /\ fails'[r] = fails[r]
      BY Zenon, <1>1, <1>2, <1>5 DEF Stayers, Loop
  <2>2. Foretold' = Foretold BY Zenon DEF Foretold
  <2>3. QED BY Zenon, <1>3, <2>1, <2>2 DEF ViewInv
<1>14. FlagObserved' BY Zenon, <1>1 DEF FlagObserved
<1>15. QED BY Zenon, <1>9, <1>10, <1>11, <1>12, <1>13, <1>14

(* list_presence removes an entry it had found without its key.            *)
LEMMA PurgeStep ==
    ASSUME PresenceInv,
           sock' \in [Tab -> Socks],
           \A r \in Tab :
                /\ sock'[r].chan = sock[r].chan
                /\ sock'[r].first = sock[r].first
                /\ sock'[r].at = sock[r].at
                    \/ (sock[r].at = "srem" /\ sock'[r].at = "announce"),
           member' = FALSE, Excuse(Stayers),
           watch' = watch \/ (watch = "srem" /\ watch' = "watching"),
           UNCHANGED <<ttl, due, shown, inbox, missed, hidden, down, fault, empty>>
    PROVE  PresenceInv'
<1> USE DEF PresenceInv
<1>1. /\ fails' \in [Tab -> 0..Excused]
      /\ \A r \in Tab : fails'[r] = IF r \in Stayers THEN Excused ELSE fails[r]
    BY Bounds DEF PresenceTypeOK, Excuse
<1>2. Stayers' = Stayers BY Zenon DEF Stayers, There, Staying
<1>3. Nobody' = Nobody BY DEF Nobody, There
<1>4. PresenceTypeOK'
  <2>1. watch' \in {"away", "smembers", "mget", "srem", "blind", "watching"}
      BY Zenon DEF PresenceTypeOK
  <2>2. QED BY Zenon, <1>1, <2>1 DEF PresenceTypeOK, Socks
<1>5. \A r \in Tab : fails'[r] = Excused BY Zenon, <1>1 DEF KeyInv
<1>6. KeyInv' BY <1>5, Bounds DEF KeyInv
<1>7. OwedInv' BY DEF OwedInv, There, Owing, Staying, Starting
<1>8. EmptyInv' BY Zenon, <1>3 DEF EmptyInv
<1>9. ViewInv'
  <2>1. \A r \in Stayers : r \in Tab /\ ~(fails'[r] <= Misses)
      BY <1>5, Bounds DEF Stayers
  <2>2. Foretold' = Foretold BY Zenon DEF Foretold
  <2>3. \A r \in Stayers : sock'[r].at \in Loop => sock[r].at \in Loop
      BY Zenon DEF Loop, Stayers
  <2>4. QED BY Zenon, <1>2, <1>3, <2>1, <2>2, <2>3 DEF ViewInv
<1>10. FlagObserved' BY Zenon DEF FlagObserved
<1>11. QED BY Zenon, <1>4, <1>6, <1>7, <1>8, <1>9, <1>10

(* remove_presence of a tab that leaves.                                   *)
LEMMA RemoveStep ==
    ASSUME PresenceInv, NEW s \in Tab, NEW done \in BOOLEAN, Remove(s, done)
    PROVE  PresenceInv'
<1> USE DEF PresenceInv, store, view
<1>1. /\ sock[s].at \in {"depart", "leave"}
      /\ UNCHANGED <<due, watch, shown, inbox, missed, hidden, down, empty>>
    BY Zenon DEF Remove
<1>2. /\ sock' \in [Tab -> Socks]
      /\ \A r \in Tab \ {s} : sock'[r] = sock[r]
      /\ sock'[s].chan = sock[s].chan /\ sock'[s].first = sock[s].first
      /\ sock'[s].at \in {"farewell", "bye"}
    BY ZenonT(30) DEF Remove, To, PresenceTypeOK, Socks
<1>3. Stayers' = Stayers BY Zenon, <1>1, <1>2 DEF Stayers, There, Staying, Loop
<1>4. Nobody' = Nobody BY <1>1, <1>2 DEF Nobody, There
<1>5. \A r \in Tab : sock'[r].first => sock'[r].at \in Starting
  BY Zenon, <1>1, <1>2 DEF OwedInv, Starting
<1>6. FlagObserved' BY Zenon, <1>1, <1>2 DEF FlagObserved
<1>7. CASE There(s) /\ done
  <2>1. member' = FALSE /\ ttl' = 0 /\ fault' = FALSE /\ Excuse(Stayers)
      BY Zenon, <1>7 DEF Remove, RemovePresence
  <2>2. fails' \in [Tab -> 0..Excused] /\ \A r \in Tab : fails'[r] = Excused
      BY <2>1, Bounds DEF PresenceTypeOK, Excuse, KeyInv
  <2>3. PresenceTypeOK'
    <3>1. ttl' \in 0..Ttl BY <2>1, Bounds
    <3>2. QED BY Zenon, <1>1, <1>2, <2>1, <2>2, <3>1 DEF PresenceTypeOK, Socks
  <2>4. KeyInv' BY <2>2, Bounds DEF KeyInv
  <2>5. OwedInv'
    <3>1. ~(ttl' > 0) BY <2>1, AtZero, Zenon
    <3>2. QED BY <1>5, <3>1, Zenon DEF OwedInv
  <2>6. EmptyInv' BY <1>1, <1>4, <2>1 DEF EmptyInv
  <2>7. ViewInv'
    <3>1. \A r \in Stayers' \ hidden' : r \in Stayers \ hidden /\ sock'[r] = sock[r]
                                        /\ ~(fails'[r] <= Misses)
        BY <1>1, <1>2, <1>3, <2>2, Bounds DEF Stayers, Staying, Loop
    <3>2. Foretold' = Foretold BY Zenon, <1>1 DEF Foretold
    <3>3. QED BY Zenon, <1>1, <1>4, <3>1, <3>2 DEF ViewInv
  <2>8. QED BY Zenon, <1>6, <2>3, <2>4, <2>5, <2>6, <2>7
<1>8. CASE ~(There(s) /\ done)
  <2>1. /\ fault' = (fault \/ There(s))
        /\ member' = member /\ ttl' = ttl /\ fails' = fails
      BY Zenon, <1>8 DEF Remove
  <2>2. PresenceTypeOK'
    <3>1. fault' \in BOOLEAN BY Zenon, <2>1
    <3>2. QED BY Zenon, <1>1, <1>2, <2>1, <3>1 DEF PresenceTypeOK, Socks
  <2>3. KeyInv' BY Zenon, <1>1, <1>3, <2>1 DEF KeyInv
  <2>4. OwedInv'
    <3>1. ~fault' => ~fault /\ ~There(s) BY Zenon, <2>1
    <3>2. QED BY Zenon, <1>2, <1>5, <2>1, <3>1 DEF OwedInv, There
  <2>5. EmptyInv' BY Zenon, <1>1, <1>4, <2>1 DEF EmptyInv
  <2>6. ViewInv'
    <3>1. \A r \in Stayers' \ hidden' : r \in Stayers \ hidden /\ sock'[r] = sock[r]
        BY Zenon, <1>1, <1>2, <1>3 DEF Stayers, Staying, Loop
    <3>2. Foretold' = Foretold BY Zenon, <1>1 DEF Foretold
    <3>3. QED BY ZenonT(30), <1>1, <1>4, <2>1, <3>1, <3>2 DEF ViewInv
  <2>7. QED BY Zenon, <1>6, <2>2, <2>3, <2>4, <2>5, <2>6
<1>9. QED BY Zenon, <1>7, <1>8

(* The start of a socket task.                                             *)
LEMMA ConnectStep ==
    ASSUME PresenceInv, NEW s \in Tab, Connect(s)
    PROVE  PresenceInv'
<1> USE DEF PresenceInv, store, view
<1>1. /\ sock[s].at = "closed"
      /\ empty' = IF Main = Room THEN 0 ELSE empty
      /\ UNCHANGED <<member, ttl, due, watch, shown, inbox, missed, hidden, down,
                     fails, fault>>
    BY Zenon DEF Connect
<1>2. /\ sock' \in [Tab -> Socks]
      /\ \A r \in Tab \ {s} : sock'[r] = sock[r]
      /\ sock'[s].chan = Main /\ sock'[s].at = "enter"
  <2>1. [at |-> "enter", chan |-> Main, to |-> Main, first |-> TRUE] \in Socks
      BY Zenon, ChannelAssumption DEF Socks
  <2>2. sock' = [sock EXCEPT ![s] =
            [at |-> "enter", chan |-> Main, to |-> Main, first |-> TRUE]]
      BY Zenon DEF Connect
  <2>3. QED BY Zenon, <2>1, <2>2 DEF PresenceTypeOK, Socks
<1>3. Stayers' = Stayers BY Zenon, <1>1, <1>2 DEF Stayers, There, Staying, Loop
<1>4. Nobody' <=> Nobody /\ Main # Room BY Zenon, <1>1, <1>2 DEF Nobody, There
<1>5. PresenceTypeOK'
  <2>1. empty' \in 0..Ttl BY <1>1, Bounds DEF PresenceTypeOK
  <2>2. QED BY Zenon, <1>1, <1>2, <2>1 DEF PresenceTypeOK, Socks
<1>6. KeyInv' BY Zenon, <1>1, <1>3 DEF KeyInv
<1>7. OwedInv'
  <2>1. sock[s].at \notin Owing BY Zenon, <1>1 DEF Owing, Staying, Loop
  <2>2. QED BY Zenon, <1>1, <1>2, <2>1 DEF OwedInv, There, Starting
<1>8. EmptyInv' BY Zenon, <1>1, <1>4 DEF EmptyInv
<1>9. ViewInv'
  <2>1. \A r \in Stayers' \ hidden' : r \in Stayers \ hidden /\ sock'[r] = sock[r]
      BY Zenon, <1>1, <1>2, <1>3 DEF Stayers, Staying, Loop
  <2>2. Foretold' = Foretold BY Zenon, <1>1 DEF Foretold
  <2>3. QED BY Zenon, <1>1, <1>4, <2>1, <2>2 DEF ViewInv
<1>10. FlagObserved' BY Zenon, <1>1, <1>2 DEF FlagObserved
<1>11. QED BY Zenon, <1>5, <1>6, <1>7, <1>8, <1>9, <1>10

(* A heartbeat interval passes.                                            *)
LEMMA TickStep ==
    ASSUME PresenceInv, Tick
    PROVE  PresenceInv'
<1> USE DEF PresenceInv, view
<1>1. /\ due = {} /\ due' = {s \in Tab : sock[s].at \in Staying}
      /\ UNCHANGED <<member, sock, watch, shown, inbox, missed, hidden, fails>>
    BY Zenon DEF Tick
<1>2. /\ ttl \in 0..Ttl /\ ttl' \in 0..Ttl
      /\ ttl' = IF ttl > 0 THEN ttl - 1 ELSE 0
    BY Bounds DEF Tick, PresenceTypeOK
<1>3. /\ empty \in 0..Ttl /\ empty' \in 0..Ttl
      /\ empty' = IF ~Nobody THEN 0 ELSE IF empty < Ttl THEN empty + 1 ELSE Ttl
    BY Bounds DEF Tick, PresenceTypeOK
<1>4. Stayers' = Stayers BY Zenon, <1>1 DEF Stayers, There
<1>5. Nobody' = Nobody BY Zenon, <1>1 DEF Nobody, There
<1>6. fault' = (fault /\ ttl > 1) BY Zenon DEF Tick
<1>7. down' \in -1..1 BY DEF Tick, PresenceTypeOK
<1>8. PresenceTypeOK'
  <2>1. fault' \in BOOLEAN BY Zenon, <1>6
  <2>2. due' \subseteq Tab BY Zenon, <1>1
  <2>3. QED BY Zenon, <1>1, <1>2, <1>3, <1>7, <2>1, <2>2 DEF PresenceTypeOK
<1>9. KeyInv'
  <2> SUFFICES ASSUME NEW r \in Tab
               PROVE  /\ r \in Stayers /\ fails[r] <= Misses =>
                            /\ member
                            /\ ttl' + fails[r] + (IF r \in due' THEN 1 ELSE 0) >= Ttl
                      /\ r \notin Stayers => fails[r] = Excused
      BY Zenon, <1>1, <1>4 DEF KeyInv
  <2>1. fails[r] \in 0..Excused BY Zenon DEF PresenceTypeOK
  <2>2. r \in Stayers => r \in due' BY Zenon, <1>1 DEF Stayers
  <2>3. /\ r \in Stayers /\ fails[r] <= Misses => member /\ ttl + fails[r] >= Ttl
        /\ r \notin Stayers => fails[r] = Excused
      BY <1>1, <1>2, <2>1, Bounds DEF KeyInv
  <2>4. QED BY <1>2, <2>1, <2>2, <2>3, Bounds
<1>10. OwedInv'
  <2>1. ttl' > 0 => ttl > 0 /\ ttl > 1 BY <1>2, Bounds
  <2>2. ttl' > 0 /\ ~fault' => ttl > 0 /\ ~fault BY Zenon, <1>6, <2>1
  <2>3. QED BY Zenon, <1>1, <2>2 DEF OwedInv, There
<1>11. EmptyInv'
  <2>1. ~Nobody' => empty' = 0 BY Zenon, <1>3, <1>5
  <2>2. ASSUME Nobody', ttl' > 0 PROVE ttl' + empty' <= Ttl
    <3>1. Nobody /\ ttl > 0 /\ ttl' = ttl - 1 BY <1>2, <1>5, <2>2, Bounds
    <3>2. ttl + empty <= Ttl BY Zenon, <3>1 DEF EmptyInv
    <3>3. empty' = empty + 1 BY <1>2, <1>3, <3>1, <3>2, Bounds
    <3>4. QED BY <1>2, <1>3, <3>1, <3>2, <3>3, Bounds
  <2>3. QED BY Zenon, <2>1, <2>2 DEF EmptyInv
<1>12. ViewInv' BY Zenon, <1>1, <1>4, <1>5 DEF ViewInv, Foretold
<1>13. FlagObserved'
  <2>1. \A s \in Tab : sock'[s].at = "open" => s \in due'
      BY Zenon, <1>1 DEF Staying, Loop
  <2>2. QED BY Zenon, <2>1 DEF FlagObserved
<1>14. QED BY Zenon, <1>8, <1>9, <1>10, <1>11, <1>12, <1>13

(* What changes the watching tab only: it joins, reads the set of users,   *)
(* reads the keys, goes on without a list, applies an event or leaves.     *)
LEMMA WatchingStep ==
    ASSUME PresenceInv,
           UNCHANGED <<store, sock, due, hidden, down, fails, fault, empty>>,
           \/ WatchJoin \/ WatchSmembers \/ WatchMget \/ WatchEvent
           \/ WatchListFails \/ WatchLeave
    PROVE  PresenceInv'
<1> USE DEF PresenceInv, store
<1>1. Stayers' = Stayers /\ Nobody' = Nobody BY Zenon DEF Stayers, Nobody, There
<1>2. KeyInv' BY Zenon, <1>1 DEF KeyInv
<1>3. OwedInv' BY Zenon DEF OwedInv, There
<1>4. EmptyInv' BY Zenon, <1>1 DEF EmptyInv
<1>5. FlagObserved' BY Zenon DEF FlagObserved
<1>6. ASSUME /\ watch' \in {"away", "smembers", "mget", "srem", "blind", "watching"}
             /\ shown' \in BOOLEAN /\ missed' \in BOOLEAN
             /\ inbox' \in Seq({"joined", "left"}) /\ Len(inbox') <= InboxCap
      PROVE  PresenceTypeOK'
    BY Zenon, <1>6 DEF PresenceTypeOK
<1>7. CASE WatchJoin
  <2> USE <1>7 DEF WatchJoin
  <2>1. PresenceTypeOK' BY Zenon, <1>6 DEF PresenceTypeOK
  <2>2. ViewInv' BY Zenon, <1>1 DEF ViewInv, Foretold
  <2>3. QED BY Zenon, <1>2, <1>3, <1>4, <1>5, <2>1, <2>2
<1>8. CASE WatchSmembers
  <2> USE <1>8 DEF WatchSmembers
  <2>1. PresenceTypeOK' BY Zenon, <1>6 DEF PresenceTypeOK
  <2>2. ~member => \A s \in Stayers : ~(fails[s] <= Misses)
      BY Zenon DEF KeyInv, Stayers
  <2>3. watch' = "watching" => ~member BY Zenon
  <2>4. Foretold' = Foretold BY Zenon DEF Foretold
  <2>5. ViewInv' BY Zenon, <1>1, <2>2, <2>3, <2>4 DEF ViewInv
  <2>6. QED BY Zenon, <1>2, <1>3, <1>4, <1>5, <2>1, <2>5
<1>9. CASE WatchMget
  <2>1. /\ watch = "mget" /\ watch' = IF ttl > 0 THEN "watching" ELSE "srem"
        /\ shown' = (ttl > 0) /\ missed' = (missed \/ (ttl > 0 /\ fault))
        /\ inbox' = inbox
      BY Zenon, <1>9 DEF WatchMget
  <2>2. PresenceTypeOK'
    <3>1. shown' \in BOOLEAN /\ missed' \in BOOLEAN BY <2>1
    <3>2. QED BY Zenon, <1>6, <2>1, <3>1 DEF PresenceTypeOK
  <2>3. ViewInv'
    <3>1. watch' # "watching" => ~shown' BY Zenon, <2>1
    <3>2. watch' # "away" /\ (~missed' => ~missed) BY ZenonT(30), <2>1
    <3>3. ASSUME ~missed', Foretold' PROVE ~Nobody'
      <4>1. CASE inbox = <<>>
        <5>1. ttl > 0 /\ ~fault BY Zenon, <2>1, <3>3, <4>1 DEF Foretold
        <5>2. PICK s \in Tab : There(s) /\ sock[s].at \in Owing
            BY Zenon, <5>1 DEF OwedInv
        <5>3. QED BY Zenon, <1>1, <5>2 DEF Nobody, Owing, Staying, Loop
      <4>2. CASE inbox # <<>>
        BY Zenon, <1>1, <2>1, <3>2, <3>3, <4>2 DEF ViewInv, Foretold
      <4>3. QED BY Zenon, <4>1, <4>2
    <3>4. ASSUME ~missed', NEW s \in Stayers' \ hidden', sock'[s].at \in Loop,
                 inbox' # <<>> \/ (watch' = "watching" /\ fails'[s] <= Misses)
          PROVE  Foretold'
      <4>1. CASE inbox = <<>> BY Zenon, <2>1, <3>4, <4>1 DEF Foretold
      <4>2. CASE inbox # <<>>
        BY Zenon, <1>1, <2>1, <3>2, <3>4, <4>2 DEF ViewInv, Foretold
      <4>3. QED BY Zenon, <4>1, <4>2
    <3>5. QED BY Zenon, <3>1, <3>2, <3>3, <3>4 DEF ViewInv
  <2>4. QED BY Zenon, <1>2, <1>3, <1>4, <1>5, <2>2, <2>3
<1>10. CASE WatchEvent
  <2>1. /\ watch # "away" /\ watch' = "watching" /\ missed' = missed
        /\ inbox # <<>> /\ inbox' = Tail(inbox)
        /\ shown' = (Head(inbox) = "joined")
      BY Zenon, <1>10 DEF WatchEvent
  <2>2. inbox \in Seq({"joined", "left"}) /\ Len(inbox) <= InboxCap
      BY Zenon DEF PresenceTypeOK
  <2>3. /\ inbox' \in Seq({"joined", "left"}) /\ Len(inbox') = Len(inbox) - 1
        /\ Len(inbox) \in Nat /\ Len(inbox) > 0
      BY <2>1, <2>2
  <2>4. PresenceTypeOK'
    <3>1. shown' \in BOOLEAN BY Zenon, <2>1
    <3>2. Len(inbox') <= InboxCap BY <2>2, <2>3, Bounds
    <3>3. QED BY Zenon, <1>6, <2>1, <2>3, <3>1, <3>2 DEF PresenceTypeOK
  <2>5. Foretold' = Foretold
    <3>1. CASE inbox' = <<>>
      <4>1. Len(inbox) = 1 BY <2>3, <3>1
      <4>2. Head(inbox) = inbox[Len(inbox)] BY <2>1, <2>2, <4>1
      <4>3. QED BY Zenon, <2>1, <3>1, <4>2 DEF Foretold
    <3>2. CASE inbox' # <<>>
      <4>1. Len(inbox) > 1 BY <2>3, <3>2
      <4>2. inbox'[Len(inbox')] = inbox[Len(inbox)]
          BY <2>1, <2>2, <2>3, <4>1
      <4>3. QED BY Zenon, <2>1, <3>2, <4>2 DEF Foretold
    <3>3. QED BY Zenon, <3>1, <3>2
  <2>6. ViewInv' BY Zenon, <1>1, <2>1, <2>5 DEF ViewInv
  <2>7. QED BY Zenon, <1>2, <1>3, <1>4, <1>5, <2>4, <2>6
<1>11. CASE WatchLeave
  <2> USE <1>11 DEF WatchLeave
  <2>1. PresenceTypeOK'
    <3>1. inbox' \in Seq({"joined", "left"}) /\ Len(inbox') <= InboxCap
        BY Bounds
    <3>2. QED BY Zenon, <1>6, <3>1
  <2>2. ViewInv' BY Zenon DEF ViewInv
  <2>3. QED BY Zenon, <1>2, <1>3, <1>4, <1>5, <2>1, <2>2
<1>12. CASE WatchListFails
  <2> USE <1>12 DEF WatchListFails
  <2>1. PresenceTypeOK' BY Zenon, <1>6 DEF PresenceTypeOK
  <2>2. Foretold' = Foretold BY Zenon DEF Foretold
  <2>3. ViewInv' BY Zenon, <1>1, <2>2 DEF ViewInv
  <2>4. QED BY Zenon, <1>2, <1>3, <1>4, <1>5, <2>1, <2>3
<1>13. QED BY Zenon, <1>7, <1>8, <1>9, <1>10, <1>11, <1>12

(* Every step of a tab preserves the invariant.                            *)
LEMMA TabStepInv ==
    ASSUME PresenceInv, NEW s \in Tab, TabStep(s)
    PROVE  PresenceInv'
<1>0. /\ sock \in [Tab -> Socks]
      /\ sock[s].first => sock[s].at \in Starting
      /\ PresenceTypeOK
    BY Zenon DEF PresenceInv, PresenceTypeOK, OwedInv, Socks
<1>at. ASSUME NEW at \in {"smembers", "mget", "srem", "announce", "beat", "leave"},
              To(s, at)
       PROVE  /\ sock' \in [Tab -> Socks]
              /\ \A r \in Tab \ {s} : sock'[r] = sock[r]
              /\ sock'[s].chan = sock[s].chan /\ sock'[s].first = sock[s].first
              /\ sock'[s].at = at
  BY Zenon, <1>0, <1>at DEF To, Socks, Staying
<1>en. ASSUME EnterLoop(s)
       PROVE  /\ sock' \in [Tab -> Socks]
              /\ \A r \in Tab \ {s} : sock'[r] = sock[r]
              /\ sock'[s].chan = sock[s].chan /\ ~sock'[s].first
              /\ sock'[s].at = IF down = -1 THEN "open" ELSE "alert"
  <2>1. sock' = [sock EXCEPT ![s] = [sock[s] EXCEPT
                    !.at = IF down = -1 THEN "open" ELSE "alert",
                    !.first = FALSE]]
      BY Zenon, <1>0, <1>en DEF EnterLoop
  <2>2. [sock[s] EXCEPT !.at = IF down = -1 THEN "open" ELSE "alert",
                        !.first = FALSE] \in Socks
      BY ZenonT(30), <1>0 DEF Socks, Staying, Loop
  <2>3. QED BY Zenon, <1>0, <2>1, <2>2 DEF Socks
<1>1. CASE Connect(s) BY Zenon, <1>1, ConnectStep
<1>2. CASE Smembers(s)
  <2>1. PICK at \in {"mget", "announce"} : To(s, at) BY Zenon, <1>2 DEF Smembers
  <2>2. sock[s].at = "smembers" BY Zenon, <1>2 DEF Smembers
  <2>3. UNCHANGED <<store, due, view, hidden, down, fails, fault, empty>>
      BY Zenon, <1>2 DEF Smembers
  <2>4. QED BY Zenon, <1>at, <2>1, <2>2, <2>3, ShiftStep DEF Starting, Staying, Loop
<1>3. CASE Mget(s)
  <2>1. PICK at \in {"srem", "announce"} : To(s, at) BY Zenon, <1>3 DEF Mget
  <2>2. sock[s].at = "mget" BY Zenon, <1>3 DEF Mget
  <2>3. UNCHANGED <<store, due, view, hidden, down, fails, fault, empty>>
      BY Zenon, <1>3 DEF Mget
  <2>4. QED BY Zenon, <1>at, <2>1, <2>2, <2>3, ShiftStep DEF Starting, Staying, Loop
<1>4. CASE Srem(s)
  <2>1. To(s, "announce") /\ sock[s].at = "srem" BY Zenon, <1>4 DEF Srem
  <2>2. /\ member' = FALSE /\ Excuse(Stayers)
        /\ UNCHANGED <<ttl, due, watch, shown, inbox, missed, hidden, down, fault,
                       empty>>
      BY Zenon, <1>4 DEF Srem, view
  <2>3. QED BY Zenon, <1>at, <2>1, <2>2, PurgeStep
<1>5. CASE SyncFails(s)
  <2>1. /\ sock[s].at \in {"smembers", "mget", "srem"} /\ UNCHANGED store
      BY Zenon, <1>5 DEF SyncFails
  <2>2. CASE sock[s].first /\ Vanish(s, TRUE)
    BY Zenon, <2>1, <2>2, VanishStep
  <2>3. CASE /\ ~sock[s].first /\ To(s, "announce")
             /\ UNCHANGED <<due, view, hidden, down, fails, fault, empty>>
    BY Zenon, <1>at, <2>1, <2>3, ShiftStep DEF Starting, Staying, Loop
  <2>4. QED BY Zenon, <1>5, <2>2, <2>3 DEF SyncFails
<1>6. CASE Heartbeat(s)
  <2>1. sock[s].at \in Loop /\ UNCHANGED <<store, view, down, fault, empty>>
      BY Zenon, <1>6 DEF Heartbeat
  <2>2. ~sock[s].first BY Zenon, <1>0, <2>1 DEF Starting, Loop
  <2>3. CASE To(s, "beat") /\ UNCHANGED <<due, fails, hidden>>
    BY Zenon, <1>at, <2>1, <2>2, <2>3, ShiftStep DEF Staying, Loop
  <2>4. CASE To(s, "leave") /\ Quit(s)
    BY Zenon, <1>at, <2>1, <2>4, DepartStep
  <2>5. CASE /\ EnterLoop(s)
             /\ due' = due \ {s} /\ fails' = Missing(s) /\ UNCHANGED hidden
    BY Zenon, <1>en, <2>1, <2>5, ShiftStep DEF Staying, Loop
  <2>6. QED BY Zenon, <1>6, <2>3, <2>4, <2>5 DEF Heartbeat
<1>7. CASE OtherEvent(s)
  <2>1. /\ sock[s].at = "open" /\ EnterLoop(s)
        /\ UNCHANGED <<store, due, view, hidden, down, fails, fault, empty>>
      BY Zenon, <1>7 DEF OtherEvent
  <2>2. QED BY Zenon, <1>en, <2>1, ShiftStep DEF Staying, Loop
<1>8. CASE Break(s)
  BY Zenon, <1>at, <1>8, DepartStep DEF Break
<1>9. CASE Die(s)
  <2>1. /\ sock[s].at # "closed" /\ UNCHANGED store
        /\ Vanish(s, sock[s].at \in Owing)
      BY Zenon, <1>9 DEF Die, Owing
  <2>2. CASE sock[s].at \in Owing
    <3>1. Vanish(s, TRUE) BY Zenon, <2>1, <2>2 DEF Vanish
    <3>2. QED BY Zenon, <2>1, <3>1, VanishStep
  <2>3. CASE sock[s].at \notin Owing
    <3>1. Vanish(s, FALSE) BY Zenon, <2>1, <2>3 DEF Vanish
    <3>2. QED BY Zenon, <2>1, <2>3, <3>1, VanishStep
  <2>4. QED BY Zenon, <2>2, <2>3
<1>10. ASSUME NEW c \in Channel, SwitchTo(s, c) PROVE PresenceInv'
  <2>1. /\ sock' \in [Tab -> Socks]
        /\ \A r \in Tab \ {s} : sock'[r] = sock[r]
        /\ sock'[s].chan = sock[s].chan /\ sock'[s].first = sock[s].first
        /\ sock'[s].at = "depart"
      BY Zenon, <1>0, <1>10 DEF SwitchTo, Socks
  <2>2. /\ sock[s].at \in Loop /\ Quit(s)
        /\ UNCHANGED <<store, view, down, fault, empty>>
      BY Zenon, <1>10 DEF SwitchTo
  <2>3. QED BY Zenon, <2>1, <2>2, DepartStep
<1>11. ASSUME NEW outcome \in {"ok", "lost", "failed"}, Refresh(s, outcome)
       PROVE  PresenceInv'
  <2>1. /\ sock[s].at \in {"enter", "beat"}
        /\ IF There(s) /\ outcome # "failed" THEN RefreshPresence
                                             ELSE UNCHANGED store
      BY Zenon, <1>11 DEF Refresh
  <2>2. CASE sock[s].first /\ outcome # "ok" /\ Vanish(s, outcome = "lost")
    <3>1. sock[s].at \notin Owing
        BY Zenon, <1>0, <2>1, <2>2 DEF Starting, Owing, Staying, Loop
    <3>2. \/ UNCHANGED store
          \/ There(s) /\ outcome = "lost" /\ RefreshPresence
        BY Zenon, <2>1, <2>2
    <3>3. QED BY ZenonT(30), <2>1, <2>2, <3>1, <3>2, VanishStep
  <2>3. CASE ~(sock[s].first /\ outcome # "ok" /\ Vanish(s, outcome = "lost"))
    <3>1. /\ To(s, IF sock[s].at = "enter" THEN "smembers" ELSE "announce")
          /\ fails' = IF outcome = "failed" THEN Missing(s)
                      ELSE [fails EXCEPT ![s] = IF There(s) THEN 0 ELSE Excused]
          /\ due' = due \ {s}
          /\ UNCHANGED <<view, hidden, down, fault, empty>>
        BY Zenon, <1>11, <2>3 DEF Refresh
    <3>2. QED BY Zenon, <2>1, <3>1, RefreshStep
  <2>4. QED BY Zenon, <2>2, <2>3
<1>12. ASSUME NEW heard \in BOOLEAN, Announce(s, heard) PROVE PresenceInv'
  BY Zenon, <1>12, AnnounceStep
<1>13. ASSUME NEW done \in BOOLEAN, Remove(s, done) PROVE PresenceInv'
  BY Zenon, <1>13, RemoveStep
<1>14. ASSUME NEW heard \in BOOLEAN, Farewell(s, heard) PROVE PresenceInv'
  <2>1. PICK at \in {"enter", "leave"} :
            sock' = [sock EXCEPT ![s].at = at, ![s].chan = sock[s].to,
                                 ![s].to = Main]
      BY Zenon, <1>14 DEF Farewell
  <2>2. /\ sock' \in [Tab -> Socks]
        /\ \A r \in Tab \ {s} : sock'[r] = sock[r]
        /\ sock'[s].at = at /\ sock'[s].chan = sock[s].to
        /\ sock'[s].first = sock[s].first
      BY ZenonT(30), <1>0, <2>1, ChannelAssumption DEF Socks
  <2>3. /\ sock[s].at = "farewell" /\ Broadcast(s, "left", heard)
        /\ empty' = IF sock[s].to = Room THEN 0 ELSE empty
        /\ UNCHANGED <<store, due, down, fails, fault>>
      BY Zenon, <1>14 DEF Farewell
  <2>4. ~sock'[s].first BY Zenon, <1>0, <2>2, <2>3 DEF Starting
  <2>5. QED BY Zenon, <2>2, <2>3, <2>4, LeftStep
<1>15. ASSUME NEW heard \in BOOLEAN, Bye(s, heard) PROVE PresenceInv'
  <2>1. Gone \in Socks /\ Gone.at = "closed" /\ ~Gone.first
      BY Zenon, ChannelAssumption DEF Gone, Socks
  <2>2. /\ sock' \in [Tab -> Socks] /\ sock'[s] = Gone
        /\ \A r \in Tab \ {s} : sock'[r] = sock[r]
      BY Zenon, <1>0, <1>15, <2>1 DEF Bye
  <2>3. /\ sock[s].at = "bye" /\ Broadcast(s, "left", heard)
        /\ UNCHANGED <<store, due, down, fails, fault, empty>>
      BY Zenon, <1>15 DEF Bye
  <2>4. QED BY Zenon, <2>1, <2>2, <2>3, LeftStep
<1>16. QED
  BY Zenon, <1>1, <1>2, <1>3, <1>4, <1>5, <1>6, <1>7, <1>8, <1>9, <1>10, <1>11, <1>12,
     <1>13, <1>14, <1>15 DEF TabStep

(* Every step of the tabs, of the watching tab, of the shutdown and of the *)
(* clock preserves it.                                                     *)
LEMMA PresenceStepInv == PresenceInv /\ [PresenceNext]_presenceVars => PresenceInv'
<1> SUFFICES ASSUME PresenceInv, [PresenceNext]_presenceVars
             PROVE  PresenceInv'
    BY Zenon
<1>1. ASSUME NEW s \in Tab, TabStep(s) PROVE PresenceInv' BY Zenon, <1>1, TabStepInv
<1>2. CASE WatchStep
  <2>1. CASE WatchSrem
    BY Zenon, <2>1, PurgeStep DEF WatchSrem, PresenceInv, PresenceTypeOK, Socks
  <2>2. CASE \/ WatchJoin \/ WatchSmembers \/ WatchMget \/ WatchEvent
             \/ WatchListFails \/ WatchLeave
    <3>1. UNCHANGED <<store, sock, due, hidden, down, fails, fault, empty>>
        BY Zenon, <2>2
        DEF WatchJoin, WatchSmembers, WatchMget, WatchEvent, WatchListFails,
            WatchLeave
    <3>2. QED BY Zenon, <2>2, <3>1, WatchingStep
  <2>3. QED BY Zenon, <1>2, <2>1, <2>2 DEF WatchStep
<1>3. CASE Shutdown \/ UNCHANGED presenceVars
  <2>1. /\ UNCHANGED <<member, ttl, sock, due, watch, shown, inbox, missed, hidden,
                       fails, fault, empty>>
        /\ down' = down \/ down' = 0
      BY Zenon, <1>3 DEF Shutdown, presenceVars, store, view
  <2>2. Stayers' = Stayers /\ Nobody' = Nobody
      BY Zenon, <2>1 DEF Stayers, Nobody, There
  <2>3. PresenceTypeOK' BY <2>1 DEF PresenceInv, PresenceTypeOK
  <2>4. KeyInv' BY Zenon, <2>1, <2>2 DEF PresenceInv, KeyInv
  <2>5. OwedInv' BY Zenon, <2>1 DEF PresenceInv, OwedInv, There
  <2>6. EmptyInv' BY Zenon, <2>1, <2>2 DEF PresenceInv, EmptyInv
  <2>7. ViewInv' BY Zenon, <2>1, <2>2 DEF PresenceInv, ViewInv, Foretold
  <2>8. FlagObserved' BY <2>1 DEF PresenceInv, FlagObserved
  <2>9. QED BY Zenon, <2>3, <2>4, <2>5, <2>6, <2>7, <2>8 DEF PresenceInv
<1>4. CASE Tick BY Zenon, <1>4, TickStep
<1>5. QED BY Zenon, <1>1, <1>2, <1>3, <1>4 DEF PresenceNext

(* It holds in every reachable state of the presence protocol.             *)
THEOREM PresenceInvariant == PresenceSpec => []PresenceInv
BY PresenceInitInv, PresenceStepInv, PTL DEF PresenceSpec

(* A tab whose heartbeats fail at most Misses times in a row stays listed  *)
(* (refresh_presence and the Heartbeat arm).                               *)
THEOREM PresentAlways == PresenceSpec => []PresentUnlessDisturbed
BY PresenceInvariant, PresenceInvImplies, PTL

(* Entries without a tab expire (PRESENCE_TTL_SECONDS).                    *)
THEOREM GhostsExpireAlways == PresenceSpec => []GhostsExpire
BY PresenceInvariant, PresenceInvImplies, PTL

(* The events and the list agree on who is there (ParticipantJoined,       *)
(* ParticipantLeft and sync_presence).                                     *)
THEOREM ViewFollowsAlways == PresenceSpec => []ViewFollows
BY PresenceInvariant, PresenceInvImplies, PTL

(* A socket that has had its heartbeat watches the shutdown flag.          *)
THEOREM FlagObservedAlways == PresenceSpec => []FlagObserved
<1>1. PresenceInv => FlagObserved BY Zenon DEF PresenceInv
<1>2. QED BY <1>1, PresenceInvariant, PTL
=============================================================================
