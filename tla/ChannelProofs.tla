--------------------------- MODULE ChannelProofs ----------------------------
(***************************************************************************)
(* Proofs about what the users of a channel share: the conversation of two *)
(* users, the reactions to a message, who may post and the membership of a *)
(* private channel.                                                        *)
(***************************************************************************)
EXTENDS Direct, Reactions, Posting, Membership, TLAPS
-----------------------------------------------------------------------------
(* Two users meet in one conversation, for any number of rows and of       *)
(* requests.  At most one request has inserted a row, and only while none  *)
(* is live, so that its commit cannot make a second one; whoever is not a  *)
(* member when an open commits left after it looked.                       *)

Visits == [at : {"idle", "insert", "select", "members", "commit", "leave"},
           row : Row \union {NoRow}, new : BOOLEAN, who : SUBSET Peer,
           adds : SUBSET Peer, since : SUBSET Peer]

(* The partial unique index of direct_key, uncommitted rows included.      *)
IndexInv ==
    /\ \A c, d \in Live : c = d
    /\ \A v, w \in Inserting : v = w
    /\ Inserting # {} => Live = {}

(* The row of a request: not visible before the commit of the request that *)
(* inserted it, and committed otherwise.                                   *)
VisitInv ==
    \A v \in Visit :
        /\ visit[v].at \in {"members", "commit", "leave"} => visit[v].row \in Row
        /\ visit[v].new =>
            visit[v].at \in {"members", "commit"} /\ row[visit[v].row] = "none"
        /\ visit[v].at \in {"members", "commit", "leave"} /\ ~visit[v].new =>
            row[visit[v].row] # "none"

(* Who is missing when an open commits has left since it looked, and not   *)
(* from a row that nobody has seen yet.                                    *)
MembersInv ==
    /\ \A v \in Visit : visit[v].at = "commit" =>
        /\ Peer \subseteq inside[visit[v].row] \union visit[v].adds
                            \union visit[v].since
        /\ visit[v].new => Peer \subseteq inside[visit[v].row] \union visit[v].adds
    /\ \A d \in Row : row[d] # "none" => Peer \ inside[d] \subseteq away[d]

DirectInv == DirectTypeOK /\ IndexInv /\ VisitInv /\ MembersInv

(* It holds before the first open.                                         *)
LEMMA DirectInitInv == DirectInit => DirectInv
<1> SUFFICES ASSUME DirectInit PROVE DirectInv
    BY Zenon
<1> USE DEF DirectInit
<1>1. NoVisit \in Visits BY Zenon DEF NoVisit, Visits
<1>2. DirectTypeOK BY Zenon, <1>1 DEF DirectTypeOK, Visits
<1>3. IndexInv BY Zenon DEF IndexInv, Live, Inserting, NoVisit
<1>4. VisitInv BY Zenon DEF VisitInv, NoVisit
<1>5. MembersInv BY Zenon DEF MembersInv, NoVisit
<1>6. QED BY Zenon, <1>2, <1>3, <1>4, <1>5 DEF DirectInv

(* Every statement of open_direct, of a departure, of a deletion and of an *)
(* undeletion preserves it.                                                *)
LEMMA DirectStepInv == DirectInv /\ [DirectNext]_directVars => DirectInv'
<1> SUFFICES ASSUME DirectInv, [DirectNext]_directVars
             PROVE  DirectInv'
    BY Zenon
<1>0. DirectTypeOK /\ IndexInv /\ VisitInv /\ MembersInv BY Zenon DEF DirectInv
<1>n. NoVisit \in Visits /\ NoVisit.at = "idle" /\ ~NoVisit.new
    BY Zenon DEF NoVisit, Visits
<1>1. ASSUME NEW v \in Visit, OpenDirect(v) PROVE DirectInv'
  <2> USE <1>0, <1>1 DEF OpenDirect, Advance
  <2>1. DirectTypeOK' BY ZenonT(30) DEF DirectTypeOK
  <2>2. IndexInv' BY DEF IndexInv, Live, Inserting, DirectTypeOK
  <2>3. VisitInv' BY DEF VisitInv, DirectTypeOK
  <2>4. MembersInv' BY DEF MembersInv, DirectTypeOK
  <2>5. QED BY Zenon, <2>1, <2>2, <2>3, <2>4 DEF DirectInv
<1>2. ASSUME NEW v \in Visit, InsertRow(v) PROVE DirectInv'
  <2>0. /\ visit[v].at = "insert" /\ Inserting = {}
        /\ row' = row /\ inside' = inside /\ away' = away
      BY Zenon, <1>2 DEF InsertRow
  <2>1. CASE Live # {} /\ Advance(v, "select")
    <3> USE <1>0, <2>0, <2>1 DEF Advance
    <3>1. DirectTypeOK' BY DEF DirectTypeOK
    <3>2. IndexInv' BY DEF IndexInv, Live, Inserting, DirectTypeOK
    <3>3. VisitInv' BY DEF VisitInv, DirectTypeOK
    <3>4. MembersInv' BY DEF MembersInv, DirectTypeOK
    <3>5. QED BY Zenon, <3>1, <3>2, <3>3, <3>4 DEF DirectInv
  <2>2. ASSUME Live = {}, NEW d \in Row, row[d] = "none",
               visit' = [visit EXCEPT ![v].at = "members", ![v].row = d,
                                      ![v].new = TRUE]
        PROVE  DirectInv'
    <3>1. [visit[v] EXCEPT !.at = "members", !.row = d, !.new = TRUE] \in Visits
        BY Zenon, <1>0 DEF DirectTypeOK, Visits
    <3>2. visit' \in [Visit -> Visits] BY <1>0, <2>2, <3>1 DEF DirectTypeOK, Visits
    <3>3. DirectTypeOK' BY Zenon, <1>0, <2>0, <3>2 DEF DirectTypeOK, Visits
    <3>4. /\ visit'[v].at = "members" /\ visit'[v].row = d /\ visit'[v].new
          /\ \A w \in Visit \ {v} : visit'[w] = visit[w]
        BY <1>0, <2>2 DEF DirectTypeOK
    <3>5. Inserting' = {v} BY Zenon, <2>0, <3>4 DEF Inserting
    <3>6. IndexInv' BY Zenon, <1>0, <2>0, <2>2, <3>5 DEF IndexInv, Live
    <3>7. VisitInv' BY ZenonT(30), <1>0, <2>0, <2>2, <3>4 DEF VisitInv
    <3>8. MembersInv' BY <1>0, <2>0, <3>4 DEF MembersInv
    <3>9. QED BY Zenon, <3>3, <3>6, <3>7, <3>8 DEF DirectInv
  <2>3. QED BY ZenonT(30), <1>2, <2>1, <2>2 DEF InsertRow
<1>3. ASSUME NEW v \in Visit, SelectRow(v) PROVE DirectInv'
  <2>0. /\ visit[v].at = "select" /\ ~visit[v].new
        /\ row' = row /\ inside' = inside /\ away' = away
      BY Zenon, <1>0, <1>3 DEF SelectRow, VisitInv
  <2>1. CASE visit' = [visit EXCEPT ![v] = NoVisit]
    <3> USE <1>0, <1>n, <2>0, <2>1
    <3>1. DirectTypeOK' BY Zenon DEF DirectTypeOK, Visits
    <3>2. IndexInv' BY DEF IndexInv, Live, Inserting, DirectTypeOK
    <3>3. VisitInv' BY Zenon DEF VisitInv, DirectTypeOK
    <3>4. MembersInv' BY DEF MembersInv, DirectTypeOK
    <3>5. QED BY Zenon, <3>1, <3>2, <3>3, <3>4 DEF DirectInv
  <2>2. ASSUME NEW d \in Live,
               visit' = [visit EXCEPT ![v].at = "members", ![v].row = d]
        PROVE  DirectInv'
    <3>0. d \in Row /\ row[d] = "live" BY Zenon DEF Live
    <3>1. [visit[v] EXCEPT !.at = "members", !.row = d] \in Visits
        BY ZenonT(30), <1>0, <3>0 DEF DirectTypeOK, Visits
    <3>2. visit' \in [Visit -> Visits] BY <1>0, <2>2, <3>1 DEF DirectTypeOK, Visits
    <3>3. DirectTypeOK' BY Zenon, <1>0, <2>0, <3>2 DEF DirectTypeOK, Visits
    <3>4. /\ visit'[v].at = "members" /\ visit'[v].row = d /\ ~visit'[v].new
          /\ \A w \in Visit \ {v} : visit'[w] = visit[w]
        BY <1>0, <2>0, <2>2 DEF DirectTypeOK
    <3>5. Inserting' = Inserting BY Zenon, <2>0, <3>4 DEF Inserting
    <3>6. IndexInv' BY Zenon, <1>0, <2>0, <3>5 DEF IndexInv, Live
    <3>7. VisitInv' BY <1>0, <2>0, <3>0, <3>4 DEF VisitInv
    <3>8. MembersInv' BY Zenon, <1>0, <2>0, <3>4 DEF MembersInv
    <3>9. QED BY Zenon, <3>3, <3>6, <3>7, <3>8 DEF DirectInv
  <2>3. QED BY Zenon, <1>3, <2>1, <2>2 DEF SelectRow
<1>4. ASSUME NEW v \in Visit, AddMembers(v) PROVE DirectInv'
  <2> DEFINE more == Peer \ inside[visit[v].row]
  <2>0. /\ visit[v].at = "members"
        /\ visit' = [visit EXCEPT ![v].at = "commit", ![v].adds = more]
        /\ row' = row /\ inside' = inside /\ away' = away
      BY Zenon, <1>4 DEF AddMembers
  <2>1. DirectTypeOK'
    <3>1. [visit[v] EXCEPT !.at = "commit", !.adds = more] \in Visits
        BY ZenonT(30), <1>0 DEF DirectTypeOK, Visits
    <3>2. visit' \in [Visit -> Visits] BY <1>0, <2>0, <3>1 DEF DirectTypeOK, Visits
    <3>3. QED BY Zenon, <1>0, <2>0, <3>2 DEF DirectTypeOK, Visits
  <2>2. IndexInv' BY <1>0, <2>0 DEF IndexInv, Live, Inserting, DirectTypeOK
  <2>3. VisitInv' BY <1>0, <2>0 DEF VisitInv, DirectTypeOK
  <2>4. MembersInv' BY <1>0, <2>0 DEF MembersInv, VisitInv, DirectTypeOK
  <2>5. QED BY Zenon, <2>1, <2>2, <2>3, <2>4 DEF DirectInv
<1>5. ASSUME NEW v \in Visit, CommitOpen(v) PROVE DirectInv'
  <2> DEFINE d == visit[v].row
  <2>1. d \in Row BY Zenon, <1>0, <1>5 DEF CommitOpen, VisitInv
  <2>2. DirectTypeOK'
      BY Zenon, <1>0, <1>5, <1>n, <2>1 DEF CommitOpen, DirectTypeOK, Visits
  <2>3. Inserting' = Inserting \ {v}
      BY Zenon, <1>0, <1>5, <1>n DEF CommitOpen, Inserting, DirectTypeOK
  <2>4. Live' = IF visit[v].new THEN Live \union {d} ELSE Live
      BY <1>0, <1>5, <2>1 DEF CommitOpen, Live, DirectTypeOK
  <2>5. IndexInv' BY Zenon, <1>0, <2>3, <2>4 DEF IndexInv, Inserting
  <2>6. VisitInv'
    <3>1. \A w \in Visit : w # v /\ visit[w].new => ~visit[v].new
        BY Zenon, <1>0 DEF IndexInv, Inserting
    <3>2. QED BY Zenon, <1>0, <1>5, <1>n, <2>1, <3>1
              DEF CommitOpen, VisitInv, DirectTypeOK
  <2>7. MembersInv'
    <3>1. ASSUME NEW w \in Visit, visit'[w].at = "commit"
          PROVE  /\ Peer \subseteq inside'[visit'[w].row] \union visit'[w].adds
                                    \union visit'[w].since
                 /\ visit'[w].new =>
                        Peer \subseteq inside'[visit'[w].row] \union visit'[w].adds
      <4>1. w # v /\ visit'[w] = visit[w]
          BY Zenon, <1>0, <1>5, <1>n, <3>1 DEF CommitOpen, DirectTypeOK
      <4>2. visit[w].row \in Row BY Zenon, <1>0, <3>1, <4>1 DEF VisitInv
      <4>3. inside[visit[w].row] \subseteq inside'[visit[w].row]
          BY Zenon, <1>0, <1>5, <4>2 DEF CommitOpen, DirectTypeOK
      <4>4. QED BY Zenon, <1>0, <3>1, <4>1, <4>3 DEF MembersInv
    <3>2. ASSUME NEW c \in Row, row'[c] # "none"
          PROVE  Peer \ inside'[c] \subseteq away'[c]
      <4>1. CASE c = d
        <5>1. /\ inside'[d] = inside[d] \union visit[v].adds
              /\ away'[d] = away[d] \intersect visit[v].since
            BY Zenon, <1>0, <1>5, <2>1 DEF CommitOpen, DirectTypeOK
        <5>2. Peer \subseteq inside'[d] \union visit[v].since
            BY Zenon, <1>0, <1>5, <5>1 DEF MembersInv, CommitOpen
        <5>3. CASE visit[v].new
            BY Zenon, <1>0, <1>5, <4>1, <5>1, <5>3 DEF MembersInv, CommitOpen
        <5>4. CASE ~visit[v].new
          <6>1. Peer \ inside[d] \subseteq away[d]
              BY Zenon, <1>0, <1>5, <2>1, <5>4 DEF MembersInv, VisitInv, CommitOpen
          <6>2. QED BY Zenon, <4>1, <5>1, <5>2, <6>1
        <5>5. QED BY Zenon, <5>3, <5>4
      <4>2. CASE c # d
        <5>1. row'[c] = row[c] /\ inside'[c] = inside[c] /\ away'[c] = away[c]
            BY Zenon, <1>0, <1>5, <2>1, <4>2 DEF CommitOpen, DirectTypeOK
        <5>2. QED BY Zenon, <1>0, <3>2, <5>1 DEF MembersInv
      <4>3. QED BY Zenon, <4>1, <4>2
    <3>3. QED BY Zenon, <3>1, <3>2 DEF MembersInv
  <2>8. QED BY Zenon, <2>2, <2>5, <2>6, <2>7 DEF DirectInv
<1>6. ASSUME NEW v \in Visit, AbortVisit(v) PROVE DirectInv'
  <2> USE <1>0, <1>n, <1>6 DEF AbortVisit
  <2>1. DirectTypeOK' BY Zenon DEF DirectTypeOK, Visits
  <2>2. IndexInv' BY Zenon DEF IndexInv, Live, Inserting, DirectTypeOK
  <2>3. VisitInv' BY Zenon DEF VisitInv, DirectTypeOK
  <2>4. MembersInv' BY Zenon DEF MembersInv, DirectTypeOK
  <2>5. QED BY Zenon, <2>1, <2>2, <2>3, <2>4 DEF DirectInv
<1>7. ASSUME NEW v \in Visit, NEW u \in Peer, NEW d \in Row, LeaveDirect(v, u, d)
      PROVE  DirectInv'
  <2> USE <1>0, <1>7 DEF LeaveDirect
  <2>1. DirectTypeOK'
    <3>1. [visit[v] EXCEPT !.at = "leave", !.row = d, !.who = {u}] \in Visits
        BY ZenonT(30) DEF DirectTypeOK, Visits
    <3>2. visit' \in [Visit -> Visits] BY <3>1 DEF DirectTypeOK, Visits
    <3>3. QED BY Zenon, <3>2 DEF DirectTypeOK, Visits
  <2>2. ~visit[v].new BY Zenon DEF VisitInv
  <2>3. IndexInv' BY DEF IndexInv, Live, Inserting, DirectTypeOK
  <2>4. VisitInv' BY <2>2 DEF VisitInv, DirectTypeOK, Live
  <2>5. MembersInv' BY DEF MembersInv, DirectTypeOK
  <2>6. QED BY Zenon, <2>1, <2>3, <2>4, <2>5 DEF DirectInv
<1>8. ASSUME NEW v \in Visit, LeaveDirectCommit(v) PROVE DirectInv'
  <2> DEFINE d == visit[v].row
             gone == visit[v].who \intersect inside[d]
  <2>1. d \in Row /\ ~visit[v].new /\ row[d] # "none"
      BY Zenon, <1>0, <1>8 DEF LeaveDirectCommit, VisitInv
  <2>2. /\ inside' = [inside EXCEPT ![d] = @ \ gone]
        /\ away' = [away EXCEPT ![d] = @ \union gone]
        /\ visit' = [w \in Visit |->
                IF w = v THEN NoVisit
                ELSE IF visit[w].at = "commit" /\ visit[w].row = d
                THEN [visit[w] EXCEPT !.since = @ \union gone]
                ELSE visit[w]]
        /\ row' = row
      BY Zenon, <1>8 DEF LeaveDirectCommit
  <2>3. gone \subseteq Peer /\ gone \subseteq inside[d]
      BY Zenon, <1>0, <2>1 DEF DirectTypeOK
  <2> HIDE DEF gone
  <2>4. DirectTypeOK'
    <3>1. visit' \in [Visit -> Visits]
        BY ZenonT(30), <1>0, <1>n, <2>2, <2>3 DEF DirectTypeOK, Visits
    <3>2. inside' \in [Row -> SUBSET Peer] BY Zenon, <1>0, <2>2 DEF DirectTypeOK
    <3>3. away' \in [Row -> SUBSET Peer] BY Zenon, <1>0, <2>2, <2>3 DEF DirectTypeOK
    <3>4. QED BY Zenon, <1>0, <2>2, <3>1, <3>2, <3>3 DEF DirectTypeOK, Visits
  <2>5. \A w \in Visit :
            \/ visit'[w] = NoVisit
            \/ /\ visit'[w].at = visit[w].at /\ visit'[w].row = visit[w].row
               /\ visit'[w].new = visit[w].new /\ visit'[w].adds = visit[w].adds
               /\ visit[w].since \subseteq visit'[w].since
               /\ visit[w].at = "commit" /\ visit[w].row = d =>
                    gone \subseteq visit'[w].since
      BY <1>0, <2>2 DEF DirectTypeOK
  <2>6. IndexInv' BY <1>0, <1>n, <2>2, <2>5 DEF IndexInv, Live, Inserting
  <2>7. VisitInv' BY <1>0, <1>n, <2>2, <2>5 DEF VisitInv
  <2>8. MembersInv'
    <3>1. ASSUME NEW w \in Visit, visit'[w].at = "commit"
          PROVE  /\ Peer \subseteq inside'[visit'[w].row] \union visit'[w].adds
                                    \union visit'[w].since
                 /\ visit'[w].new =>
                        Peer \subseteq inside'[visit'[w].row] \union visit'[w].adds
      <4> DEFINE e == visit[w].row
      <4>1. /\ visit[w].at = "commit" /\ visit'[w].row = e
            /\ visit'[w].new = visit[w].new /\ visit'[w].adds = visit[w].adds
            /\ visit[w].since \subseteq visit'[w].since
            /\ e = d => gone \subseteq visit'[w].since
          BY Zenon, <1>n, <2>5, <3>1
      <4>2. e \in Row BY Zenon, <1>0, <4>1 DEF VisitInv
      <4>3. inside'[e] = IF e = d THEN inside[e] \ gone ELSE inside[e]
          BY Zenon, <1>0, <2>2, <4>2 DEF DirectTypeOK
      <4>4. Peer \subseteq inside[e] \union visit[w].adds \union visit[w].since
          BY Zenon, <1>0, <4>1 DEF MembersInv
      <4>5. visit[w].new => e # d BY Zenon, <1>0, <2>1 DEF VisitInv
      <4>6. visit[w].new => Peer \subseteq inside[e] \union visit[w].adds
          BY Zenon, <1>0, <4>1 DEF MembersInv
      <4> HIDE DEF e, d
      <4>7. QED BY Zenon, <4>1, <4>3, <4>4, <4>5, <4>6
    <3>2. ASSUME NEW c \in Row, row'[c] # "none"
          PROVE  Peer \ inside'[c] \subseteq away'[c]
      <4>1. /\ inside'[c] = IF c = d THEN inside[c] \ gone ELSE inside[c]
            /\ away'[c] = IF c = d THEN away[c] \union gone ELSE away[c]
          BY Zenon, <1>0, <2>2 DEF DirectTypeOK
      <4>2. Peer \ inside[c] \subseteq away[c]
          BY Zenon, <1>0, <2>2, <3>2 DEF MembersInv
      <4>3. QED BY Zenon, <4>1, <4>2
    <3>3. QED BY Zenon, <3>1, <3>2 DEF MembersInv
  <2>9. QED BY Zenon, <2>4, <2>6, <2>7, <2>8 DEF DirectInv
<1>9. ASSUME NEW d \in Row, DeleteDirect(d) PROVE DirectInv'
  <2> USE <1>0, <1>9 DEF DeleteDirect, Live
  <2>1. DirectTypeOK' BY Zenon DEF DirectTypeOK
  <2>2. IndexInv' BY Zenon DEF IndexInv, Inserting, DirectTypeOK
  <2>3. VisitInv' BY Zenon DEF VisitInv, DirectTypeOK
  <2>4. MembersInv' BY Zenon DEF MembersInv, DirectTypeOK
  <2>5. QED BY Zenon, <2>1, <2>2, <2>3, <2>4 DEF DirectInv
<1>10. ASSUME NEW d \in Row, UndeleteDirect(d) PROVE DirectInv'
  <2> USE <1>0, <1>10 DEF UndeleteDirect
  <2>1. DirectTypeOK' BY Zenon DEF DirectTypeOK
  <2>2. IndexInv' BY Zenon DEF IndexInv, Live, Inserting, DirectTypeOK
  <2>3. VisitInv' BY Zenon DEF VisitInv, DirectTypeOK
  <2>4. MembersInv' BY Zenon DEF MembersInv, DirectTypeOK
  <2>5. QED BY Zenon, <2>1, <2>2, <2>3, <2>4 DEF DirectInv
<1>11. CASE UNCHANGED directVars
  BY <1>0, <1>11 DEF directVars, DirectInv, DirectTypeOK, IndexInv, Live,
                     Inserting, VisitInv, MembersInv
<1>12. QED
  BY Zenon, <1>1, <1>2, <1>3, <1>4, <1>5, <1>6, <1>7, <1>8, <1>9, <1>10, <1>11
     DEF DirectNext

(* Two users have one live conversation at most, and are its members       *)
(* unless they left after the last open of it (open_direct).               *)
THEOREM PeersMeetAlways == DirectSpec => []PeersMeet
<1>1. DirectInv => PeersMeet
    BY Zenon DEF DirectInv, IndexInv, MembersInv, PeersMeet
<1>2. QED BY <1>1, DirectInitInv, DirectStepInv, PTL DEF DirectSpec
-----------------------------------------------------------------------------
(* The reactions a browser shows are those of the database, for any number *)
(* of users and requests.  A list is read after the request's own write,   *)
(* so it can only be out of date about the users of other requests that    *)
(* were under way with it.                                                 *)

(* What is known while requests are under way: a list that is read differs *)
(* from the rows only in the users of these requests, and not at all when  *)
(* none overlapped; what is shown differs in these users and the doubtful  *)
(* ones (AddReaction, RemoveReaction and broadcast_reaction).              *)
UnderWayInv ==
    /\ \A p \in Press : press[p].at = "publish" =>
          \A u \in Fan \ touched : u \in press[p].saw <=> u \in fans
    /\ ~crowded =>
          /\ \A p, q \in Pressed : p = q
          /\ \A p \in Press : press[p].at = "publish" => press[p].saw = fans
    /\ \A u \in Fan \ (touched \union doubt) : u \in listed <=> u \in fans
    /\ Pressed = {} => touched = {}

ReactionsInv == ReactionsTypeOK /\ UnderWayInv

(* It holds before the first reaction to the message.                      *)
LEMMA ReactionsInitInv == ReactionsInit => ReactionsInv
<1> SUFFICES ASSUME ReactionsInit PROVE ReactionsInv
    BY Zenon
<1> USE DEF ReactionsInit, NoPress
<1>1. NoPress \in [at : {"idle", "read", "publish"}, saw : SUBSET Fan]
    BY Zenon
<1>2. ReactionsTypeOK BY Zenon, <1>1 DEF ReactionsTypeOK
<1>3. \A p \in Press : press[p].at = "idle" BY Zenon
<1>4. Pressed = {} BY <1>3 DEF Pressed
<1>5. UnderWayInv BY <1>3, <1>4 DEF UnderWayInv
<1>6. QED BY Zenon, <1>2, <1>5 DEF ReactionsInv

(* The end of a request leaves the other ones as they are, and the last    *)
(* one leaves none.                                                        *)
LEMMA FinishEnds ==
    ASSUME ReactionsTypeOK, NEW p \in Press, Finish(p), p \in Pressed
    PROVE  /\ press' \in [Press -> [at : {"idle", "read", "publish"},
                                    saw : SUBSET Fan]]
           /\ Pressed' = Pressed \ {p}
           /\ \A q \in Press : press'[q].at = "publish" =>
                 q \in Pressed /\ q # p /\ press'[q] = press[q]
<1> USE DEF ReactionsTypeOK, Finish, NoPress
<1>1. NoPress \in [at : {"idle", "read", "publish"}, saw : SUBSET Fan]
    BY Zenon
<1>2. \A q \in Press : press'[q] = IF q = p THEN NoPress ELSE press[q]
    BY Zenon
<1>3. press' \in [Press -> [at : {"idle", "read", "publish"}, saw : SUBSET Fan]]
    BY <1>1
<1>4. QED BY <1>2, <1>3 DEF Pressed

(* What is known of the requests under way outlasts the end of one.        *)
LEMMA FinishKeeps ==
    ASSUME ReactionsInv, NEW p \in Press, Finish(p), p \in Pressed, fans' = fans,
           \A u \in Fan \ (touched' \union doubt') : u \in listed' <=> u \in fans
    PROVE  UnderWayInv'
<1> USE DEF ReactionsInv
<1>1. /\ Pressed' = Pressed \ {p}
      /\ \A q \in Press : press'[q].at = "publish" =>
            q \in Pressed /\ q # p /\ press'[q] = press[q]
    BY FinishEnds
<1>2. CASE Pressed = {p}
  <2>1. /\ Pressed' = {} /\ touched' = {}
        /\ \A q \in Press : press'[q].at # "publish"
      BY <1>1, <1>2 DEF Finish
  <2>2. QED BY <2>1 DEF UnderWayInv
<1>3. CASE Pressed # {p}
  <2>0. touched' = touched /\ (crowded' <=> crowded)
      BY Zenon, <1>3 DEF Finish
  <2>1. touched' = touched /\ (crowded' <=> crowded) /\ Pressed' # {}
      BY <1>1, <1>3, <2>0
  <2>2. (\A q \in Press : press[q].at = "publish" =>
            \A u \in Fan \ touched : u \in press[q].saw <=> u \in fans)'
      BY <1>1, <2>1 DEF UnderWayInv
  <2>3. ASSUME ~crowded PROVE FALSE
    <3>1. \A q, r \in Pressed : q = r BY Zenon, <2>3 DEF UnderWayInv
    <3>2. QED BY Zenon, <1>3, <3>1
  <2>4. QED BY <2>1, <2>2, <2>3 DEF UnderWayInv
<1>4. QED BY Zenon, <1>2, <1>3

(* Every statement of the handlers and of broadcast_reaction preserves it. *)
LEMMA ReactionsStepInv == ReactionsInv /\ [ReactionsNext]_reactionVars => ReactionsInv'
<1> SUFFICES ASSUME ReactionsInv, [ReactionsNext]_reactionVars
             PROVE  ReactionsInv'
    BY Zenon
<1> USE DEF ReactionsInv
<1>1. ASSUME NEW p \in Press, NEW u \in Fan, NEW add \in BOOLEAN, React(p, u, add)
      PROVE  ReactionsInv'
  <2>1. ReactionsTypeOK' BY <1>1 DEF React, ReactionsTypeOK
  <2>2. /\ Pressed' = Pressed \union {p} /\ p \notin Pressed
        /\ \A q \in Press : press'[q].at = "publish" =>
              q \in Pressed /\ press'[q] = press[q]
      BY <1>1 DEF React, ReactionsTypeOK, Pressed
  <2>3. \A v \in Fan \ touched' : v \in fans' <=> v \in fans
      BY <1>1 DEF React
  <2>4. ~crowded' => Pressed = {} BY Zenon, <1>1 DEF React
  <2>5. UnderWayInv'
      BY <1>1, <2>2, <2>3, <2>4 DEF React, UnderWayInv
  <2>6. QED BY Zenon, <2>1, <2>5
<1>2. ASSUME NEW p \in Press, ReadFans(p) PROVE ReactionsInv'
  <2>1. ReactionsTypeOK' BY Zenon, <1>2 DEF ReadFans, ReactionsTypeOK
  <2>2. /\ Pressed' = Pressed
        /\ \A q \in Press : press'[q].at = "publish" =>
              press'[q].saw = fans \/ press'[q] = press[q]
      BY <1>2 DEF ReadFans, ReactionsTypeOK, Pressed
  <2>3. UnderWayInv' BY Zenon, <1>2, <2>2 DEF ReadFans, UnderWayInv
  <2>4. QED BY Zenon, <2>1, <2>3
<1>3. ASSUME NEW p \in Press, ReactionFails(p) PROVE ReactionsInv'
  <2>1. p \in Pressed BY Zenon, <1>3 DEF ReactionFails, Pressed
  <2>2. Finish(p) BY Zenon, <1>3 DEF ReactionFails
  <2>3. ReactionsTypeOK'
      BY Zenon, <1>3, <2>1, <2>2, FinishEnds DEF ReactionFails, ReactionsTypeOK, Finish
  <2>4. touched \subseteq doubt' /\ doubt \subseteq doubt' /\ listed' = listed
      BY Zenon, <1>3 DEF ReactionFails
  <2>5. \A u \in Fan \ (touched' \union doubt') : u \in listed' <=> u \in fans
      BY <2>4 DEF UnderWayInv
  <2>6. UnderWayInv' BY <1>3, <2>1, <2>2, <2>5, FinishKeeps DEF ReactionFails
  <2>7. QED BY Zenon, <2>3, <2>6
<1>4. ASSUME NEW p \in Press, NEW heard \in BOOLEAN, PublishReaction(p, heard)
      PROVE  ReactionsInv'
  <2>1. p \in Pressed BY <1>4 DEF PublishReaction, Pressed
  <2>2. Finish(p) BY Zenon, <1>4 DEF PublishReaction
  <2>3. ReactionsTypeOK'
      BY Zenon, <1>4, <2>1, <2>2, FinishEnds DEF PublishReaction, ReactionsTypeOK, Finish
  <2>4. \A u \in Fan \ (touched \union doubt') : u \in listed' <=> u \in fans
      BY <1>4 DEF PublishReaction, UnderWayInv, ReactionsTypeOK
  <2>5. touched \subseteq doubt' \/ (listed' = fans /\ ~crowded)
      BY <1>4 DEF PublishReaction, UnderWayInv, ReactionsTypeOK
  <2>6. \A u \in Fan \ (touched' \union doubt') : u \in listed' <=> u \in fans
      BY <2>4, <2>5
  <2>7. UnderWayInv' BY <1>4, <2>1, <2>2, <2>6, FinishKeeps DEF PublishReaction
  <2>8. QED BY Zenon, <2>3, <2>7
<1>5. ASSUME Join PROVE ReactionsInv'
  <2>1. ReactionsTypeOK' BY <1>5 DEF Join, ReactionsTypeOK
  <2>2. UnderWayInv' BY <1>5 DEF Join, UnderWayInv, Pressed
  <2>3. QED BY Zenon, <2>1, <2>2
<1>6. CASE UNCHANGED reactionVars
    BY <1>6 DEF reactionVars, ReactionsTypeOK, UnderWayInv, Pressed
<1>7. QED BY Zenon, <1>1, <1>2, <1>3, <1>4, <1>5, <1>6 DEF ReactionsNext

(* When no request is under way, a browser shows exactly the reactions of  *)
(* the database, but for the users of overlapping requests and of lost     *)
(* events, and those who had reacted when it joined.                       *)
THEOREM ReactionsShownAlways == ReactionsSpec => []ReactionsShown
<1>1. ReactionsInv => ReactionsShown
    BY DEF ReactionsInv, UnderWayInv, ReactionsShown
<1>2. QED BY <1>1, ReactionsInitInv, ReactionsStepInv, PTL DEF ReactionsSpec
-----------------------------------------------------------------------------
(* Every bar that has stood since a request began stands now; a check that *)
(* the request has passed has taken its bars away.                         *)
PostInv(p) ==
    /\ post[p].at # "idle" =>
        /\ post[p].throughout \subseteq Bars(post[p].kind)
        /\ Bars(post[p].kind) # {} => post[p].ever
    /\ post[p].at \in {"posting", "role"} => post[p].kind = "send"
    /\ post[p].at = "posting" => post[p].throughout \subseteq {"archived", "restricted"}
    /\ post[p].at = "role" => /\ post[p].throughout \subseteq {"restricted"}
                              /\ ~powers
                              /\ restricted \/ post[p].lifted
    /\ post[p].at \in {"write", "done"} => post[p].throughout = {}
    /\ post[p].at = "refused" => post[p].ever \/ post[p].lifted

PostingInv == PostingTypeOK /\ \A p \in Post : PostInv(p)

Posts == [at : {"idle", "access", "posting", "role", "write", "done", "refused"},
          kind : {"send", "alter"}, throughout : SUBSET Bar, ever : BOOLEAN,
          lifted : BOOLEAN]

(* Which bars stand, one by one.                                           *)
LEMMA BarsAre ==
    ASSUME NEW k
    PROVE  /\ Bars(k) \subseteq Bar
           /\ "deleted" \in Bars(k) <=> ~open
           /\ "archived" \in Bars(k) <=> k = "send" /\ ~powers /\ archived
           /\ "restricted" \in Bars(k) <=>
                k = "send" /\ ~powers /\ restricted /\ rank # "moderator"
           /\ Denials \subseteq Bars(k)
           /\ Denials = {} => Bars(k) \subseteq {"archived", "restricted"}
           /\ Denials = {} /\ k # "send" => Bars(k) = {}
    BY Zenon DEF Bars, Denials, Bar

LEMMA PostingInitInv == PostingInit => PostingInv
<1> SUFFICES ASSUME PostingInit PROVE PostingInv BY Zenon
<1>1. NoPost \in Posts BY Zenon DEF NoPost, Posts
<1>2. post \in [Post -> Posts] BY Zenon, <1>1 DEF PostingInit
<1>3. PostingTypeOK BY Zenon, <1>2 DEF PostingInit, PostingTypeOK, Posts
<1>4. \A p \in Post : post[p].at = "idle" BY Zenon DEF PostingInit, NoPost
<1>5. QED BY Zenon, <1>3, <1>4 DEF PostingInv, PostInv

(* A step of one request that moves it on and leaves its history alone.    *)
LEMMA MoveInv ==
    ASSUME PostingInv, NEW p \in Post, NEW at, Move(p, at), post[p].at # "idle",
           at \in {"posting", "role", "write", "done", "refused"},
           at \in {"posting", "role"} => post[p].kind = "send",
           at = "posting" => post[p].throughout \subseteq {"archived", "restricted"},
           at = "role" => /\ post[p].throughout \subseteq {"restricted"}
                          /\ ~powers /\ restricted,
           at \in {"write", "done"} => post[p].throughout = {},
           at = "refused" => post[p].ever \/ post[p].lifted
    PROVE  PostingInv'
<1> USE DEF PostingInv
<1>1. UNCHANGED channelVars /\ post' = [post EXCEPT ![p].at = at] BY Zenon DEF Move
<1>2. PostingTypeOK' BY <1>1 DEF PostingTypeOK, channelVars
<1>3. \A k : Bars(k)' = Bars(k) BY Zenon, <1>1 DEF channelVars, Bars, Denials
<1>4. ASSUME NEW q \in Post PROVE PostInv(q)'
  <2>1. CASE q # p
    <3>1. post'[q] = post[q] BY Zenon, <1>1, <2>1 DEF PostingTypeOK
    <3>2. QED BY <1>1, <1>3, <3>1 DEF PostInv, channelVars
  <2>2. CASE q = p
    <3>1. /\ post'[p].at = at /\ post'[p].kind = post[p].kind
          /\ post'[p].throughout = post[p].throughout
          /\ post'[p].ever = post[p].ever /\ post'[p].lifted = post[p].lifted
        BY <1>1 DEF PostingTypeOK
    <3>2. QED BY <1>1, <1>3, <2>2, <3>1 DEF PostInv, channelVars
  <2>3. QED BY Zenon, <2>1, <2>2
<1>5. QED BY Zenon, <1>2, <1>4

(* A step that changes what stands against the user.                       *)
LEMMA ObserveInv ==
    ASSUME PostingInv, Observe, UNCHANGED <<public, powers>>,
           bans' \subseteq Ban, rank' \in {"none", "member", "moderator"},
           open' \in BOOLEAN, archived' \in BOOLEAN, restricted' \in BOOLEAN
    PROVE  PostingInv'
<1> USE DEF PostingInv
<1> DEFINE now == [kind \in {"send", "alter"} |-> Bars(kind)']
<1>1. \A k \in {"send", "alter"} : now[k] = Bars(k)' /\ now[k] \subseteq Bar
    BY ZenonT(30) DEF Bars
<1>2. ASSUME NEW q \in Post
      PROVE  /\ post[q] \in Posts
             /\ post[q].at = "idle" => post'[q] = post[q]
             /\ post[q].at # "idle" => post'[q] =
                  [post[q] EXCEPT !.throughout = @ \cap now[post[q].kind],
                                  !.ever = @ \/ now[post[q].kind] # {},
                                  !.lifted = @ \/ (post[q].at = "role" /\ ~restricted')]
    BY Zenon DEF Observe, PostingTypeOK, Posts
<1> HIDE DEF now
<1>3. post' \in [Post -> Posts]
  <2>1. ASSUME NEW q \in Post PROVE post'[q] \in Posts
    <3>1. PICK T \in SUBSET Bar : T = post[q].throughout \cap now[post[q].kind]
        BY Zenon, <1>1, <1>2 DEF Posts
    <3>2. PICK e \in BOOLEAN : e = (post[q].ever \/ now[post[q].kind] # {}) BY Zenon
    <3>3. PICK l \in BOOLEAN :
            l = (post[q].lifted \/ (post[q].at = "role" /\ ~restricted')) BY Zenon
    <3>4. PICK r \in Posts : r = post[q] BY Zenon, <1>2
    <3>5. [r EXCEPT !.throughout = T, !.ever = e, !.lifted = l] \in Posts
        BY ZenonT(30) DEF Posts
    <3>6. QED BY ZenonT(30), <1>2, <3>1, <3>2, <3>3, <3>4, <3>5
  <2>2. post' = [q \in Post |-> post'[q]] BY ZenonT(30) DEF Observe
  <2>3. QED BY Zenon, <2>1, <2>2
<1>4. PostingTypeOK' BY Zenon, <1>3 DEF PostingTypeOK, Posts
<1>5. ASSUME NEW q \in Post PROVE PostInv(q)'
  <2>1. PICK k \in {"send", "alter"} : k = post[q].kind BY Zenon, <1>2 DEF Posts
  <2>2. CASE post[q].at = "idle" BY Zenon, <1>2, <2>2 DEF PostInv
  <2>3. CASE post[q].at # "idle"
    <3>1. /\ post'[q].at = post[q].at /\ post'[q].kind = k
          /\ post'[q].throughout = post[q].throughout \cap Bars(k)'
          /\ post'[q].ever = (post[q].ever \/ Bars(k)' # {})
          /\ post'[q].lifted = (post[q].lifted \/ (post[q].at = "role" /\ ~restricted'))
      <4>1. now[k] = Bars(k)' BY Zenon, <1>1
      <4>2. post'[q] = [post[q] EXCEPT !.throughout = @ \cap Bars(k)',
                          !.ever = @ \/ Bars(k)' # {},
                          !.lifted = @ \/ (post[q].at = "role" /\ ~restricted')]
          BY ZenonT(30), <1>2, <2>1, <2>3, <4>1
      <4>3. QED BY ZenonT(30), <1>2, <2>1, <4>2 DEF Posts
    <3>2. QED BY Zenon, <2>1, <2>3, <3>1 DEF PostInv
  <2>4. QED BY Zenon, <2>2, <2>3
<1>6. QED BY Zenon, <1>4, <1>5

(* Every step preserves the invariant.                                     *)
LEMMA PostingStepInv == PostingInv /\ [PostingNext]_postingVars => PostingInv'
<1> SUFFICES ASSUME PostingInv, [PostingNext]_postingVars PROVE PostingInv' BY Zenon
<1>0. PostingTypeOK BY Zenon DEF PostingInv
<1>1. ASSUME NEW p \in Post, PostStep(p) PROVE PostingInv'
  <2>0. PostInv(p) /\ post[p] \in Posts
      BY Zenon, <1>0 DEF PostingInv, PostingTypeOK, Posts
  <2>1. PICK k \in {"send", "alter"} : k = post[p].kind BY Zenon, <2>0 DEF Posts
  <2>2. CASE \E kind \in {"send", "alter"} : Ask(p, kind)
    <3>1. PICK kind \in {"send", "alter"} : Ask(p, kind) BY Zenon, <2>2
    <3>2. UNCHANGED channelVars BY Zenon, <3>1 DEF Ask
    <3>3. PICK r \in Posts :
            r = [at |-> "access", kind |-> kind, throughout |-> Bars(kind),
                 ever |-> Bars(kind) # {}, lifted |-> FALSE]
      <4>1. Bars(kind) \subseteq Bar BY Zenon, BarsAre
      <4>2. PICK e \in BOOLEAN : e = (Bars(kind) # {}) BY Zenon
      <4>3. [at |-> "access", kind |-> kind, throughout |-> Bars(kind),
             ever |-> e, lifted |-> FALSE] \in Posts
          BY Zenon, <4>1 DEF Posts
      <4>4. QED BY Zenon, <4>2, <4>3
    <3>4. post' = [post EXCEPT ![p] = r] BY Zenon, <3>1, <3>3 DEF Ask
    <3>5. PostingTypeOK'
        BY Zenon, <1>0, <3>2, <3>3, <3>4 DEF PostingTypeOK, channelVars, Posts
    <3>6. \A j : Bars(j)' = Bars(j) BY Zenon, <3>2 DEF channelVars, Bars, Denials
    <3>7. ASSUME NEW q \in Post PROVE PostInv(q)'
      <4>1. CASE q = p
        <5>1. post'[q] = r BY Zenon, <1>0, <3>4, <4>1 DEF PostingTypeOK
        <5>2. /\ r.at = "access" /\ r.kind = kind /\ r.throughout = Bars(kind)
              /\ r.ever = (Bars(kind) # {})
            BY Zenon, <3>3
        <5>3. QED BY Zenon, <3>6, <5>1, <5>2 DEF PostInv
      <4>2. CASE q # p
        <5>1. post'[q] = post[q] BY Zenon, <1>0, <3>4, <4>2 DEF PostingTypeOK
        <5>2. QED BY Zenon, <3>2, <3>6, <5>1 DEF PostInv, PostingInv, channelVars
      <4>3. QED BY Zenon, <4>1, <4>2
    <3>8. QED BY Zenon, <3>5, <3>7 DEF PostingInv
  <2>3. CASE CheckAccess(p)
    <3>1. CASE Denials # {}
      <4>1. Move(p, "refused") /\ post[p].at = "access"
          BY Zenon, <2>3, <3>1 DEF CheckAccess
      <4>2. Bars(k) # {} BY Zenon, <3>1, BarsAre
      <4>3. post[p].ever BY Zenon, <2>0, <2>1, <4>1, <4>2 DEF PostInv
      <4>4. QED BY Zenon, <4>1, <4>3, MoveInv
    <3>2. CASE Denials = {} /\ k = "send"
      <4>1. Move(p, "posting") /\ post[p].at = "access"
          BY Zenon, <2>1, <2>3, <3>2 DEF CheckAccess
      <4>2. post[p].throughout \subseteq {"archived", "restricted"}
          BY Zenon, <2>0, <2>1, <3>2, <4>1, BarsAre DEF PostInv
      <4>3. QED BY Zenon, <2>1, <3>2, <4>1, <4>2, MoveInv
    <3>3. CASE Denials = {} /\ k # "send"
      <4>1. Move(p, "write") /\ post[p].at = "access"
          BY Zenon, <2>1, <2>3, <3>3 DEF CheckAccess
      <4>2. post[p].throughout = {}
          BY Zenon, <2>0, <2>1, <3>3, <4>1, BarsAre DEF PostInv
      <4>3. QED BY Zenon, <4>1, <4>2, MoveInv
    <3>4. QED BY Zenon, <3>1, <3>2, <3>3
  <2>4. CASE CheckPosting(p)
    <3>0. post[p].at = "posting" /\ k = "send"
        BY Zenon, <2>0, <2>1, <2>4 DEF CheckPosting, PostInv
    <3>1. CASE ~open \/ (archived /\ ~powers)
      <4>1. Move(p, "refused") BY Zenon, <2>4, <3>1 DEF CheckPosting
      <4>2. Bars(k) # {} BY Zenon, <3>0, <3>1, BarsAre
      <4>3. post[p].ever BY Zenon, <2>0, <2>1, <3>0, <4>2 DEF PostInv
      <4>4. QED BY Zenon, <3>0, <4>1, <4>3, MoveInv
    <3>2. CASE ~(~open \/ (archived /\ ~powers)) /\ (~restricted \/ powers)
      <4>1. Move(p, "write") BY Zenon, <2>4, <3>2 DEF CheckPosting
      <4>2. "archived" \notin Bars(k) /\ "restricted" \notin Bars(k)
          BY Zenon, <3>2, BarsAre
      <4>3. post[p].throughout = {} BY Zenon, <2>0, <2>1, <3>0, <4>2 DEF PostInv
      <4>4. QED BY Zenon, <3>0, <4>1, <4>3, MoveInv
    <3>3. CASE ~(~open \/ (archived /\ ~powers)) /\ ~(~restricted \/ powers)
      <4>1. Move(p, "role") BY Zenon, <2>4, <3>3 DEF CheckPosting
      <4>2. "archived" \notin Bars(k) BY Zenon, <3>3, BarsAre
      <4>3. post[p].throughout \subseteq {"restricted"}
          BY Zenon, <2>0, <2>1, <3>0, <4>2 DEF PostInv
      <4>4. QED BY Zenon, <2>1, <3>0, <3>3, <4>1, <4>3, MoveInv
    <3>4. QED BY Zenon, <3>1, <3>2, <3>3
  <2>5. CASE CheckRole(p)
    <3>0. post[p].at = "role" /\ k = "send"
        BY Zenon, <2>0, <2>1, <2>5 DEF CheckRole, PostInv
    <3>1. CASE rank = "moderator"
      <4>1. Move(p, "write") BY Zenon, <2>5, <3>1 DEF CheckRole
      <4>2. "restricted" \notin Bars(k) BY Zenon, <3>1, BarsAre
      <4>3. post[p].throughout = {} BY Zenon, <2>0, <2>1, <3>0, <4>2 DEF PostInv
      <4>4. QED BY Zenon, <3>0, <4>1, <4>3, MoveInv
    <3>2. CASE rank # "moderator"
      <4>1. Move(p, "refused") BY Zenon, <2>5, <3>2 DEF CheckRole
      <4>2. restricted => Bars(k) # {}
          BY Zenon, <2>0, <3>0, <3>2, BarsAre DEF PostInv
      <4>3. post[p].ever \/ post[p].lifted
          BY Zenon, <2>0, <2>1, <3>0, <4>2 DEF PostInv
      <4>4. QED BY Zenon, <3>0, <4>1, <4>3, MoveInv
    <3>3. QED BY Zenon, <3>1, <3>2
  <2>6. CASE Write(p)
    <3>0. post[p].at = "write" BY Zenon, <2>6 DEF Write
    <3>1. CASE open
      <4>1. Move(p, "done") BY Zenon, <2>6, <3>1 DEF Write
      <4>2. post[p].throughout = {} BY Zenon, <2>0, <3>0 DEF PostInv
      <4>3. QED BY Zenon, <3>0, <4>1, <4>2, MoveInv
    <3>2. CASE ~open
      <4>1. Move(p, "refused") BY Zenon, <2>6, <3>2 DEF Write
      <4>2. Bars(k) # {} BY Zenon, <3>2, BarsAre
      <4>3. post[p].ever BY Zenon, <2>0, <2>1, <3>0, <4>2 DEF PostInv
      <4>4. QED BY Zenon, <3>0, <4>1, <4>3, MoveInv
    <3>3. QED BY Zenon, <3>1, <3>2
  <2>7. CASE EndPost(p)
    <3>1. UNCHANGED channelVars /\ post' = [post EXCEPT ![p] = NoPost] /\ NoPost \in Posts
        BY Zenon, <2>7 DEF EndPost, NoPost, Posts, Bar
    <3>2. PostingTypeOK' BY Zenon, <1>0, <3>1 DEF PostingTypeOK, channelVars, Posts
    <3>3. \A j : Bars(j)' = Bars(j) BY Zenon, <3>1 DEF channelVars, Bars, Denials
    <3>4. ASSUME NEW q \in Post PROVE PostInv(q)'
      <4>1. post'[q] = IF q = p THEN NoPost ELSE post[q]
          BY Zenon, <1>0, <3>1 DEF PostingTypeOK
      <4>2. QED BY <3>1, <3>3, <4>1 DEF PostInv, PostingInv, channelVars, NoPost
    <3>5. QED BY Zenon, <3>2, <3>4 DEF PostingInv
  <2>8. QED BY Zenon, <1>1, <2>2, <2>3, <2>4, <2>5, <2>6, <2>7 DEF PostStep
<1>2. CASE \/ \E b \in Ban : AdminCreateBan(b) \/ BanEnds(b)
           \/ \E next \in {"none", "member", "moderator"} : RankChanges(next)
           \/ \E flag \in BOOLEAN : \/ AdminUpdateChannel(flag)
                                    \/ ArchiveOrRestore(flag)
                                    \/ DeleteOrUndelete(flag)
    BY Zenon, <1>0, <1>2, ObserveInv DEF AdminCreateBan, BanEnds, RankChanges,
       AdminUpdateChannel, ArchiveOrRestore, DeleteOrUndelete, PostingTypeOK
<1>3. CASE UNCHANGED postingVars
    BY <1>3 DEF postingVars, PostingInv, PostingTypeOK, PostInv, Bars, Denials
<1>4. QED BY Zenon, <1>1, <1>2, <1>3 DEF PostingNext

(* A bar that stands all through a request stops it, and a request that    *)
(* meets none is not refused, for any bans, requests and changes between   *)
(* the queries.                                                            *)
THEOREM BarsObeyedAlways == PostingSpec => []BarsObeyed
<1>1. PostingInv => BarsObeyed BY Zenon DEF PostingInv, PostInv, BarsObeyed
<1>2. QED BY <1>1, PostingInitInv, PostingStepInv, PTL DEF PostingSpec
-----------------------------------------------------------------------------
(* Proofs about the membership of a private channel, for any users, any    *)
(* number of concurrent requests and any limit on the invite link.         *)

USE CreatorAssumption, UsesAssumption, NoReqAssumption

(* The invariant holds when the channel is created.                        *)
LEMMA InitInv == Init => MembershipInv
<1> SUFFICES ASSUME Init PROVE MembershipInv
  BY Zenon
<1>1. Idle \in [at : Ops, by : User, who : User] /\ Idle.at = "idle"
  BY Zenon DEF Idle, Ops
<1>2. TypeOK
  BY Zenon, <1>1 DEF Init, TypeOK
<1>3. OwnerHoldsRole
  BY Zenon DEF Init, OwnerHoldsRole
<1>4. LinkAdmitsAtMostMaxUses
  BY DEF Init, LinkAdmitsAtMostMaxUses
<1>. QED
  BY Zenon, <1>1, <1>2, <1>3, <1>4 DEF Init, MembershipInv

(* A request that only passes its checks writes nothing but its own state. *)
LEMMA BeginInv ==
    ASSUME MembershipInv, NEW r \in Req, NEW by \in User, NEW who \in User,
           NEW at \in Ops \ {"idle", "accept"}, Begin(r, at, by, who)
    PROVE  MembershipInv'
BY DEF Begin, MembershipInv, TypeOK, OwnerHoldsRole, LinkAdmitsAtMostMaxUses,
       Usable, Ops

(* A write of one membership row that neither takes nor gives the owner    *)
(* role keeps the invariant.                                               *)
LEMMA SetRoleInv ==
    ASSUME MembershipInv, NEW r \in Req, NEW at \in Ops \ {"accept"},
           Commit(r, at), NEW u \in User,
           NEW from \in SUBSET {"none", "member", "moderator"},
           NEW to \in {"none", "member", "moderator"}, SetRole(u, from, to),
           UNCHANGED <<live, link, owner, uses, rowLock, joins, stale>>
    PROVE  MembershipInv'
<1>1. TypeOK'
  BY Zenon DEF Commit, SetRole, Idle, Ops, MembershipInv, TypeOK
<1>2. OwnerHoldsRole'
  BY Zenon DEF SetRole, MembershipInv, TypeOK, OwnerHoldsRole
<1>. QED
  BY Zenon, <1>1, <1>2 DEF Commit, Idle, Ops, MembershipInv, TypeOK,
                    LinkAdmitsAtMostMaxUses, Usable

(* Every step keeps the invariant.  Only transfers and departures can      *)
(* touch the owner role, and they record when their check was stale.       *)
LEMMA NextInv == MembershipInv /\ [Next]_vars => MembershipInv'
<1> SUFFICES ASSUME MembershipInv, [Next]_vars PROVE MembershipInv'
  BY Zenon
<1>1. ASSUME NEW r \in Req, CommitStep(r) PROVE MembershipInv'
  <2> req[r].who \in User /\ req[r].by \in User
    BY Zenon DEF MembershipInv, TypeOK
  <2>1. CASE InviteCommit(r)
    BY Zenon, <2>1, SetRoleInv DEF InviteCommit, Ops
  <2>2. CASE RemoveCommit(r)
    BY Zenon, <2>2, SetRoleInv DEF RemoveCommit, Ops
  <2>3. CASE PromoteCommit(r)
    BY Zenon, <2>3, SetRoleInv DEF PromoteCommit, Ops
  <2>4. CASE DemoteCommit(r)
    BY Zenon, <2>4, SetRoleInv DEF DemoteCommit, Ops
  <2>5. CASE LeaveCommit(r)
    <3>1. TypeOK'
      BY Zenon, <2>5 DEF LeaveCommit, Commit, SetRole, Owns, Idle, Ops,
                  MembershipInv, TypeOK
    <3>2. OwnerHoldsRole'
      BY Zenon, <2>5 DEF LeaveCommit, SetRole, Owns, MembershipInv, TypeOK,
                  OwnerHoldsRole
    <3>. QED
      BY Zenon, <2>5, <3>1, <3>2 DEF LeaveCommit, Commit, Idle, MembershipInv,
                              TypeOK, LinkAdmitsAtMostMaxUses, Usable
  <2>6. CASE TransferTarget(r)
    BY <2>6 DEF TransferTarget, Idle, Ops, MembershipInv, TypeOK,
                OwnerHoldsRole, LinkAdmitsAtMostMaxUses, Usable
  <2>7. CASE TransferCommit(r)
    <3>1. TypeOK'
      BY Zenon, <2>7 DEF TransferCommit, Commit, Owns, Idle, Ops, MembershipInv,
                  TypeOK
    <3>2. OwnerHoldsRole'
      BY ZenonT(30), <2>7
      DEF TransferCommit, Owns, MembershipInv, TypeOK, OwnerHoldsRole
    <3>. QED
      BY <2>7, <3>1, <3>2 DEF TransferCommit, Commit, Idle, MembershipInv,
                              TypeOK, LinkAdmitsAtMostMaxUses, Usable
  <2>8. CASE AcceptCommit(r)
    <3>1. rowLock = r /\ Usable /\ r # NoReq
      BY Zenon, <2>8 DEF AcceptCommit, Commit, MembershipInv
    <3>2. TypeOK'
      BY <2>8, <3>1 DEF AcceptCommit, Commit, SetRole, Idle, Ops,
                        MembershipInv, TypeOK
    <3>3. OwnerHoldsRole'
      BY Zenon, <2>8
      DEF AcceptCommit, SetRole, MembershipInv, TypeOK, OwnerHoldsRole
    <3>4. LinkAdmitsAtMostMaxUses'
      BY <2>8, <3>1 DEF AcceptCommit, MembershipInv, TypeOK, Usable,
                        LinkAdmitsAtMostMaxUses
    <3>. QED
      BY Zenon, <2>8, <3>1, <3>2, <3>3, <3>4
      DEF AcceptCommit, Commit, Idle, MembershipInv, TypeOK
  <2>9. CASE LinkCommit(r)
    BY Zenon, <2>9 DEF LinkCommit, Commit, Idle, Ops, MembershipInv, TypeOK,
                 OwnerHoldsRole, LinkAdmitsAtMostMaxUses, Usable
  <2>10. CASE Fail(r)
    BY <2>10 DEF Fail, Idle, Ops, MembershipInv, TypeOK, OwnerHoldsRole,
                LinkAdmitsAtMostMaxUses, Usable
  <2>. QED
    BY Zenon, <1>1, <2>1, <2>2, <2>3, <2>4, <2>5, <2>6, <2>7, <2>8, <2>9,
       <2>10
    DEF CommitStep
<1>2. ASSUME NEW r \in Req, NEW by \in User, NEW who \in User,
             ManageStep(r, by, who)
      PROVE  MembershipInv'
  BY Zenon, <1>2, BeginInv DEF ManageStep, InviteMember, RemoveMember,
     PromoteModerator, DemoteModerator, TransferOwnership, Ops
<1>3. ASSUME NEW r \in Req, NEW u \in User, LeaveChannel(r, u)
      PROVE  MembershipInv'
  BY Zenon, <1>3, BeginInv DEF LeaveChannel, Ops
<1>4. ASSUME NEW r \in Req, NEW u \in User, AcceptInviteLink(r, u)
      PROVE  MembershipInv'
  BY Zenon, <1>4 DEF AcceptInviteLink, Ops, MembershipInv, TypeOK, OwnerHoldsRole,
              LinkAdmitsAtMostMaxUses, Usable
<1>5. ASSUME NEW r \in Req, NEW u \in User, CreateInviteLink(r, u)
      PROVE  MembershipInv'
  BY Zenon, <1>5, BeginInv DEF CreateInviteLink, Ops
<1>6. CASE DeleteChannel \/ CreatePublicChannel
           \/ \E undelete \in BOOLEAN : AdminChannelState(undelete)
  BY ZenonT(30), <1>6 DEF DeleteChannel, CreatePublicChannel, AdminChannelState,
              MembershipInv, TypeOK, OwnerHoldsRole, LinkAdmitsAtMostMaxUses
<1>7. CASE UNCHANGED vars
  BY Zenon, <1>7 DEF vars, MembershipInv, TypeOK, OwnerHoldsRole,
              LinkAdmitsAtMostMaxUses, Usable
<1>. QED
  BY Zenon, <1>1, <1>2, <1>3, <1>4, <1>5, <1>6, <1>7 DEF Next

LEMMA Invariance == Spec => []MembershipInv
BY InitInv, NextInv, PTL DEF Spec

(* Every reachable state of the membership model is well typed, and the    *)
(* rows locked FOR UPDATE belong to a request accepting the link.          *)
THEOREM MembershipTypeCorrect == Spec => []TypeOK
<1>1. MembershipInv => TypeOK
  BY Zenon DEF MembershipInv
<1>. QED
  BY <1>1, Invariance, PTL

(* Whatever requests overlap, the channel's owner and no one else has the  *)
(* owner role, until a transfer or departure commits on a stale check.     *)
THEOREM OwnershipIsKept == Spec => []OwnerHoldsRole
<1>1. MembershipInv => OwnerHoldsRole
  BY Zenon DEF MembershipInv
<1>. QED
  BY <1>1, Invariance, PTL

(* A limited invite link never admits more users than max_uses.            *)
THEOREM LinkLimitIsKept == Spec => []LinkAdmitsAtMostMaxUses
<1>1. MembershipInv => LinkAdmitsAtMostMaxUses
  BY Zenon DEF MembershipInv
<1>. QED
  BY <1>1, Invariance, PTL

(* The count of users admitted grows in one step only, the commit of an    *)
(* acceptance, which still holds the lock under which the channel was      *)
(* found undeleted.                                                        *)
LEMMA JoinStep ==
    ASSUME MembershipInv, [Next]_vars, joins' # joins
    PROVE  live /\ link
<1>1. PICK r \in Req : AcceptCommit(r)
  BY DEF vars, Next, CommitStep, ManageStep, InviteMember, RemoveMember,
         PromoteModerator, DemoteModerator, TransferOwnership, LeaveChannel,
         CreateInviteLink, AcceptInviteLink, Begin, InviteCommit,
         RemoveCommit, PromoteCommit, DemoteCommit, LeaveCommit,
         TransferTarget, TransferCommit, LinkCommit, Fail, DeleteChannel,
         CreatePublicChannel, AdminChannelState
<1>2. rowLock = r /\ r # NoReq
  BY Zenon, <1>1 DEF AcceptCommit, Commit, MembershipInv
<1>. QED
  BY Zenon, <1>2 DEF MembershipInv, Usable

(* No acceptance of the invite link, however it overlaps with deletions    *)
(* and undeletions, adds a member to a channel that is deleted then.       *)
THEOREM LinkJoinsOnlyLiveChannel == Spec => JoinsOnlyLiveChannel
<1>1. MembershipInv /\ [Next]_vars => [joins' # joins => live /\ link]_vars
  BY Zenon, JoinStep
<1>. QED
  BY <1>1, Invariance, PTL DEF Spec, JoinsOnlyLiveChannel
=============================================================================
