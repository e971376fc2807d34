------------------------------ MODULE History ------------------------------
(***************************************************************************)
(* The message history of one channel: the rows in PostgreSQL              *)
(* (repository/postgres.rs) and the hot copy in Valkey                     *)
(* (websocket/history.rs), a hash of payloads and a sorted set of ids.     *)
(* Senders, editors, moderators and joining readers of all replicas write  *)
(* the copy command by command, after and apart from their transactions.   *)
(*                                                                         *)
(* A message is its position in (created_at, id) order.  A payload is what *)
(* a reader is shown: a version of the text, or Hidden once deleted.       *)
(***************************************************************************)
EXTENDS Integers, FiniteSets

CONSTANTS
    Msg, Reply, System,   \* all messages; thread replies; system messages
    Req,                  \* concurrent requests, on any replica
    HotLimit,             \* HOT_HISTORY_LIMIT
    PageSize,             \* HISTORY_PAGE_SIZE
    BulkLimit,            \* 100: ids in a bulk moderation
    MaxChanges,           \* bound on edits, deletions, moderations, prunings
    Hidden, None

ASSUME MsgAssumption == Msg \subseteq Int /\ Reply \subseteq Msg /\ System \subseteq Msg
ASSUME LimitAssumption ==
    {HotLimit, PageSize} \subseteq Nat \ {0} /\ {BulkLimit, MaxChanges} \subseteq Nat
ASSUME PayloadAssumption == Hidden \notin Int /\ None \notin Int

VARIABLES
    version,     \* text version of each row, None without a row
    deleted,     \* rows with deleted_at set
    hash,        \* chat:history:<channel>:messages, None without a field
    order,       \* chat:history:<channel>:order, scored by created_at
    req,         \* what each request is about to do
    changes,     \* edits, deletions, moderations and prunings so far
    used,        \* history: messages ever made
    overlapped,  \* history: rewritten while a request held an older payload
    abandoned,   \* history: a request died between the row and the copy
    revived,     \* history: edited while deleted
    backfilled,  \* history: put back into the copy by an edit or deletion
    straddled,   \* history: written to the copy across the last invalidation;
                 \* all, if it came between a trim's read and its removal
    stranded     \* history: payloads a failed HDEL or DEL left in the hash, or
                 \* written between the two DELs of an invalidation

rows == <<version, deleted, changes, used>>
copy == <<hash, order>>
marks == <<overlapped, abandoned, revived, backfilled, straddled, stranded>>
vars == <<rows, copy, req, marks>>

Payloads == (0..MaxChanges) \union {Hidden}
Row == {m \in Msg : version[m] # None}
View(m) == IF m \in deleted THEN Hidden ELSE version[m]

Newest(S, n) == {m \in S : Cardinality({k \in S : k > m}) < n}
Oldest(S, n) == {m \in S : Cardinality({k \in S : k < m}) < n}

Idle == [at |-> "idle", put |-> [m \in {} |-> None], ids |-> {}, rest |-> {}]
At(r, label) == req[r].at = label
Go(r, at, put, ids) ==
    req' = [req EXCEPT ![r].at = at, ![r].put = put, ![r].ids = ids]
Done(r) == req' = [req EXCEPT ![r] = Idle]
Single(m, payload) == [k \in {m} |-> payload]

(* Messages whose payload a request holds and may still write.             *)
Holding(m) == {r \in Req : m \in DOMAIN req[r].put}

TypeOK ==
    /\ version \in [Msg -> (0..MaxChanges) \union {None}]
    /\ deleted \subseteq Row
    /\ hash \in [Msg -> Payloads \union {None}]
    /\ order \subseteq used
    /\ used \subseteq Msg
    /\ changes \in 0..MaxChanges
    /\ \A r \in Req :
        /\ req[r].at \in {"idle", "save", "store", "trim", "zrem", "hdel",
                          "refresh", "delHash", "delOrder", "hmget", "load", "hydrate"}
        /\ DOMAIN req[r].put \subseteq used
        /\ \A m \in DOMAIN req[r].put : req[r].put[m] \in Payloads
        /\ req[r].ids \subseteq used /\ req[r].rest \subseteq used

Init ==
    /\ version = [m \in Msg |-> None]
    /\ deleted = {} /\ changes = 0 /\ used = {}
    /\ hash = [m \in Msg |-> None]
    /\ order = {}
    /\ req = [r \in Req |-> Idle]
    /\ overlapped = {} /\ abandoned = {} /\ revived = {}
    /\ backfilled = {} /\ straddled = {} /\ stranded = {}
-----------------------------------------------------------------------------
(* Uuid::now_v7 and now_millis: messages get their places in time order.   *)
Create(m) ==
    /\ used = {k \in Msg : k < m}
    /\ used' = used \union {m}

(* SendMessage: the message is made, and its row saved later.              *)
SendMessage(r, m) ==
    /\ At(r, "idle")
    /\ m \notin System
    /\ Create(m)
    /\ Go(r, "save", Single(m, 0), {})
    /\ UNCHANGED <<version, deleted, changes, copy, marks>>

(* save_message commits.                                                   *)
SaveMessage(r) ==
    /\ At(r, "save")
    /\ version' = [m \in Msg |-> IF m \in DOMAIN req[r].put THEN 0 ELSE version[m]]
    /\ Go(r, "store", req[r].put, {})
    /\ UNCHANGED <<deleted, changes, used, copy, marks>>

(* publish_system_message: a row and a broadcast, never the copy.          *)
PublishSystemMessage(m) ==
    /\ m \in System
    /\ Create(m)
    /\ version' = [version EXCEPT ![m] = 0]
    /\ UNCHANGED <<deleted, changes, copy, req, marks>>

Change ==
    /\ changes < MaxChanges
    /\ changes' = changes + 1

(* EditMessage: edit_message answers with deleted: false in all cases.     *)
EditMessage(r, m) ==
    /\ At(r, "idle")
    /\ m \in Row \ System
    /\ Change
    /\ version' = [version EXCEPT ![m] = @ + 1]
    /\ revived' = IF m \in deleted THEN revived \union {m} ELSE revived
    /\ overlapped' = IF Holding(m) # {} THEN overlapped \union {m} ELSE overlapped
    /\ Go(r, "store", Single(m, version[m] + 1), {})
    /\ UNCHANGED <<deleted, used, copy, abandoned, backfilled, straddled,
                   stranded>>

(* DeleteMessage: without a row it is NotFound.                            *)
DeleteMessage(r, m) ==
    /\ At(r, "idle")
    /\ m \in Row
    /\ Change
    /\ deleted' = deleted \union {m}
    /\ overlapped' = IF Holding(m) # {} THEN overlapped \union {m} ELSE overlapped
    /\ Go(r, "store", Single(m, Hidden), {})
    /\ UNCHANGED <<version, used, copy, abandoned, revived, backfilled,
                   straddled, stranded>>

(* Payloads are written with their ids, which the second DEL of an         *)
(* invalidation may remove without them.                                   *)
Strand(S) ==
    stranded' = IF \E q \in Req : At(q, "delOrder")
                THEN stranded \union S ELSE stranded \ S

(* store_message: HSET and ZADD in one MULTI block.                        *)
StoreMessage(r) ==
    /\ At(r, "store")
    /\ \E m \in DOMAIN req[r].put :
        /\ hash' = [hash EXCEPT ![m] = req[r].put[m]]
        /\ order' = order \union {m}
        /\ backfilled' = IF m \notin order /\ req[r].put[m] # 0
                         THEN backfilled \union {m} ELSE backfilled
    /\ Strand(DOMAIN req[r].put)
    /\ Go(r, "trim", Idle.put, {})
    /\ UNCHANGED <<rows, overlapped, abandoned, revived, straddled>>

(* ZRANGE 0 -(HotLimit + 1): all but the newest HotLimit.                  *)
TrimIds(r) ==
    /\ At(r, "trim")
    /\ LET old == order \ Newest(order, HotLimit)
       IN  IF old = {} THEN Done(r) ELSE Go(r, "zrem", Idle.put, old)
    /\ UNCHANGED <<rows, copy, marks>>

TrimOrderOnly(r) ==
    /\ At(r, "zrem")
    /\ order' = order \ req[r].ids
    /\ Done(r)
    /\ UNCHANGED <<rows, hash, marks>>

(* A pipeline without MULTI: ZREM, then HDEL.                              *)
TrimOrder(r) ==
    /\ At(r, "zrem")
    /\ order' = order \ req[r].ids
    /\ Go(r, "hdel", Idle.put, req[r].ids)
    /\ UNCHANGED <<rows, hash, marks>>

TrimHash(r) ==
    /\ At(r, "hdel")
    /\ hash' = [m \in Msg |-> IF m \in req[r].ids THEN None ELSE hash[m]]
    /\ stranded' = stranded \ req[r].ids
    /\ Done(r)
    /\ UNCHANGED <<rows, order, overlapped, abandoned, revived, backfilled,
                   straddled>>
-----------------------------------------------------------------------------
(* admin_moderate_message                                                  *)
ModerateMessage(r, m, delete) ==
    /\ At(r, "idle")
    /\ m \in Row
    /\ Change
    /\ deleted' = IF delete THEN deleted \union {m} ELSE deleted \ {m}
    /\ overlapped' = IF Holding(m) # {} THEN overlapped \union {m} ELSE overlapped
    /\ Go(r, "refresh", Idle.put, {m})
    /\ UNCHANGED <<version, used, copy, abandoned, revived, backfilled,
                   straddled, stranded>>

(* refresh_moderated_message for the first of the rows S, then the others; *)
(* the request lists them in message order.                                *)
RefreshFirst(r, S) ==
    LET first == Oldest(S, 1)
    IN  req' = [req EXCEPT ![r].at = "refresh", ![r].ids = first, ![r].rest = S \ first]

(* admin_bulk_moderate: of the ids S, the rows that change; afterwards     *)
(* each of these is refreshed in turn.                                     *)
BulkModerate(r, S, delete) ==
    LET changed == {m \in S \cap Row : (m \in deleted) # delete}
    IN  /\ At(r, "idle")
        /\ Cardinality(S) <= BulkLimit
        /\ changed # {}
        /\ Change
        /\ deleted' = IF delete THEN deleted \union changed ELSE deleted \ changed
        /\ overlapped' = overlapped \union {m \in changed : Holding(m) # {}}
        /\ RefreshFirst(r, changed)
        /\ UNCHANGED <<version, used, copy, abandoned, revived, backfilled,
                       straddled, stranded>>

(* The loop goes on with another changed row, or ends.                     *)
RefreshNext(r) ==
    IF req[r].rest = {} THEN Done(r) ELSE RefreshFirst(r, req[r].rest)

RefreshByBroadcast(r, ok) ==
    /\ At(r, "refresh")
    /\ RefreshNext(r)
    /\ UNCHANGED <<rows, copy, marks>>

(* refresh_moderated_message returns early when the row is gone, or its    *)
(* query or the connection to Valkey fails; the loop goes on.              *)
RefreshModerated(r, ok) ==
    /\ At(r, "refresh")
    /\ IF ok /\ req[r].ids \subseteq Row
       THEN Go(r, "delHash", Idle.put, req[r].ids)
       ELSE RefreshNext(r)
    /\ abandoned' = IF ok THEN abandoned ELSE abandoned \union req[r].ids
    /\ UNCHANGED <<rows, copy, overlapped, revived, backfilled, straddled,
                   stranded>>

(* DEL of the hash; a failure is logged and the next DEL still sent.       *)
DelHash(r, ok) ==
    /\ At(r, "delHash")
    /\ hash' = IF ok THEN [m \in Msg |-> None] ELSE hash
    /\ stranded' = IF ok THEN {} ELSE stranded \union {m \in Msg : hash[m] # None}
    /\ Go(r, "delOrder", Idle.put, IF ok THEN {} ELSE req[r].ids)
    /\ UNCHANGED <<rows, order, overlapped, abandoned, revived, backfilled,
                   straddled>>

(* DEL of the sorted set, whose failure is logged too.                     *)
DelOrder(r, ok) ==
    /\ At(r, "delOrder")
    /\ IF ok
       THEN /\ order' = {}
            /\ straddled' = IF \E q \in Req : At(q, "zrem")
                            THEN Msg ELSE {m \in Msg : Holding(m) # {}}
            /\ UNCHANGED abandoned
       ELSE /\ abandoned' = abandoned \union req[r].ids
            /\ UNCHANGED <<order, straddled>>
    /\ RefreshNext(r)
    /\ UNCHANGED <<rows, hash, overlapped, revived, backfilled, stranded>>
-----------------------------------------------------------------------------
(* send_history_page without a cursor: ZRANGE -HotLimit -1.                *)
LoadHotHistory(r) ==
    /\ At(r, "idle")
    /\ LET ids == Newest(order, HotLimit)
       IN  Go(r, IF ids = {} THEN "load" ELSE "hmget", Idle.put, ids)
    /\ UNCHANGED <<rows, copy, marks>>

(* HMGET: a full window is served from the copy, anything less from the    *)
(* database.                                                               *)
ReadPayloads(r) ==
    /\ At(r, "hmget")
    /\ IF Cardinality({m \in req[r].ids : hash[m] # None}) >= HotLimit
       THEN Done(r)
       ELSE Go(r, "load", Idle.put, {})
    /\ UNCHANGED <<rows, copy, marks>>

(* load_messages: root messages only, newest first, reversed.              *)
LoadMessages(limit) == Newest(Row \ Reply, limit)
LoadMessagesBefore(c, limit) == Newest({m \in Row \ Reply : m < c}, limit)

HydrateOldest == Oldest(LoadMessages(HotLimit + 1), HotLimit)

(* database_messages[cache_start..]                                        *)
HydrateSlice == Newest(LoadMessages(HotLimit + 1), HotLimit)

LoadRows(r) ==
    /\ At(r, "load")
    /\ IF HydrateSlice = {}
       THEN Done(r)
       ELSE Go(r, "hydrate", [m \in HydrateSlice |-> View(m)], {})
    /\ UNCHANGED <<rows, copy, marks>>

(* hydrate_hot_history: one MULTI block, no trim.                          *)
HydrateHotHistory(r) ==
    /\ At(r, "hydrate")
    /\ LET put == req[r].put
       IN  /\ hash' = [m \in Msg |-> IF m \in DOMAIN put THEN put[m] ELSE hash[m]]
           /\ order' = order \union DOMAIN put
           /\ Strand(DOMAIN put)
    /\ Done(r)
    /\ UNCHANGED <<rows, overlapped, abandoned, revived, backfilled, straddled>>
-----------------------------------------------------------------------------
(* prune_expired removes the rows older than the retention.                *)
PruneExpired(m) ==
    /\ m \in Row
    /\ Change
    /\ LET expired == {k \in Row : k <= m}
       IN  /\ version' = [k \in Msg |-> IF k \in expired THEN None ELSE version[k]]
           /\ deleted' = deleted \ expired
    /\ UNCHANGED <<used, copy, req, marks>>

(* A command fails, the client goes away or the replica dies.              *)
Fail(r) ==
    /\ ~At(r, "idle")
    /\ abandoned' = IF req[r].at \in {"store", "refresh", "delHash", "delOrder"}
                    THEN abandoned \union DOMAIN req[r].put
                                   \union req[r].ids \union req[r].rest
                    ELSE abandoned
    /\ stranded' = IF At(r, "hdel")
                   THEN stranded \union {m \in req[r].ids : hash[m] # None}
                   ELSE stranded
    /\ Done(r)
    /\ UNCHANGED <<rows, copy, overlapped, revived, backfilled, straddled>>

RequestStep(r) ==
    \/ SaveMessage(r) \/ StoreMessage(r) \/ TrimIds(r) \/ TrimOrder(r) \/ TrimHash(r)
    \/ LoadHotHistory(r) \/ ReadPayloads(r) \/ LoadRows(r) \/ HydrateHotHistory(r)
    \/ Fail(r)

Next ==
    \/ \E r \in Req : RequestStep(r)
    \/ \E r \in Req, ok \in BOOLEAN :
        RefreshModerated(r, ok) \/ DelHash(r, ok) \/ DelOrder(r, ok)
    \/ \E r \in Req, m \in Msg :
        \/ SendMessage(r, m) \/ EditMessage(r, m) \/ DeleteMessage(r, m)
        \/ \E delete \in BOOLEAN : ModerateMessage(r, m, delete)
    \/ \E r \in Req, S \in SUBSET Msg, delete \in BOOLEAN :
        BulkModerate(r, S, delete)
    \/ \E m \in Msg : PublishSystemMessage(m) \/ PruneExpired(m)

Spec == Init /\ [][Next]_vars
-----------------------------------------------------------------------------
(* The page before cursor c: from the copy when it has PageSize messages   *)
(* there, otherwise from the database.                                     *)
HotPage(c) == Newest({m \in Newest({k \in order : k <= c}, HotLimit) :
                        m < c /\ hash[m] # None}, PageSize)

HistoryPage(c) ==
    IF Cardinality(HotPage(c)) >= PageSize
    THEN HotPage(c)
    ELSE Oldest(LoadMessagesBefore(c, PageSize + 1), PageSize)

Pending(m) ==
    \E r \in Req : \/ At(r, "store") /\ m \in DOMAIN req[r].put
                   \/ req[r].at \in {"refresh", "delHash", "delOrder"}
                      /\ m \in req[r].ids \union req[r].rest

(* The copy shows what the database shows.  A cached message differs from  *)
(* its row only while the request that changed the row is under way or     *)
(* after it died, if two requests on the message overlapped, or if the     *)
(* message was edited while deleted (edit_message ignores deleted_at).     *)
FreshUnlessOverlapped ==
    \A m \in order \cap Row :
        \/ hash[m] \in {None, View(m)}
        \/ Pending(m)
        \/ m \in overlapped \union abandoned \union revived

Window == Newest(order, HotLimit)

(* The copy misses no root message newer than an entry x that it serves:   *)
(* trimming and hydration never open a gap.  The gaps there are come from  *)
(* system messages, from senders that died or have yet to store, from an   *)
(* edit that put an uncached x back, from a write of x that straddled an   *)
(* invalidation, or from a trim that did.                                  *)
WindowHasNoGaps ==
    \A x \in Window \ (backfilled \union straddled) :
        \A m \in Row \ (Reply \union System) :
            m > x => m \in order \/ Pending(m) \/ m \in abandoned

(* A payload outlasts its id in the sorted set only until the HDEL of its  *)
(* trim, or where a clean-up failed or a write came between the two DELs   *)
(* of one.  No later trim finds such a payload: it stays in the hash until *)
(* the message is stored again or a moderation drops the whole copy.       *)
NoPayloadLeftBehind ==
    \A m \in Msg : hash[m] # None /\ m \notin order =>
        m \in stranded \/ \E r \in Req : At(r, "hdel") /\ m \in req[r].ids

(* README.md:84: the browser "requests older 50-message keyset pages":     *)
(* a page ends at its cursor, no root message lies between.                *)
PagesReachCursor ==
    \A c \in Row, m \in Row \ Reply :
        m < c /\ HistoryPage(c) # {} =>
            \/ m \in HistoryPage(c)
            \/ \E k \in HistoryPage(c) : m < k
=============================================================================
