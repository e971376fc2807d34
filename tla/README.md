# Formal model of the vussa chat backend

TLA+ specifications of the parts of vussa in which several actors share state:
replicas of the backend over one PostgreSQL and one Valkey, tasks within a
replica, browsers, and background workers. TLC checks them on small instances;
TLAPS proves the core results for every instance. Paths below are relative to
`backend/src/` unless they start with `frontend/`, `README.md` or `plan.txt`.

    tlc -workers 2 -config MCOutbox.cfg MCOutbox      # a model-checking run
    tlapm OutboxProofs.tla                            # the proofs

## 1. The system

| part | state | operations | interacts with |
|---|---|---|---|
| transactional outbox (`outbox.rs`) | `outbox_events` rows | queue in the producer's transaction, claim, dispatch, acknowledge | sessions, notifications |
| sessions (`auth.rs`, `api/account.rs`, `api/admin.rs`) | a Valkey hash per session, a set per user, the account row | login, logout, revoke, list, change password, delete, update, administrative changes, invalidate | outbox |
| login (`auth.rs`) | rate-limit counters, verification flights, a semaphore | count, expire, start or join a flight, verify, answer | sessions |
| room manager, WebSocket loop (`websocket/rooms.rs`, `websocket/handler.rs`) | client counts, receivers, the command queue, the Pub/Sub connection | subscribe, release, route, reconnect; join, switch, leave | history, membership |
| history (`websocket/history.rs`, `repository/postgres.rs`) | message rows; hash and sorted set in Valkey | send, edit, delete, moderate, hydrate, trim, prune, page | messaging |
| message sending (`websocket/handler.rs`, `api/notifications.rs`, `frontend/src/routes/+page.svelte`) | the browser's pending list, rows by client id, notifications | send, replay, save, notify, queue a retry | outbox, delivery |
| notification delivery (`notifications/delivery.rs`) | `notification_deliveries` rows, spawned tasks | claim, deliver, acknowledge, release | messaging |
| membership (`api/members.rs`, `api/channels.rs`, `services.rs`) | owner, roles, invite link, `deleted_at` | invite, remove, promote, leave, transfer, link, accept, delete, undelete | rooms |
| files (`api/media.rs`, `storage.rs`, `bootstrap.rs`) | rows, blobs, attachments | scan, put, insert, undo, attach, prune, claim, delete | messaging |
| presence, shutdown (`websocket/presence.rs`, `websocket/handler.rs`, `bootstrap.rs`) | an expiring key and a set entry per user, the socket loop, the shutdown flag | refresh, list, remove, heartbeat, switch, close | rooms |
| direct conversations (`services.rs`) | rows under a partial unique index, members | open, leave, delete, undelete | membership |
| reactions (`websocket/handler.rs`, `websocket/history.rs`) | rows, the list a browser shows | react, read, publish | rooms |
| bans and posting rights (`api/channels.rs`, `api/admin.rs`) | bans, rank, `archived_at`, `posting_restricted`, `deleted_at` | check, write; ban, archive, restrict, delete | membership, messaging |
| administrators (`api/admin.rs`) | roles, disabled and deleted users | assign, count and remove, disable, delete | sessions |
| account recovery (`api/account.rs`) | recovery tokens | request, replace, reset, expire | sessions |

What makes these hard to test: claims expire under a running worker; a Valkey
request is a sequence of commands other requests interleave with; checks are
made outside the transaction that relies on them; Pub/Sub forgets; replicas die
between any two steps; browsers replay what they do not know to be saved.
`PROJECT.json` lists each such hazard with its line and the properties about it.

## 2. Modules

One module per component; an `MC` module adds the symmetry sets for TLC, and
the constants are bound in the `.cfg` of the same name.

**Outbox** - the table's columns are variables (`queued`, `attempts`,
`claimAge`, `published`); `batch` and `outcome` are a worker's local state.
`ClaimEvents(w)` is the claim query (unpublished, fewer than `MaxAttempts`
attempts, unclaimed or lapsed, oldest first, at most `BatchLimit`, skipping
locked rows), `Dispatch` is a handler's run with either outcome, `FinishEvent`
the update guarded by `published_at IS NULL`, which may itself fail. `Tick` ages
claims up to the point where they have expired. `Crash(w)` drops a batch in any
state. **DurableQueue** is what producers may assume: a job is stored once, may
be tried several times and is done only after a try succeeded.
`ImplementsDurableQueue` is the refinement.

**Sessions** - one user's hashes (`absent`, `full`, `userOnly`), the index, the
account row and its pending invalidations. Each Valkey command is one action,
`req` says where each request is; `Fail` ends one anywhere. The history
variables `born`, `raced`, `late`, `spared` name the sessions the properties
exempt.

**Login** - `Incr`, `SetExpire` and `ReadTtl` are the commands of the rate
limiter; `Subscribe` looks up or starts a flight under the map's mutex; a flight
waits for a permit or times out, verifies or panics, sends its result and leaves
the map (`Send`, `Unregister`). Callers may be dropped at any point; when all of
a flight's have been, `send` stores nothing (`unsent`), and one who subscribes
before the flight leaves the map is answered by its closing.

**Rooms** - sockets (`pc`, `ch`, `rx`), the manager (`clients`, `upstream`, the
bounded `commands`) and the connection. `Joined` is the start-up after a granted
subscription, history load included; `Route` delivers the head of the stream to
the holders of its room, some of which may lag; `NoticeLoss` signals a resync to
every connected socket, `Reconnect` restores the subscriptions. `strayed` names
the rooms released by a socket that never held them.

**History** - rows (`version`, `deleted`), the copy (`hash`, `order`) and
requests between the commit and the Valkey commands that follow it. `Msg` is
ordered by time. `HydrateSlice` and `HistoryPage` are the pure parts. Bulk
moderation updates all rows in one statement and refreshes one by one. A refresh
may fail at its query, at the connection or at either `DEL`, and the loop goes
on; `abandoned` names the messages whose copy was not seen to. `straddled` names
what was on its way to the copy when it was last invalidated. An invalidation
between a trim's `ZRANGE` and its `ZREM` marks every message: the ids were read
from a copy that is gone, and the `ZREM` may take one that a reader has put back
since, and which is by then among the newest. `stranded` names payloads left in
the hash without an id in the order: a trim died between its `ZREM` and its
`HDEL`, the `DEL` of the hash failed, or a payload was written between the two
`DEL`s.

**Delivery** and **Messaging** - Messaging extends Delivery: one message, its
replays, its rows, its recipients' notifications with their delivery jobs, and
the outbox events that retry a failed creation. The unique index is on the
session and the client id and the browser keeps its pending list over a new
sign-in (`SignIn`), so there may be one row per session. A save, like a call of
the webhook (`Deliver`), succeeds, fails, or takes effect while its answer is
lost; `unsure` names the jobs of which such a call, or an expired claim, may
have made two. The outbox appears through its promise (module DurableQueue) plus
the possibility of giving up.

**Membership** - one private channel. An action with a handler's name makes its
checks, the `...Commit` action runs its transaction; `AcceptInviteLink` takes
the row lock of `FOR UPDATE`, which `DeleteChannel` and the others wait for.
`stale` records a transfer or departure committed on a check no longer true.

**Files** - uploads, attachments and cleanups; claiming an orphan sets
`deleted_at` and may be repeated, so two cleanups may work on one file. `raced`
names files claimed between a message's check and its save, `leaked` blobs of
failed uploads.

**Presence** - one user's tabs and the entry and key they share for a channel, a
tab of another user that lists and then follows the channel, and the shutdown
flag. `sock` is where each socket task is; `refresh_presence`, the `SMEMBERS`,
`MGET` and `SREM` of `list_presence`, `remove_presence` and every broadcast are
separate steps that may fail. When the list of a switch fails the tab goes on
with an empty one (`WatchListFails`) until the next event. A tick of the clock
is one heartbeat interval.

**Direct** - `open_direct` statement by statement: the insertion that conflicts
with a live row and waits for an uncommitted one, the `SELECT` that may find the
row deleted meanwhile, the members, the commit. `away` records who left since.

**Reactions** - a press writes its row, reads all rows and publishes what it
read; a browser that joins starts with an empty list (`Join`). `doubt` names the
users a browser may be wrong about: those of presses that overlapped the one
heard last, those of an event lost since, and those who had reacted when the
browser joined.

**Posting** - what stands against a request (`Bars`: a ban, no membership, a
deletion, an archiving, a restriction), the three queries that look
(`CheckAccess`, `CheckPosting`, `CheckRole`), the write, and every change in
between. `throughout` and `ever` remember which bars stood all the time and
whether any did; `lifted` marks the one pair of changes that can refuse a
request although it was never barred at any single moment: the restriction ends
and the moderator is demoted between the two queries about them.

**Accounts** - the count of `admin_remove_role` and the deletion of its role in
a later statement, against other removals, disablings and deletions.

**Recovery** - tokens of an account: the `DELETE` that finds its rows before it
waits for locks, the new token, and the reset under `FOR UPDATE`.

External systems (PostgreSQL locks and conflicts, Valkey commands, object
storage, Tokio channels) are modelled by what the code relies on.

## 3. Runs

Every property carries a comment in its module that states it in words. "No
deadlock check" means the system may stop: all messages sent, all bounds used.

| run | instance | distinct states | checks |
|---|---|---|---|
| `outbox` | 2 events, 2 workers, 3 attempts | 110 thousand | `ExclusiveUnlessLapsed`, `HandlerRunsBounded`, `EventuallySettled`, `ImplementsDurableQueue` |
| `outbox_delivery` | 1 event, 2 workers, 5 attempts | - | `EventuallyHandled`: violated |
| `sessions` | 2 sessions, 2 requests, 2 account changes | 2.2 million | `IndexedUnlessRaced`, `SurvivorsOverlapped`, `EndedStaysEnded` |
| `rooms` | 2 sockets, 2 channels, 1 message, queue of 2 | 2.4 million | `CountsHolders`, `RoomsSubscribed`, `NoSilentGap` |
| `rooms_live` | the same without messages, fair | 43 thousand | `SubscribeAnswered`, `DeafSocketsRecover` |
| `rooms_members` | 1 socket, 1 members event, fair | - | `RoomEventsReachHolders`: violated |
| `history` | 4 messages (a reply, a system message), 2 requests, copy of 2 | 2.1 million | `FreshUnlessOverlapped`, `WindowHasNoGaps`, `NoPayloadLeftBehind` |
| `history_pages` | 3 messages, 1 request, pages of 1 | - | `PagesReachCursor`: violated |
| `messaging`: replays | 1 recipient, 2 sessions, 2 handlers | 120 thousand in all | `ClearedIsDurableOnce`, `SeenMeansNotified` |
| - deliveries | 1 recipient, 1 session, 2 tasks | | `TypeOK`, `DuplicatesExplained`, `SentIsFinal`, `EventuallySent` |
| `membership`: members | 3 users, 2 requests, a link for 1 use | 1.3 million in all | `OwnerHoldsRole`, `LinkAdmitsAtMostMaxUses`, `JoinsOnlyLiveChannel` |
| - direct | 2 rows, 3 requests | | `PeersMeet` |
| - presence, shutdown | 2 tabs, 2 channels, key of 3 intervals, 1 miss | | `PresentUnlessDisturbed`, `GhostsExpire`, `ViewFollows`, `FlagObserved` |
| - reactions | 3 users, 2 presses | | `ReactionsShown` |
| - posting | 2 bans, 1 request | | `BarsObeyed` |
| - accounts | 3 accounts, 2 removals | | `AdministratorRemains` |
| - recovery | 3 tokens, 2 requests | | `LatestTokenOnce` |
| `login` | 2 callers, 2 keys, 3 flights, 1 permit | 127 thousand | `OneFlightPerKey`, `PermitsAccounted`, `CountersExpire`, `CallersAnswered`, no deadlock |
| `files` | 2 files, 2 messages, 2 cleanups | 45 thousand | `AttachedFilesKept`, `BlobsHaveRows`, `OrphansRemoved` |

`membership` explores seven components that share no variable, one per
behaviour (`part`), in one state graph. No property relates two of them, so
nothing is lost by letting the others rest. The behaviours with a watching tab
end at the first event it misses: from there on `ViewFollows` says nothing until
it joins again, which is as a first join, and no other part reads what it shows.

`messaging` has two parts too. In `replays` the delivery loops stand still and
two handlers, of either session, overlap; in `deliveries` there is one session
and one connection at a time, and two tasks share the rows. All properties are
checked in both, but those in the table's second row, and the liveness property
above all, say something in the second part only. The theorems hold without
this division.

The type invariants of all modules but Messaging, and
the two facts about publication that the refinement contains
(`PublishedWasHandled`, `PublishedIsFinal`), are proved and no longer part of a
run. That of Messaging, which says that no delivery row waits and is sent at a
time, is proved and checked.

Several invariants have a conditional form: the agreement holds *except* for
items a history variable has marked, and the action that marks them is the exact
race the code permits. Thus `SurvivorsOverlapped` says that a session outlives
its invalidation only if its login overlapped the account change, and
`OwnerHoldsRole` that ownership goes astray only through a transfer or a
departure whose check was stale; `PresentUnlessDisturbed` that a user who keeps
sending heartbeats vanishes only when another of their tabs leaves or a list
removes what it took for stale; `AdministratorRemains` that the last
administrator goes only by a removal that counted before another loss, or by a
disabling or deletion, which count nobody. The exceptions are behaviours of the
code as written; they are listed as hazards.

### What the violated properties show

* `EventuallyHandled` - README.md:157 promises at-least-once delivery for crash
  recovery. An attempt is counted when an event is claimed, so five crashes
  between claim and dispatch retire an event that no handler has seen, even if
  a handler tried infinitely often would succeed.
* `RoomEventsReachHolders` - plan.txt:277 says membership refresh events reach
  connected clients. The manager's routing match has no arm for `Members` and
  drops them.
* `PagesReachCursor` - README.md:84 describes older pages as keyset pages. From
  the database, `send_history_page` loads one row too many, sorts ascending and
  truncates, which drops the row next to the cursor; the next page starts
  further back.

## 4. Bounds

* Two actors on each side are enough for every race the properties name: each
  is between one check and one write of another actor. Where a third matters (a
  transfer between two users while another holds the link) there are three
  users. Of these only the creator has `chat:moderate`, so that an owner without
  it and a moderator who is no longer the owner both occur.
* `MaxAttempts` is 3 in `outbox` (the code's 5 in `outbox_delivery`): room for a
  lapse, a crash and a success on one event. The theorems hold for every value.
* Claim timeouts are one tick: only "before" and "after" expiry differ. The
  retry delay grows over one, two and three ticks (`MaxShift` 2, `MaxDelay` 3),
  past the timeout, and is capped.
* Two `Sessions`: a handler of the old one may still run when the message is
  replayed in the new one.
* `HotLimit` 2 of 300, `PageSize` 1 of 50, `BulkLimit` 2 of 100: trimming,
  hydration beside a page and a bulk request of more than one row all occur.
* `MaxChanges` bounds account changes (`Sessions`) and edits or moderations
  (`History`); `UseBound` the uses of an unlimited link, `MaxCount` the
  rate-limit counter (it saturates).
* `Presence`: a key of 3 intervals outlives one missed heartbeat (`Misses`), as
  the code's 45 seconds do; `InboxCap` lets the watching tab be two events behind.
  The shutdown is explored without the watching tab and vice versa.
* Three direct requests are an open that inserts, one that conflicts and a
  departure; a second row comes after a deletion. Three tokens let a request
  replace a token while a reset holds another.
* Symmetry is used over requests, sockets, session ids and users other than the
  creator, in runs without liveness properties only.

## 5. Fairness

* **Outbox** - weak fairness of time and of each worker's claiming, dispatching
  and finishing: `run_outbox` is an endless loop on every replica. Nothing is
  assumed of outcomes or crashes; `EventuallySettled` says an event ends up
  published or out of attempts. `RecoverySpec` adds strong fairness of a
  successful run, and `EventuallyHandled` fails even so.
* **Rooms** - weak fairness of the sockets' own steps, of noticing a loss and of
  reconnecting (the manager retries for ever). Strong fairness of sending a
  command and of the manager's two branches: Tokio's `select!` picks among ready
  branches at random, and channel senders queue in order.
* **Delivery** - weak fairness of the claim loop and of the tasks it spawned;
  strong fairness of a successful call and of its acknowledgement, that is, a
  webhook and a database that are not down for ever.
* **Login** - weak fairness of every caller's and every flight's next step.
* **Files** - strong fairness of the cleanup's claim and deletions: it runs
  every hour, and a store is not down for ever.

## 6. Proofs

**OutboxProofs** proves, for all sets of events, all finite sets of workers and
all limits: `TypeCorrect`, `ClaimsAreExclusive`, `RunsAreBounded`,
`PublicationIsEarned`, `PublicationIsFinal` and `OutboxImplementsQueue`. Assumed
of the constants: events are integers (the order of creation), workers are
finite, the limits are natural numbers with a batch of at least one, and the
values for "no claim" and "no outcome" are neither ages nor outcomes. None of
the safety properties is inductive. `OutboxInv` strengthens them: a standing
claim backs the one holder of an event that never lapsed; a published row
carries no claim and was handled; a positive outcome on its way belongs to a
handled event; and the runs so far plus the claims not yet dispatched are at
most the attempts. The last one carries the bound on runs: a claim raises both
sides, a dispatch moves one unit from claims to runs, a crash lowers the left
side only. The lemmas `CountAdd`, `CountRemove` and `CountSubset` do the
counting. Refinement follows action by action: `Enqueue` is the queue's put,
`Dispatch` a try, a publishing `FinishEvent` its completion, and all else
stutters.

**ChannelProofs**: *membership* - `MembershipTypeCorrect`, `OwnershipIsKept`,
`LinkLimitIsKept` and `LinkJoinsOnlyLiveChannel` for all users, requests and
limits, given that the creator is a user, the bounds are natural numbers and
`NoReq` is not a request. `MembershipInv` adds that a request about to join
holds the row lock, and that while the lock is held the link is usable: its
channel is live and a use is left. This is what makes check and increment one
step although others run in between. *Direct* - `PeersMeetAlways`. `DirectInv`
extends the unique index to uncommitted rows: at most one request has inserted a
row, and only while none is live. Who is not a member when an open commits has
left since it looked. *Reactions* - `ReactionsShownAlways`: a list about to be
published, and the list shown, are right about everyone the presses since the
last moment of rest did not touch, and a press that was alone read exactly what
is stored (`UnderWayInv`). *Posting* - `BarsObeyedAlways`, without assumptions
on the constants. `PostInv` says that the bars that stood throughout stand now,
so each passed check removes its own from the set until none is left at the
write, and that a bar that stands now has been met.

**AccountProofs**: *administrators* - `AdministratorRemainsAlways` for any
finite set of accounts with the first administrator in it; a count that is not
stale still has two administrators behind it. *Recovery* -
`LatestTokenOnceAlways`: only one reset holds a token, the token is unused while
it does, and a request that is not stale saw every unused token. *Login* -
`OneFlightPerKeyAlways`, `PermitsAccountedAlways`, `CountersExpireAlways`.
`MapInv` is the one-to-one correspondence of registered keys and tasks that have
not landed; `PermitInv` counts the verifying tasks.

**PresenceProofs**: `PresentAlways`, `GhostsExpireAlways`, `ViewFollowsAlways`
and `FlagObservedAlways`, for any tabs and channels and any lifetime longer than
the heartbeats that may be missed. `PresenceInv` balances the lifetime left
against the intervals and misses since the last refresh (`KeyInv`), says that a
key without a fault is owed a removal by a tab (`OwedInv`), that an unowned key
ages with the empty room (`EmptyInv`), and what the events on their way will
make the watching tab show (`ViewInv`).

**SessionsProofs**: `IndexedUnlessRacedAlways`, `SurvivorsOverlappedAlways` and
`EndedStaysEndedAlways` for any session ids, requests and changes. `ReqInv` says
for each command of a request what it may rely on; its core is that whoever is
about to delete has, among the ids it still holds, every session that loads
except those created meanwhile.

**MessageProofs** follows a message to its recipients. *Deliveries* -
`DuplicatesExplainedAlways` and `SentIsFinalAlways` for any rows, tasks, claim
timeout and retry delays. `ClaimInv`: as long as no claim on a row has expired
and no call that took effect returned an error, the row has at most one task and
none when it may be claimed, and what the recipient accepted is recorded, or
still claimed by the one task that is about to record it or that died. *Sending*
- `ClearedIsDurableOnceAlways` and `SeenMeansNotifiedAlways` for any recipients,
sessions and handlers. `SendInv` says what a handler has behind it at each of
its steps: whoever answers the sender has found or saved the row of its session
and has created or queued the notifications, and a message is cleared only by
such an answer. The proof is in two parts, as the module is: a step of the
delivery loop leaves the sender alone (`DeliverySide`), and a step of a handler
touches the deliveries only by adding rows (`AddDeliveriesInv`). *Files* -
`AttachedFilesKeptAlways` and `BlobsHaveRowsAlways`. What a cleanup has in hand
is past its upload and never live again (`CleanupInv`); what a message has in
hand was answered (`UploadInv`).

**HistoryProofs**: `FreshUnlessOverlappedAlways`, `WindowHasNoGapsAlways` and
`NoPayloadLeftBehindAlways` for any messages, requests, changes and size of the
window. Assumed: messages are integers (their order in time), the limits are
positive, and the values for "hidden" and "none" are not versions. `HistoryInv`
has four parts beside the types. `ShapeInv`: a sender holds one message, which
nobody else knows until its row is saved. `HeldInv`: what a request is about to
write is what the database shows, unless the row was rewritten meanwhile; this
is what keeps the copy fresh. `GapInv` explains every root message that is newer
than an entry of the copy and not in it: its sender has yet to store it or died,
or the copy has `HotLimit` newer ones (`Outdated`). The same is said of entries
on their way, by a sender or by a hydration, and of the ids that a trim has
read. An outdated message lies below the window, so `WindowHasNoGaps` follows.
Two facts about finite sets of integers carry it: the newest n of at least n
members are n (`NewestCardinality`), and removing only what has n members above
it leaves n members above whatever had them (`TrimKeepsNewest`), so that
concurrent trims do no harm to each other. `NoPayloadLeftBehindAlways` needs one
more fact, that from the first `DEL` of an invalidation to its second every
payload in the hash counts as stranded (`StrandInv`). `Moves` says what any step
does to the requests it does not belong to, once for all actions.

The proof found what the run's instance is too small to show. `WindowHasNoGaps`
once demanded a full window and exempted only writes that straddle an
invalidation; the step of `TrimOrder` could not be proved. With five messages,
two of them replies, TLC then gives the behaviour: a trim reads its ids, a
moderation deletes the copy, a reader hydrates older roots, the late `ZREM`
removes one of them, and a new message completes a full window with a gap. The
property now exempts a trim across an invalidation too, and no longer asks for
a full window.

**RoomsProofs**: `CountsHoldersAlways`, `RoomsSubscribedAlways`,
`NoSilentGapAlways` for any sockets, channels, messages and queue. A `Subscribe`
in the queue is the only one of a socket that waits and holds nothing
(`SocketInv`, `CommandInv`), so that granting it adds exactly one holder; while
the manager retries, all holders have been told (`HoldInv`).

Each also proves its type invariant, as a theorem (`TypeCorrect`,
`SessionsTypes`, `LoginTypes`, `FilesTypes`, `RoomsTypes`, `MessagingTypes`,
`HistoryTypes`) or within its inductive invariant. The assumptions on constants
are the named `ASSUME`s of the modules: values for "none" lie outside the sets
they extend, and bounds are natural numbers. Leaves that need first-order
reasoning only cite Zenon, the others go to the SMT solver. The one induction
over data, in `NewestCardinality`, takes a smallest suitable subset of a finite
set, whose subsets are well-founded under strict inclusion.

Only model-checked: every liveness property (`EventuallySettled`,
`SubscribeAnswered`, `DeafSocketsRecover`, `EventuallySent`, `CallersAnswered`,
`OrphansRemoved`), as fairness is out of the prover's reach. Every safety
property that a run finds to hold is also proved.

## 7. Not modelled

* Typing, read state, drafts, saved messages, favourites, profiles,
  preferences, subscriptions, reports: single-row updates or a plain broadcast.
* Renaming a channel, descriptions and retention periods: a socket that is in a
  renamed channel goes on with the old name; no module has names.
* What other members' sockets show when a sender's handler dies between the
  save and the broadcast: they get the message with their next history.
* The removal of notifications and their deliveries with a message that
  retention prunes, by `ON DELETE CASCADE`: `EventuallySent` is about rows whose
  message is kept.
* Overflow of a socket's control receiver (128 events): the socket logs how many
  events it skipped, so a resync among them is lost to it. `NoticeLoss` takes it
  that a socket reads the resync before 128 further control events arrive.
* Search, link previews, health: read-only or outbound I/O.
* The Valkey pool, bootstrap, routing, configuration, metrics: wiring. Failures
  of Valkey and PostgreSQL are `Fail`, `GiveUp`, `Crash` and similar actions.
* Cryptography (password hashing, request signing), mail, payload encoding,
  message texts: data the properties do not tell apart, and outbound I/O.
* The load generator in `bench/` is a client, not part of the service.

## 8. Plan

Done: all components with shared state, and proofs of all their safety
properties.

1. **Composition** - Messaging over an instance of DurableQueue, so that the
   outbox's promise is used by its client in the same specification; Posting
   over Membership, whose steps are one nondeterministic change there.
2. **Abstraction** - what Delivery promises its producers. DurableQueue does not
   fit: a delivery may be tried any number of times.
