# A verification project for Babbleserv

Babbleserv is a Matrix homeserver written in Go. It keeps everything in
FoundationDB, whose transactions are strictly serialisable, and any number of
server processes may run against one database. These TLA+ modules model the
parts of it where requests, transactions and processes interleave. TLC checks
them on small instances and TLAPS proves the main invariants for every
instance.

Paths below are relative to `src/internal/` unless they start with `src/`;
`events_send.go` alone means `databases/rooms/events_send.go`.

## 1. Inventory

| Part | State it keeps | Operations | What is hard | What makes it correct |
|---|---|---|---|---|
| Room send engine (`events_send.go`) | event, version, member, server, reaction and extremity indices of a room; the room object | `SendLocalEvents`, `SendFederatedEvents`, `SendFederatedOutlierMembershipEvent`, `txnStoreEvents` | a federated batch takes three transactions; retries reuse in-memory events; events arrive late, twice, or on forks | the timeline is authorised; the indices agree; what was sent here is stored once |
| State and auth providers (`databases/rooms/events/*.go`) | caches of one transaction | current state, state at a version, auth events | two events may share one state map | current state is the latest versioned state |
| Member and server directories (`databases/rooms/{users,servers}`) | member, outlier, joined-member and server keys | written by the send engine, read by routes and sync | a server is in a room by counting its users | a server is in the room iff one of its users is |
| Routes that send (`routes/client`, `routes/federation`) | none | create, send, join, invite, leave, ban; `SendTransaction`, `SignInvite` | they read in one transaction and send in another, and wait for other servers in between | what they read may be stale without harm |
| Locks (`util/lock/lock.go`) | one lease with a fencing token per name | acquire, refresh, release | a slow holder; a release by a late holder | only the last token's holder writes |
| Events iterator (`workers/events_iterator.go`) | `EventsIteratorPosition` | follow all events, wake federation senders | takeovers, crashes, stop in mid-page, lost notifications, failed reads | the position moves forward over events passed on; every event is passed on |
| Federation sender (`workers/federation_sender.go`, `databases/rooms/servers.go`) | a lock and a position per destination; a map of running senders per process | send transactions, end when idle | at-least-once sends, lost wake-ups, late senders, syncs that read each room at another time | nothing owed is skipped; one transaction ID means one prefix; sent while a sender runs |
| Notifier (`notifier/notifier.go`) | subscriptions, bounded channels, a Redis channel | subscribe, `SendChange` | full channels, loops that stopped | nobody blocks for ever |
| Start and stop (`babbleserv.go`, `routes/routes.go`, `workers/workers.go`) | wait groups of requests' tasks and of workers | start and stop of all parts | order of shutdown | shutdown ends, and ends nothing half done |
| Sync (`databases/rooms/events_sync.go`, `events/pagination.go`) | the caller's token | memberships, a page per room, the first events of all | rooms read at different times | no event missed |
| User profiles (`databases/rooms/user_profiles.go`) | profile; tasks in memory | change, then member events to each room | memberships read before the sends, tasks of two updates at once | rooms show the last profile |
| Batch sorting, missing events (`util/events.go`, `routes/federation/events_send.go`) | none | fetch what is missing, sort by depth and number of auth events | events stored meanwhile, limits, equal depths | nothing forgotten; the batch is in order of depth |
| Key store (`util/keys.go`) | a cache of keys | fetch and verify | concurrent access to the map | – |
| Event reads, types, middleware, configuration, debug routes | none | lookups, encoding, parsing | – | – |

Requests call the send engine, which writes the database and then tells the
notifier; the notifier wakes the events iterator, in whichever process holds
its lock; the iterator reads the new events and wakes the federation senders of
the servers in their rooms, through the notifier again; sync requests wait on
the notifier and read what the send engine wrote.

`PROJECT.json` lists the parts with their status and, under `hazards`, each
place where the code is hard to test, with the property that would catch it.

## 2. Modules

| Module | Models |
|---|---|
| `RoomStore` | one room: local sends, federated batches, the join dance, remote and local invites, and every index they write |
| `Authorisation` | which events the members of a room allow; used by the next two |
| `Timeline` | what the send engine promises about a room, with no requests, batches or transactions |
| `MCRoomStore` | small rooms for TLC |
| `RoomStoreProofs`, `RoomTimelineProofs`, `RoomIndexProofs` | theorems about `RoomStore`, among them that it implements `Timeline` |
| `Lock` | the lease with its fencing token |
| `EventsIterator` | the worker of each process; uses `Lock` |
| `EventCursor` | what the events iterator promises, with no locks, processes or crashes |
| `MCEventsIterator` | two processes for TLC |
| `EventsIteratorProofs` | theorems about `EventsIterator`, among them that it implements `EventCursor` |
| `FederationSender` | the senders of one destination in every process; uses `Lock` |
| `Delivery` | what the senders promise a destination |
| `MCFederationSender` | two processes or two goroutines for TLC |
| `FederationSenderProofs` | theorems about `FederationSender`, among them that it implements `Delivery` |
| `MissingEvents` | fetching the missing events of a transaction and sorting its batch |
| `MCMissingEvents`, `MissingEventsProofs` | depths for TLC; theorems about `MissingEvents` |
| `ServerProcess` | one process while it is stopped: `Babbleserv.Stop`, the notifier, requests, tasks and workers |
| `MCServerProcess`, `ServerProcessProofs` | a small process for TLC; theorems about `ServerProcess` |
| `UserProfile` | a user's profile, the tasks of its updates, and the rooms that show it |
| `MCUserProfile`, `UserProfileProofs` | two rooms for TLC; theorems about `UserProfile` |

### RoomStore

**Transactions.** FoundationDB runs transactions as if one at a time, so the
model has at most one in progress: `phase` says which, `owner` for whom. Its
steps handle one event each, as the loops of the code do, and nothing else
touches the database until `Release`. What interleaves are the transactions of
different calls. A call of `SendFederatedEvents` is a member of `Flights`
with its batch and the transaction it needs next: `step4` (duplicates, auth
events), `step5` (state before the event), `step6` (current state, then
`txnStoreEvents`); `SkipPrevStateCheck` goes from `step4` to `step6`. Local
sends are one transaction (`prepare`, then `store`). A read transaction
(`step4`, `step5`) has no effect beyond its flight. `Retry` is a third
transaction that runs again with the same in-memory events, which keep the
`SoftFailed` flags of the attempts before: after a read or a commit that failed,
or after one that succeeded and whose answer was lost. Values the database has
written under a versionstamp of the running transaction cannot be read in it;
where the code would, the transaction fails (`StoreFailsAt`, `AbortStore`). It
fails as well when it is to store a soft failed event: `ValueForVersionstamp` of
the complete version of its prev event is 13 bytes, and the call that writes it
wants 17 (`HoldsStamp`). No retry helps there, and no event of the batch is
stored. An operation that panics in the code is `AbortStore` too, followed or not
by `Crash`; in the code the process always dies of it, so the model has more
behaviours than the code here.

**Events.** `ev` holds each event that any server ever made; an event's index
is its ID. An event has its prev events, as auth events the member state its maker
had, and whether it was given to another server as it was made (`given`):
remote events, those of a handshake, and invites sent to be signed are; events of
local clients are seen elsewhere once they are in the timeline (`Abroad`). Remote servers
(`RemoteSend`, external) make any event that is allowed on top of any set of at
most `MaxPrevs` events they have. `ReceivePDUs` delivers any batch of events another
server has, made here or there, in any order, any number of times, and twice in
one batch: lost, late, duplicated and reordered transactions, missing prev events,
and a missing event that `getMissingEventsForSendBatch` fetches once for each
event that refers to it are all included.

**State.** Authorisation is reduced to membership: who is joined, invited or
banned, whether the room is public, and that its creator alone may ban and
kick. `log` is the version index: each entry is an event and whether it is
shown in the room's own indices (outliers are not).
`idToVersion`, `members`, `joined`, `servers`, `outliers`, `reactions` and
`extrem` are the indices of the same names. Message events and reactions to
them stand for all non-state events. `shares` and `view` are the state maps of
step 5, of which two events may hold the same map (`view` is a sequence of maps,
`shares` the place of an event's map in it).

**Timeline.** The abstract room has an order of events, its members, its servers
and their count. An event is added at the end if the members there allow it, and
members, servers and count follow at once. `RoomStore` maps the shown versions of
its log to that order (`ShownOrder`), its current member index, server keys and
member count to the rest; each event the send engine stores is a step, and all else it
does is none.

### Lock, EventsIterator, EventCursor

A lock is a token and whether its time has passed. A process goes from
`acquire` (polling) to `subscribe`, reads the position, and then handles
pages: refresh the lock, read a page, notify, until a short page ends the
round and the position is written under the token. `wait` is the loop's
`select`: a wake-up, the refresh timer, or the end of the context. A late
worker is one whose lock expires while it lives (`ExpireSlow`); `MissPage` is a page whose servers could not be looked up; a refresh
under another's token panics, which ends the process. A read that fails
(`FailedRead`) ends the round: the wake-up that started it is used up, the timer only
refreshes the lock, so the worker is `behind` (a history variable) until the next
notification. A write that fails (`FailedUpdate`) leaves the position, and the
events are passed on again. A stopped worker's
context is cancelled, so its reads fail (`CancelledRead`, `CancelledUpdate`) and only
the lock's own transactions, which take no context, still run. `EventCursor` is the promise: events are
stored, handled in any order and any number of times, and the position moves
forward over handled events only.

### FederationSender, Delivery

One destination; another shares with it only the channel of wake-ups. `log` holds
the events of all rooms, of which the destination is owed those this server's
users sent (`Ours`), as long as it stays in their room (`Owed`). `announced` is
how far the events iterator has passed events on, which wakes every process
whose notifier delivers (`Announce`), or not (`LoseWake`). In a process,
`Dispatch` finds a registered sender (`entry`) and wakes it, or starts a goroutine,
which runs `maybeRunServerSender`: `Try` the lock (`FailTry` is the
transaction that failed, or whose answer was lost: tried again it finds the lock it
made, which nobody holds then until it expires), `Register`, then rounds of
`ReadPosition`, `RefreshLock`, the three kinds of transactions of a sync
(`SyncMemberships`, `PaginateRoom` for each room, `ChooseEvents`), `Send` and
`UpdatePosition`, until a sync finds nothing new. A transaction's ID is the
token it starts from, and a token has a version and the bump a sync without
events leaves (`Zero`, `IsToken`), so the first sync of a destination sends an
empty transaction. `FailSend` is a request that failed, whether or not it
arrived; `FailTransaction` one of the database; `Panic` a lock that was taken
over, or a room's page that could not be read. `Release` clears whatever lock
there is. `Delivery` is the promise: events are stored, sent any number of times,
and the position moves forward and never past an owed event that has not arrived.

### MissingEvents

A transaction's PDUs are looked at one after the other; each reference is
found (`AlreadyThere`), fetched (`FetchEvent`) or given up (`LeaveHole`),
in transactions and requests of its own, while other requests store events
(`StoreElsewhere`). Then the batch is sorted with the comparison of the code
(`After`). What `slices.SortFunc` does with a comparison that is no order depends on
its length: up to `Insertion` elements (12 in Go's library) it is an insertion sort,
one element per step (`InsertOne`): the element goes where `StopsAt` says, and
`Moved` is the batch after that. Longer batches it sorts if no two events tie, and
otherwise they may end in any order (`SortLong`). The room's graph (prev events, auth
events, and the depth that each event's server gave it, `Growth` more than that of
its deepest prev event) does not change. `Growth` is 1 for a server that does as the
Matrix specification asks, and mostly 0 for this one.

### ServerProcess

`main` is what `Babbleserv.Stop` waits for: the requests, the tasks createRoom
left, the events iterator, the federation sender, then the end of the notifier
and the tasks profile updates left. Every use of the notifier's unbuffered
channels is a step that needs `Listening`. A change that is announced is one
step for all its items, since the loop takes each without waiting. `loop` may
still serve a channel after it is cancelled, as `select` chooses among ready
cases. The senders' goroutines are in `FederationSender`, whose `StopEnds`
justifies that the federation sender's wait ends.

### UserProfile

Profile and memberships are read and written in one transaction, and a task
sends a member event to each room, each a local send of `RoomStore`, of which only the
join rule matters here: the task of a room the user has left meanwhile joins it again
if it is public or the user was invited back. `overtaken` is a history variable: the rooms to which
one task still had to send as the next update was made.

## 3. What is checked

Invariants and properties are stated, each with a comment, at the end of their
modules. Each is also checked against a mutant, a plausible bug in a definition
that models code, which TLC must find (the operators named for a mutation, such
as `CountRejoins`, stand next to the definition they change).

| Run | Instance | Shows |
|---|---|---|
| `room_batch` | a public room; three users, two of one server; one flight of batches of two, in any order | directories, count and timeline stay right, whatever a batch holds and however often it is tried |
| `room_forks` | a public room with invites, bans, messages and reactions; two prev events, late, missing and repeated events | the timeline is authorised; extremities; what was sent here is stored once; local users react once |
| `room_remote` | an invite-only room of a remote server; two flights | join dance, invites of both kinds, leaving and rejoining, retries; one create event |
| `iter` | two processes, two faults | the worker implements the cursor; every event is handled unless a read failed; a stopped worker stops |
| `fed` | two processes, two rooms, two events, one fault | the sender implements the delivery; one ID, one prefix |
| `fed_live` | two goroutines of one process, fairness | sent while a sender runs; a stopped process stops |
| `batch` | all graphs of four events, two PDUs, two fetches, insertion up to two | the batch is complete, within the limit, and in order of depth |
| `server` | two requests of three kinds, both workers | the notifier outlives its users; a stop is clean, and ends |
| `profile` | two rooms, one of them public; three updates, four moves, one fault | stale profiles only after an overtaken task |

The `find_...` runs each check one property that a comment or an assertion of the
code states and that the code does not have; `PROJECT.json` quotes the line
under `findings`:

| Run | What happens |
|---|---|
| `find_wake_lost` | a sender ends for idleness while the wake-up of a new event arrives, and nobody sends it |
| `find_unsorted` | two events of equal depth, in the right order, are put in the wrong one |
| `find_soft_failed` | a remote event that the current state no longer allows cannot be stored as soft failed, and with it the batch |

**What the code does not promise.** Each of these is in the models' behaviours, and
the properties are what holds all the same:

* An event of another server may be stored twice: by two requests that both pass the
  duplicate check before either stores it (`events_send.go:393`), in a batch that fetched it
  twice (`routes/federation/events_send.go:278`), by a transaction whose commit's answer
  was lost, or, if it is a membership, while its user has an outlier
  (`events_send.go:401`). `SentHereStoredOnce` says which events are not; the
  count, the servers, the timeline and the extremities are right in all cases.
* An event with several prev events, of which some have no state, is reported as
  rejected, judged by the others, and stored if it passes: `continue` continues the inner
  loop (`events_send.go:546`). `TimelineAuthorised` holds since step 6 judges it again.
* An event that arrives after its successors becomes a forward extremity.
  `ExtremitiesExact` says that extremities are the events nothing stored *later* refers to.
* A user of another server may have two reactions of one kind to an event, from one batch or two
  requests; `LocalsReactOnce` is about local users, who react in one transaction.
* A second create event reaches a panic (`events_send.go:991`); `CreateFirst` says that it
  never reaches the timeline.
* A soft failed event fails its batch, so the `SoftFailed` flag that an attempt
  leaves on an event (`events_send.go:658`) cannot get a successor stored on a state the
  timeline lacks: the attempt after that fails as well. Were the write of its version put
  right, `TimelineAuthorised` would have to be looked at again.
* The events of a page whose lookup failed, and those a worker did not read as a read
  failed, are not told until another notification comes (`EveryEventTold` names the latter).
* A late worker clears its successor's lock (`util/lock/lock.go:150`), which then
  panics; `iter` with pages of one event and three faults shows it for
  `LockNeverVanishes`, which no run checks.
* `StopEnds` of `ServerProcess` names one state that it allows: a task of a profile update
  that has an event to announce when the notifier has ended (`LeftBehind`). It waits
  for ever, and `RoomsDatabase.Stop` for it.
* Tasks of two profile updates run side by side, so the older may send its member event
  last (`StaleOnlyIfOvertaken`).

**Bounds.** Rooms have two users, and three where it matters that a server has a
second user, and four or five events: enough for create, join, a remote join, a
ban or leave, and an event that conflicts with it; for a fork and its merge; and for
an event and its repetition. Two flights are enough for a
race between two federated requests, and a local send is always a third party.
`MaxBatch` 2 is an event and its successor, either way round, or twice the same;
`JoinRemote` brings larger batches. `MaxLog` is at least `MaxEvents`; where fewer
events are made it leaves room for those stored twice. Two processes give
a worker and its successor; two faults let a worker be late and its successor be stopped or crash; pages of two events give short,
full and empty pages. In `fed` a transaction holds one event of two, so that a
round needs several, and one fault is enough for a late sender and its
successor, an answer lost, or a crash between send and update; `MaxIdle` is two
for ten, the smallest that tells the first idle round from the last. Four events
are enough for a fork, its merge, and an auth event off the chain of prev events, and
with `Insertion` 2 the batches of `batch` (up to four events) are sorted in both ways.
Channels of one value stand for those of 1000 (and the iterator's is of one).

**Deadlock.** `iter` checks deadlock. The other runs say `CHECK_DEADLOCK FALSE`: the bounds
on events, versions, moves and faults end the workload, so an idle server or
sender with nothing left to do is not an error, and neither are a process that
has stopped (`server`) and a batch that is sorted (`batch`).

**Fairness.** `RoomStore` has none; it states safety only. `FairSpec` of
`EventsIterator` assumes that goroutines run, that a process that ended is
started again (by its supervisor), that a notification that can be sent is
sent, and that the clock goes on, so a lock nobody refreshes expires. No
fairness is assumed of storing events or of faults. Weak fairness of each
case of the worker's `select` is what Go's choice among ready cases gives a
case that stays ready. Notifications may be lost, and nothing makes up for the
last one: the worker's timer only refreshes the lock. `EveryEventTold` therefore
says what the code does give: once the notification of an event, or of a later
one, has been sent, the event is handled, or a worker whose read failed waits for
the notification after that (`Waiting`).

`FairSpec` of `FederationSender` assumes the same of its goroutines and of the
events iterator; a stopped process's calls return since their context is done. Of
faults nothing is assumed. `SentWhileAwake` needs no wake-up: the timer of a running
sender starts a round, and its claim ends where the sender does, of which
`find_wake_lost` shows the gap. `ServerProcess` assumes that goroutines run and that a
channel serves those that wait for it in turn. Strong fairness of
`Leave` is what Go's random choice among ready cases gives: a worker whose context is
done, and whose channel is filled again and again, leaves in the end; of `TaskEnds`,
that a task's list of rooms or invites is finite.

**Symmetry** of flights is used by the room runs, and of rooms and processes by
`fed`; all of them check safety only.

## 4. What is proved

Proofs hold for all users, servers, flights, processes, and bounds, under the
assumptions on constants that the modules name and no others: no theorem has a
hypothesis on behaviours.

* `RoomStoreProofs`. The invariant `TypeInv` is `TypeOK` with `PreparedFits`
  (the events still to be prepared fit under the bound) and `StoreReady` (what is
  being stored has no soft failed event). `TypeOK` alone is not inductive: a local
  send could make more events than the bound has. From it follow `TypeCorrect`, and with one more
  induction each `CurrentStateCorrect` (the current member index is the
  versioned state at the last version) and `ServersCorrect` (the servers are
  those of the joined members).
* `RoomTimelineProofs`. `Chain` adds that each event kept that is not soft failed
  was allowed by the state it was judged on, and that, as long as none before it
  is soft failed, this is the state that storing those before it leaves. A batch
  with a soft failed event, of this attempt or one before it, is not stored, so
  `TimelineCorrect` and `CountCorrect` follow: every shown event was allowed by the
  state before it, so the member count, which follows the events, is right. With both,
  `TimelineImplemented`: every step of the engine is a step of `Timeline` or
  leaves it alone.
* `RoomIndexProofs` follows the events of a batch. `AtWork` says which transaction
  may have which working state, and that what it has to do and what it kept are
  events of its flight; `ShownIndexed`, that the ID to version index knows what is shown.
  + `LastEventCorrect` (extremities are shown, and there is one) and
    `ExtremitiesCorrect` (they are the events no later one refers to) are
    inductions on what a stored event replaces; `HealsCorrect` (a local send leaves one
    extremity) needs `Tips`: each event a local send keeps replaces the extremities
    the one before left.
  + `SentHereCorrect`: an event made here for a client can be in a batch only if it
    is in the timeline (`Carried`), so its flight drops it in step 4, whatever other
    requests do meanwhile (`Checked`), and what a local send is storing is new
    (`LocalFresh`). Memberships are left out, as an outlier lets them pass step 4.
  + `ReactOnceCorrect`: a local user's reaction comes in no batch but as a duplicate; a
    local send has one event, and is checked against the reactions it is stored in
    (`ReactKept`).
  + `CreateFirstCorrect`: the room object exists as soon as the timeline has an
    event (`RoomKnown`), and what is being stored has a create event first or none
    (`StoreOrder`), since the transaction that would store a second one panics.
* `EventsIteratorProofs`. `IteratorTypeCorrect`, and `CursorImplemented`:
  initial states map to initial states and each step to a step of `EventCursor`
  or a stutter, whatever crashes, stops and takeovers happen. Its invariant says that
  tokens are distinct, that everything behind the position is handled (told, or
  on a page whose lookup failed, which the code logs and passes over), that a
  process whose token is still in the lock started from the current position,
  and that everything between its start and where it is has been handled since,
  unless it is being stopped, when it cannot write. It has no assumption but those
  on the constants.
* `FederationSenderProofs`. `SenderTypeCorrect`, with one conjunct added: a goroutine that
  does nothing has no token. For the others, `DeliveryInv` adds that the tokens of
  goroutines differ (so only one holds the lock), that every owed version up to
  the position has arrived (`NothingSkipped`), that a transaction holds a prefix of
  what was owed after its ID (`TxnOK`), and of every goroutine what its program
  counter promises (`SendingOK`): the holder of the lock started from the
  position; what it has read of a room is the first events after that, up to the
  version it read; what it chose is the first of all rooms; and what it is
  about to record has been sent. An event stored after the sync read its version is
  beyond it, and one whose room the destination left meanwhile is owed no more:
  that is why reading each room at another time does no harm.
  `DeliveryImplemented` and `SameIDCorrect` follow.
* `ServerProcessProofs`. `TypeCorrect`; `NotifierIsLast` and `StopsClean` from an
  invariant that says what has ended at each phase of `Stop`: once `main` is
  past a component, what that component waited for has ended and cannot begin
  again. It needs nothing but the order of `StopOrder`.
* `UserProfileProofs`. `StaleOnlyThere` from the invariant that, outside the overtaken
  rooms, only the last update's task has work left, and an older profile is
  shown only where it has.
* `MissingEventsProofs`. `TypeCorrect`, and `NothingForgottenCorrect` from the invariant
  that each PDU is in the stack, looked at, or in the batch, and that each reference
  of an event of the batch, or of the one looked at, is in one of those, stored, a
  hole, or still to be handled
  (`KeptInv`). `DepthOrderCorrect` from the invariant that the first `sorted` events of
  the batch are in order of depth unless the batch is long and has ties (`InOrder`): an
  insertion moves an event before those it is not deeper than, ties included. That
  depth is no order of references is shown by `find_unsorted`.

Only model-checked: `EveryEventTold`, `SentWhileAwake` and the three `StopEnds`, since
liveness under fairness is beyond the proof system. Every safety property that a run
checks has a theorem.

## 5. What is not modelled

State other than members (power levels, join rules that change, room names),
redactions, depth (but in `MissingEvents`), the encoding of keys and (but for a soft
failed event's) of versionstamps,
signatures, and the content of events; other rooms than the one of `RoomStore`.
gomatrixserverlib (authorisation and state resolution), FoundationDB, Redis and
remote servers are external and modelled by how the code uses them.

Sync for a user has no caller (`routes/client/sync.go` answers that it is not
implemented); the sync of a server is in `FederationSender`, where the ranges
per membership never apply, as the lookup of a server's membership changes
returns none (`databases/rooms/servers/memberships.go:64`). The key store is a
map used without a lock: a race on it ends the process or does nothing, which
leaves no state to relate. A stop before the goroutines of the workers have begun
(they add themselves to their wait group) is left out of `FederationSender` and
`ServerProcess`, whose processes start with them counted. A profile update that
changes nothing returns early and is no step. Debug routes, middleware,
accounts and configuration have no behaviour of this kind, and event reads and
encodings no state.

## 6. Plan

Done: `RoomStore`, `Lock` and `EventsIterator` with their proofs; then
`FederationSender` with `Delivery`, `ServerProcess`, `MissingEvents` and
`UserProfile` with theirs.

Left, in this order:

1. Several destinations over one channel of wake-ups, composing
   `EventsIterator`, `ServerProcess` and `FederationSender`.
2. Join rules and power levels in `RoomStore`, so that the auth events an event
   names (`databases/rooms/events/providers.go:217`) matter.
3. Sync for users once a route calls it.
