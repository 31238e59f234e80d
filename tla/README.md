# TLA+ verification of newchat

newchat is a multi-site chat backend: Go services around NATS JetStream (work
queues, at-least-once delivery), MongoDB (rooms, subscriptions, threads, keys),
Cassandra (messages), Valkey (presence, caches) and Elasticsearch. Each room has
one home site and each user has one; a user's subscription to a remote room is
held twice, at the room's site (the *origin*) and at the user's site (the
*replica*), and the sites tell each other of changes through an outbox and an
inbox.

This directory holds TLA+ models of the protocols inside it, TLC configurations
that check them on small instances, and TLAPS proofs. Paths are relative to
`src/`. `PROJECT.json` lists components, runs, mutants, the source lines of every
definition, findings, hazards and theorems.

What most parts have in common, and most modules are about: a handler is a series
of calls to stores that know no common transaction; it may fail or die after any
prefix; JetStream then delivers its message again, from the start, possibly after
later messages and on another goroutine. Correctness is what remains true of the
documents after all that.

## Parts and modules

| part | what it keeps | module |
|---|---|---|
| roomlist-worker | pending batch of coalesced updates; `rooms.lastMsg*`, `subscriptions.lastSeenAt/hasMention` | `RoomList`; `RoomListProofs` |
| room-service subscription RPCs, outbox-worker, inbox-worker, and what room-worker, message-worker and broadcast-worker send to another site | one subscription and one thread subscription, at two sites | `Federation`, `SubDoc`; `FederationProofs`, `FederationConvergeProofs` |
| room-service admission of member requests, room-worker, `pkg/roomkeystore` | subscriptions, member rows of individuals and organisations, counter, cross-site mark, room keys | `RoomMembers`, `KeyLedger`; `RoomSerial`, `RoomMembersProofs`, `RoomRosterProofs`, `RoomSerialProofs` |
| message-worker and history-service on thread replies, `pkg/threadcount` | reply rows in up to three tables; reply count and time on two copies of the parent | `ThreadCount`; `ThreadCountProofs` |
| message-worker's thread state, room-service's thread read | thread room and followers, thread subscriptions, unread and mention marks, the parent's link | `ThreadReplies` |
| message-worker in an outage, `pkg/histdegrade` | per-pod tracker, shared marker, redelivery set, drop limiter | `HistoryMarker` |
| user-presence-service | connections, override, external status, materialised status, sweep and in-call indexes | `Presence`; `PresenceProofs` |

The modules meet where the code's parts meet: `Federation` composes the handlers
of five services with both relays over one pair of documents (`SubDoc` is that
document and every update of it); `RoomList` has room-service's read RPC as a
second writer; `ThreadCount` has message-worker and history-service on the same
rows; `ThreadReplies` has the read RPC; `RoomMembers` has room-service's checks,
its `key.ensure` RPC and room-worker on the same room. The `MC*` modules hold the
instances.

An operator placed just before the one whose name it extends (`NewerAny` before
`Newer`, `PingOnlyKnown` before `Ping`) is a faulty variant of it. The
specification does not use it; substituting it must break a property.

### RoomList

State: the clock; the events in MESSAGES-CANONICAL; the durable consumer
(`acked`, `outstanding`); per replica its lifecycle `mode`, its `pending` batch
and whether an early drain is `due`; per writer (the ticker and the consume loop
of each replica) the batch in `flight`, its stage and the models of that stage
still to be answered; the documents; reads in progress.

| action | code |
|---|---|
| `Consume` | `consumeLoop`, `deriveIntents`, `batch.add`; a malformed event is acked at once |
| `Flush`, `flushNow` | swap of the pending batch by the ticker, and by the loop when the mention budget is reached |
| `WriteModel`, `WriteFails` | one document of an unordered bulk write is applied, rejected for good, or fails transiently, written or not |
| `EndStage`, `settle` | `classifyFlushErr`, the order rooms, lastSeenAt, mentions; ack or nak of every held message |
| `StageTimeout` | the flush deadline, or the cancelled flusher: what the stage has not written stays unwritten |
| `BeginShutdown` ... `Restart`, `Crash` | the ordered shutdown of `main`, a new process, a death at any point |
| `StartRead`, `UpdateSubscriptionRead` | `messageRead`: `now` first, the unguarded write later |

`overrun` is a history variable: the events newer than a late read's `now` which
that read nevertheless cleared. `BadgeNotLost` and `SenderHasRead` except them,
because room-service's write is unguarded and the worker can do nothing about it.

### Federation and SubDoc

State: the room's name and restriction, origin and replica of one subscription,
one thread subscription on each side; handlers in progress; the ordered (FIFO)
and concurrent (set) outbox lanes; inbox-worker's `membershipCh`, its worker
`pool`, membership messages `parked` until redelivery; the events given up
(`dropped`). `work`, chosen in `Init` and never changed, says which operations a
behaviour may start and how many faults and repeated forwards it has.

Every handler is a record that says which documents it writes, which event it
publishes, and what it checks first; `Start`, `WriteRoom`, `WriteSub`,
`WriteThread` and `Publish` execute it one step at a time, and `RpcFails` ends it
between any two steps as the error returns do. For room-worker and
message-worker `WorkerFails` starts it again: their requests are redelivered.
`ForwardOrdered` and `ForwardConcurrent` are outbox-worker, with a second forward
after a lost ack. `HandleMembership`, `MembershipFails` and `Redeliver` are the
membership lane; `PoolApply`, `PoolCheck`, `PoolClear` and `PoolFails` the pool:
the guarded update, the separate existence check of an update that matched
nothing, and the second write of the thread handlers. `Crash` stops inbox-worker.

Abstractions that limit what the results say: every operation has a stamp of its
own, so two changes in one millisecond are not covered; deduplication by
`Nats-Msg-Id` is abstracted to at-least-once delivery; a ROOMS request that
completed is not redelivered; one room, one account, one thread.

### RoomMembers and KeyLedger

One channel room under a fixed list of requests (`scen.reqs`). `Submit` is
room-service's admission (`CanAdd`, `CanRemove`, `CanRemoveOrg`: size limit,
restricted rooms, last owner, organisation members). `Deliver` gives an accepted request to an idle
goroutine; up to `workers` (MAX_WORKERS, 1 or 2) run at once. Each goroutine's
`job` is the handler's program counter and its locals, and each store call is an
action: `CreateRoom` ... `CreateCrossSite` for a creation, `LoadAddMemberInputs`
... `SubscriptionAdded` for an addition, `RemoveMember` ... `FanOutKey` for the
two removals, `ReconcileCount`, `ReconcileWrite` and `Publish` shared.
`BulkFails` is a bulk insert that wrote a part; `Fail` a call that failed, or a
crash: the request goes back to the stream and starts over, possibly after the
requests behind it. Key writes (`SetIfAbsent`, `Set`, `Rotate`) are separate from
the reads before them, and the best-effort archive of what a rotation replaced
(`ArchiveDemoted`) from the rotation. Until that write is over the pair is found in
the previous slot (`Previous`), unless another rotation takes the slot; afterwards
its grace window is taken to have closed, so that only the archive counts. The
reads of an addition and the cross-site mark after them are one step: the mark is
only ever set, and a failure between them leaves what a failure before them leaves.

`KeyLedger` is the abstract specification of the key: versions 0, 1, 2, ... are
issued one after the other, the bytes of a version never change, and nobody is
sent a pair that was not issued. `KeysAreLedger` is `RoomMembers` implementing it
(`ledger <- issued`). `issued`, `dropped`, `drift` and `torn` are history
variables; they never guard an action.

### ThreadCount

`Deliver`, `SaveThreadMessage` and `SaveFails` are the save of a reply into its
two or three tables; `ReadCounts`, `CountFromReplies`, `Reconcile`,
`RereadCounts`, `WriteCounts` and their failures are `threadcount.Maintain`:
count a short thread exactly, adjust a long one by one, re-anchor it when the
budget allows. A recount that stops at its limit or cannot be read (`ReconcileFails`)
falls back to the estimate, and to the value read before when the parent cannot be
read again. `Ask`, `FindMessage`, `UpdateMessageContent`, `SoftDelete` and
`DeleteMirrors` are history-service's edit and delete, whose conditional update
lets one delete through; nothing redelivers them. A failed batch may have reached
one of the two copies of the parent. History variables name the causes of drift
(`unstamped`, `halfway`, `torn`, `resaved`).

### ThreadReplies

A reply's handler is a list of steps still to do (`job[r].todo`), laid out by
`Plan` from what the handler has read: the first reply of a thread creates the
thread room and subscribes two people; a later one heals what the first left
undone, by the room's two flags (`parentSubscribed`, `parentStamped`); mentions
and the unread fan-out follow. `Fail` is a failed call or a crash between any two
steps. `SaveParent` is the parent's own event, which may come late, stop between
the two tables, or never come: then `GetMessageCreatedAt` gives up after
`Attempts` deliveries. `messageThreadRead` and its two writes are the read RPC.
Lookups of senders, sites, mentions and the parent's author
(`lookupOwnerSiteID`) may find nothing and the handler goes on without, as the code
does; `gaps` records it. The fan-out of unread marks leaves out of its events the
recipients whose home site the lookup did not return (`skipped`). `scen.unknown` are
the accounts the user store may not know; `ParentLinked`, `RepliersFollow` and
`UnreadReaches` promise them the local writes only.

### HistoryMarker

The mutex of `degradeTracker` is released around every round trip to MongoDB, so
each critical section and each round trip is a step: `OnWriteFailure`, `Set`,
`Confirm`, `Undo`; `OnWriteSuccess`, `Backlog`, `Tail`, `Clear`, `Healthy`;
`RefreshGet`, `RefreshAdopt`. `Write`, `Reject` and `Nak` are the settlement of a
message: a transient failure is redelivered, a row Cassandra rejects is dropped
after the retry window if the limiter allows, or comes back when the ack of the
drop fails, which has used up the limiter all the same. `Outage`, `Recover` and `Crash` are
the surroundings. Times are ages that stop at the bound that matters.

### Presence

One account; accounts share no keys. Every handler and the sweeper run one Lua
script, which is atomic, and then update the sweep index in a second call
(`Reschedule`), which may fail; others run in between. The sweeper takes its clock
before the range query, so `SweepRead` keeps which connections were dead then, and
`SweepRun` prunes only those of them that still are. `SyncRead`, `SyncApply`
and `SyncIndex` are the Teams sync, `ConnsExpire` and `AzureExpire` the TTLs.
Ages and times left replace timestamps, so behaviours are infinite in finitely
many states.

## Runs

| run | instance | shows |
|---|---|---|
| `roomlist_rooms` | 2 replicas, 4 events of one room (a same-millisecond tie, system messages, @all, a hidden reply) | a batch depends only on what it holds (`BatchIsReference`); what is acked is in the document (`AckedWritesLanded`); the document ends as the events determine (`RoomConverges`) and never goes back (`RoomNeverRegresses`) |
| `roomlist_badges` | mentions by message, by the sender, by an edit; a poison room document; a reader | badges and sender positions are written although the room cannot be (`BadgeNotLost`, `SenderHasRead`), and never for what was read (`BadgeOnlyForUnread`) |
| `roomlist_settles` | 2 rooms, one of them from before `lastUserMsgAt`, a poison room, a poison subscription, a malformed event, fairness | every event is settled (`EventuallySettled`); a graceful stop holds nothing (`GracefulStopHoldsNothing`); the old pointer is not taken for user activity (`RoomConverges`) |
| `federation` | five workloads: fields; sections and restrictions; threads and mentions; membership; a mix | the replica is always a past state of the origin (`ReplicaIsPastOrigin`), never goes back (`MarksNeverRegress`), ends equal to it unless its newest event was given up (`ReplicaConverges`), ends with the membership the origin decided (`MembershipConverges`); every event is applied or given up (`EventuallyQuiescent`) |
| `room_members` | eleven rooms, one of them restricted, three accounts (one remote), two overlapping organisations, 1 and 2 workers | the room key implements `KeyLedger` (`KeysAreLedger`) and every key sent can be had back (`KeysRetrievable`), under any interleaving; a room is marked cross-site before remote members are added (`AnnouncedAsCrossSite`); with one worker the two sources of membership agree (`RosterAgrees`), keys follow membership (`KeyFollowsMembership`) and the counter is exact between failures (`CountExact`) |
| `thread_count` | threads of 2 or 3 replies, scan limits below and above that, 1 and 2 goroutines, edits, repeated deletes | short threads are exact (`ShortThreadExact`), long ones off by no more than what failed (`DriftBounded`), none with live replies reads as empty (`LiveThreadShown`); the parent's copies agree (`CopiesAgree`); edits and deletes stay (`EditsStick`, `DeletesStick`) |
| `thread_replies` | eight threads of two replies: first, concurrent, migrated, by the author, from a system account, with mentions, in rooms from before the flags, among accounts the user store may not know; the parent saved, pending or missing; a reader | the parent ends linked and its author subscribed (`ParentLinked`); repliers follow, outsiders do not (`RepliersFollow`); no follower misses a reply, here or at home (`UnreadReaches`); mention flags and reads agree (`MentionsMatchReads`); every reply is handled (`EveryReplySettles`) |
| `history_marker` | two goroutines of one pod, one in each of two pods, one with a row Cassandra rejects; outages, failed calls, crashes; fairness | a pending degrade is not reverted by a stale read (`UnsyncedHolds`); an outage is announced (`OutageAnnounced`), the marker goes away after it (`MarkerClears`), every message is settled (`EverySettles`) |
| `presence` | two idling devices; two devices served at once; one device with an override and calls; a sweeper, the Teams sync, a failed index update; fairness | the status is what connections, override and calls say (`StatusIsDerived`); silent clients are found out (`OfflineDetected`), pinging ones come back (`PingRevives`), ended calls are cleared (`CallEndClears`) |
| `order_insensitive`, `add_redelivered`, `marker_undone` | two operations; two goroutines | violations, see "Findings" |

Each passing run has 70,000 to 600,000 distinct states and takes at most a few
minutes.

**Bounds.** `MaxFaults` bounds failed calls, crashes and the like per behaviour,
mostly 1: together with redelivery it gives every "stopped after this prefix, ran
again later" of every handler, against every interleaving of the others. Two
faults are used where the second matters: to reach the last delivery in
`Federation` (`MaxDeliver = 2`: one redelivery, then the give-up).
`MaxAckPending = 2` makes the consumer fill up, the only effect its size has;
`MentionBudget` is 1 where the early drain is of interest and out of reach
elsewhere. In `Federation` three operations are the least in which an older event
is lost and a newer one overtakes it, four memberships the least for add, remove,
add again and a duplicate of the first; `MaxConcurrent = 1` runs the operations
of one account one after the other, as one client does (see "Disagreements" for
two). The membership workload has no fault on purpose, for the same reason.
`RoomMembers` has up to three requests per room: one that fails and two that
overtake its redelivery; `MaxRoomSize = 3` is reached. `ThreadCount` has scan
limits 2 and 4 around threads of 3, so that a count stops early, is skipped, and
reaches the end. `ThreadReplies` has two replies: the one that fails and the one
that has to heal. `HistoryMarker` and `Presence` bound nothing but faults and
ages; their behaviours are infinite. In `Presence` the bound on faults belongs to the
account: one, and none where two handlers serve the account at once. In `Presence`, `SyncFails = FALSE` keeps the
fault out of the Teams sync, see "Disagreements".

The requests, threads and accounts of the last five modules are records chosen in
`Init` from a set (`Scenarios`, `Workloads`, `Accounts`), so that one run covers
them all. Symmetry is used for the goroutines of `room_members` and
`thread_count`, which check safety only.

**Deadlock** is checked in every run but `thread_replies`, where nothing is left
to do once every reply is handled. `RoomList`, `Federation`, `RoomMembers` and
`ThreadCount` have one resting step, enabled only when nothing is in flight.

**Type invariants.** Every specification states `TypeOK`. It is proved for
`RoomList` and `Presence`; for the others it can be added to the configuration of
each run and holds there.

**Fairness.** Nobody is assumed to send, toggle, read, reply or fail, except as
said for `HistoryMarker`; failures are bounded, that is, databases recover.

- `RoomList`: weak fairness of the consume loop, the ticker, the drain, the
  answers of MongoDB and the steps of shutdown (goroutines that are always ready
  to run), of publication, and of the restart by a supervisor.
- `Federation`: weak fairness of handlers in progress, of each forward
  (outbox-worker retries for ever), of the membership worker, of redelivery and
  of the pool.
- `ThreadReplies`: weak fairness of each handler with a message, of delivery and
  of the parent's own event while it is pending.
- `HistoryMarker`: weak fairness of handlers, tickers and refreshers; messages
  keep coming, because the tracker acts only on the outcome of writes; strong
  fairness of the delivery of each message, because other messages may be
  delivered in between but JetStream never forgets one. Cassandra is never
  assumed to recover: properties that need it say `<>[](cass = "up")`.
- `Presence`: weak fairness of time, of processes that started, of the sweeper
  and the sync; strong fairness of each open client's pings, because a handler
  may be busy with others but the client pings for ever.

## Proofs

Everything below is proved for all values of the constants that satisfy the named
assumptions, hence for any number of accounts, replicas, goroutines, requests and
failures.

### RoomListProofs

- `TypeCorrect`: `Spec => []TypeOK`;
- `NoAckedWriteLost`: `Spec => []AckedWritesLanded`;
- `RoomMonotone`: `Spec => RoomNeverRegresses`.

Assumed: event ids are unique, a created event is not older than its room (it may
be of the same millisecond), the bounds are numbers. `AckedWritesLanded` is not
inductive: that `settle` acks only what is written depends on what the flight did
before, and that on what the batch it swapped out contained. The inductive invariant `IInv` adds

- `HeldPublished`: a batch holds published events only;
- `Coalesced`: the update a batch has for a room *covers* each event it holds
  (pointer, user and @all positions at or past it): nothing is lost in the merge;
- `InFlight`: for every flight and room, each write model is still to be
  answered, has failed transiently, or is in the document, whatever the stage.

At `settle` with no transient error every model is in the document, so the
document covers the update, the update covers the event, and growth of documents
(`DocsGrow`, from `roomLastMsgFilter` and `$max`) keeps it so. Poison rooms are
excepted, as the code acks their events on purpose. There is one lemma per
conjunct of `IInv`, each with one step per action, on lemmas about `add`,
`roomWrite` and the order `NewerRow`.

The second half shows what batches and documents are:

- `CoalescingIsExact`: `Spec => []BatchIsReference`;
- `RoomsConverge`: `Spec => []RoomConverges`;
- `SendersHaveRead`, `NoBadgeLost`: `Spec => []SenderHasRead`, `Spec => []BadgeNotLost`;
- `NoFalseBadge`: `Spec => BadgeOnlyForUnread`, an action property;
- `OrderlyStop`: `Spec => []GracefulStopHoldsNothing`.

The reference definitions choose the newest event of a set; `IsLatest` and
`IsPointer` characterise that event without a choice, so that one merge can be
followed (`AddExact`), and `ExactBatch` is the result for every batch. Convergence
needs both directions: documents *cover* what was acked (`IInv`), and what is in
them comes from published events (`DocsFrom`, with the frozen user position of a
room without user messages). `XInv` is `IInv` with these two and the fact that a
flight's open models belong to its stage (`StageToDo`).

`EInv` adds, for the subscription stages, that every event of a flight is awaited
or seen: its stage is still ahead, or its model is still to be written, or the
flight will be nak'd, or the document has it (`SubsInFlight`). Poison
subscriptions are excepted, and events that a late read ran over (`overrun`).
`Stopping` says how far a replica that shuts down has got, which is what
`OrderlyStop` needs: the loop has ended before the flusher is cancelled, and the
final drain comes after both.

### RoomMembersProofs

- `CrossSiteFirst`: `Spec => []AnnouncedAsCrossSite`;
- `KeysRefineLedger`: `Spec => KeysAreLedger`, that is, `RoomMembers` implements
  `KeyLedger`;
- `KeysStayRetrievable`: `Spec => []KeysRetrievable`.

Assumed: the shapes of `OrgOf`, of requests and of rooms (`OrgOfAssumption`,
`NoKeyAssumption`, `ScenariosAssumption`). The last two theorems further assume
`Provisioned`: no creation and no `key.ensure` meets a room that exists without a
key. These two read the key and then write version 0 with `Set`; when a heal
mints one in between, the bytes of version 0 change and the refinement fails in
the code (see "Disagreements"). Two of the eleven rooms of `room_members` (a room
from before keys created again, and `key.ensure` on a room without a key) lie
outside `Provisioned`; there the properties are model-checked only, and hold
because nothing else writes the key.

None of the three is inductive. `Base` says that a goroutine's program counter
belongs to its request's handler, that only a creation is accepted before there
is a room, and that a job that adds remote members follows the mark, which is
never taken back: `CrossSiteFirst` is its consequence. `KeyInv` adds that the
current key is the last entry of the ledger, that every older pair is archived, or
is being archived and still in the previous slot, or is recorded as lost (its archive
write failed, or the next rotation was committed before it: `Archived`), that only
rooms from before keys have none, and that the pair any job carries and is going to
send was issued: a rotation running concurrently can make such a pair old, but not
unissued. Each action has its
lemma; `MoveBase`, `MoveKeys`, `MoveOn` and `MoveOff` take care of what it does
to the job, `InstallNext`, `CurrentIssued` and `SetIfAbsentKeeps` of the ledger.
The step part of the refinement (`LedgerStep`) is proved with the invariant:
every step issues the next version, sends issued pairs, or changes neither.

### RoomRosterProofs and RoomSerialProofs

- `RosterStays`: `Spec => []RosterAgrees`;
- `CountStaysExact`: `Spec => []CountExact`;
- `KeyStaysWithMembers`: `Spec => []KeyFollowsMembership`.

These three are about `MAX_WORKERS = 1` (the properties say so; with more, handlers
of the same room overlap, see "Disagreements") and hold however often handlers
fail and are run again, in any order with later requests. Assumed besides the
above: accounts are finitely many (`FiniteAssumption`); and a room's creation is
the first request made on it, nobody is in it before, and its rows and
subscriptions agree to begin with (`RoomsAssumption`). No room is excepted from
the third: its second half speaks of rooms created with a key.

The difficulty is that a handler writes subscriptions, rows, roles, counter and key
one after the other, can stop after each, and is run again from the start after
other requests have gone through. So the invariants say who makes up for what is
missing. `RoomSerial` holds the definitions that the three proof modules share.
`Roster`: a subscriber without a row is named by a request that is running or waiting
to be run again, and that *settles* the account, by writing its row or by removing it;
the same for an owner without a row; and an organisation one of whose members has no
subscription is about to be removed. `Doing` says for each step of each handler what it
has read and written so far, for instance that the accounts an addition found
missing are still missing when it subscribes them. When nothing is open nothing is
owed, which is `RosterAgrees`. `Tally` says how far the counter is behind: by the
members an addition has subscribed and not yet counted, or by anything in a handler
that goes on to recount. `Custody` (in `RoomMembersProofs`) says of everybody who
left with the current key which removal, running or waiting, is going to replace it,
and of every member without it which handler is about to send it; a removal that
found no key in the room finds that nobody holds one minted since.
`RoomRosterProofs` has one lemma per action for `Serial` (`Roster`, `Doing` and that
one handler runs) and for `Tally`; `RoomSerialProofs` combines them with `Base`.

### FederationProofs and FederationConvergeProofs

- `MarksMonotone`: `Spec => MarksNeverRegress`, if `FavoritesApart`;
- `ReplicaIsPast`: `Spec => []ReplicaIsPastOrigin`, and `ReplicaAgrees`:
  `Spec => []ReplicaConverges`, if `FavoritesApart` and `MaxConcurrent <= 1`;
- `MembershipAgrees`: `Spec => []MembershipConverges`, if `MaxConcurrent <= 1`.

Any number of operations, faults, duplicates, deliveries and redeliveries. Both
hypotheses are limits of the code, not of the proof. `FavoritesApart`: no workload
has both favorite toggles and section moves, because a move writes `favorite`
under the section's mark alone (finding 1). `MaxConcurrent <= 1`: two operations
at once take their stamps before unguarded writes (see "Disagreements"), and an
add and a removal that room-worker handles at once may publish in the other order
than they wrote. The run of `federation` satisfies both.

The idea of the proof is that each field with its mark, the read position and the
thread's read position (the *slots*) are last-writer-wins registers: an event
replaces the slots it carries and is newer than, and nothing else (`Registers`;
`InboxRegisters` shows it of every handler of inbox-worker). `MarksMonotone`
follows from this and from the types. For convergence, the operations of the
room's site are shown to do to the origin what their event does to a replica
(`HandlerWrites`). The inductive invariant `SInv`, for an account that stays a
member, then says: the one operation in progress has the newest stamp and has
written a slot exactly when its step is done (`RpcWrites`); every event in flight
is a past write of the origin (`SentArePast`), and so is the replica
(`ReplicaPast`); and for each slot the newest write has been applied, was given
up, or is still on its way (`AllUnderway`). At rest nothing is on its way, which
leaves the first two. There is one lemma per action, over `Moves` (the origin
changes), `Delivers` (the replica does) and `Frame` (neither does).

Membership is not a register: its events carry no mark that is compared, and only
the order of the lane counts. `GInv` follows the *last* membership event: as long
as nothing failed, an add or a removal has been written and not yet published, or
the last membership event of the outbox says what the origin is, or none is there
and the last one of inbox-worker's membership lane does, or that lane is empty too
and the replica agrees (`Sound`, `Arriving`). A duplicate is put on the lane while
its event is still the head of the outbox, so it never comes after a later one.
The pool neither inserts nor removes a subscription (`InboxKeeps`).

### ThreadCountProofs

- `EditsHold`, `DeletesHold`: `Spec => []EditsStick`, `Spec => []DeletesStick`;
- `CopiesConverge`: `Spec => []CopiesAgree`.

Assumed: replies are a finite set of positive times, and requests are about
replies (`ReplyTimes`, `ScenariosAssumption`). Edits and deletes go through up to
three tables in separate calls, so `TInv` says how far each has got
(`EditsUnderWay`, `DeletesUnderWay`) and that a reply whose first copy is deleted
is deleted everywhere, or being deleted, or recorded as half-way
(`DeletesTracked`). Only one goroutine handles a reply's event (`OneHandler`), and
an add always writes the last-reply time (`AddsTime`), so its batch makes the two
copies of the parent equal whatever they were. `CopiesTracked` follows: copies
that differ are those of a batch that nothing retries, or some add still has its
write before it or will be redelivered.

### PresenceProofs

- `PresenceTypes`: `Spec => []TypeOK`;
- `StatusDerived`: `Spec => []StatusIsDerived`.

Assumed: the staleness threshold is a positive number and accounts have their shape
(`StaleAssumption`, `AccountsAssumption`).
Pings and the clock change the connection hash without recomputing the status;
that is safe because both keep the connections and their activity, the only
things `Effective` looks at (`SameActivity`). The type invariant has content here:
the deadline a script returns is the least of a set of remaining times, and is
within the staleness threshold however late its index update lands. That a finite
minimum or maximum exists comes from well-founded induction on the naturals
(`Least`, here and in `ThreadCountProofs`).

### Only model-checked

- the counts themselves in `ThreadCount` (`ShortThreadExact`, `DriftBounded`,
  `LiveThreadShown`), which relate cardinalities of sets that change with every
  call;
- everything about `ThreadReplies` and `HistoryMarker`;
- all liveness, which is out of the prover's reach, as are facts that need
  induction over data.

## Findings

Each is a run in which TLC must find the property violated; the quotations are in
`PROJECT.json`.

1. `order_insensitive`: `pkg/outbox/outbox.go` calls the concurrent lane's events
   order-insensitive. A section move writes `favorite` under the guard of
   `sectionUpdatedAt` alone, so an older move applied after a newer favorite
   toggle undoes it. The same holds for roles (written by role changes and by
   restrictions), for thread unread marks against thread reads, and for mention
   badges against reads. `Unstamped` excepts such fields from the properties of
   `federation`.
2. `add_redelivered`: when member add fails between the insert of the
   subscription and the publish, the redelivery finds nothing to add and returns
   before it publishes.
3. `marker_undone`: `Refresh` discards its read only while the local degrade is
   unsynced. A read from before the marker, adopted after one goroutine's `Set`
   was confirmed, makes a second goroutine take back the marker in the middle of
   the outage.

## Disagreements

Behaviours of the code that the models show and that limit what can be claimed.
Where a comment or document says otherwise it is quoted. None has a run of its
own; the properties except each of them, in the way their comments say.

**Federation**

- Two toggles at once take their stamps before unguarded writes: origin and
  replica end on different marks (`room-service/store_mongo.go:1129-1131`:
  "keeping the origin doc and every federated replica on one high-water mark").
- `room_renamed` is kept behind `member_added` on the ordered lane
  (`pkg/outbox/outbox.go:52-54`: "a room_renamed must not overtake the
  member_added"), but inbox-worker runs it on the pool, where it passes the
  queued add. A mute can be lost the same way, when the add lands between the
  update that matched nothing and the existence check.
- A membership event that fails once is applied after those behind it; an add can
  follow a later removal (`inbox-worker/main.go:968-969`: "add/remove for the same
  (room, account) are applied in arrival order").
- The second write of the thread handlers (`inbox-worker/main.go:757`), when it
  fails, is not repeated once the guard of the first has moved.

**RoomMembers**

- `ensureRoomKey` (`room-service/handler.go:1953`) reads, then writes with `Set`:
  racing a heal it replaces the bytes of version 0
  (`room-worker/handler.go:1724-1726`: SetIfAbsent "converges concurrent minters
  [...] on a single v0 key").
- A redelivered first organisation add writes individual rows also for accounts
  that came through the organisation; rows of a backfill that was written in part
  are never completed (`room-worker/handler.go:1088-1090`: "the backfill re-runs
  cleanly").
- A creation without organisations, redelivered after the first organisation was
  added, subscribes people without rows.
- Two owners whose requests are accepted before either is handled leave a room
  without owners.
- With two workers an addition may send a key that a removal has just retired, and
  a rotation's fan-out can reach a remote member before the creation marks the
  room.
- Members of a room whose key is minted later are not sent it; they ask.

**ThreadCount**

- With two goroutines on one parent the later write may be the older count, zero
  included (`history-service/internal/service/threads.go:87`: "tcount==0 means all
  replies were deleted").
- A failed re-anchor may already have written one copy
  (`pkg/threadcount/adjust.go:88-90`: "leaves the saved number exactly as it
  was").
- A delete that fails after its conditional update is answered OK when repeated,
  though the parent still counts the reply
  (`history-service/internal/service/messages.go:606-607`: "The first delete's
  tcount is already durable in Cassandra").
- A redelivered create of a deleted reply moves the last-reply time forward;
  encrypted creates carry no write timestamp and can replace an edit; deleting a
  reply that was never counted subtracts one.

**ThreadReplies**

- The thread room's last-message pointer is written without a guard and can go
  back.
- A redelivery marks the thread unread again after a read; a read whose `$pull`
  lands after a newer reply's mark clears that too.
- The remote site takes one event per reply: an audience that grew between two
  deliveries reaches it in its first form. A first reply whose parent is not found
  creates no subscriptions.

**HistoryMarker**

- The stale read of finding 3 lets the marker come and go during an outage:
  `<>[]marker` does not hold, `[]<>marker` does.
- A success that finds an undelivered backlog leaves the tail clock alone
  (`message-worker/degrade.go:289-292`: "a fresh undelivered backlog resets it").

**Presence**

- An older `ZREM` or a failed index update that follows the last ping leaves the
  account without a sweep deadline and, if nothing pings again, online
  (`docs/superpowers/specs/2026-06-01-user-presence-service-design.md:24`: "Detect
  offline/away reliably even when a client disconnects silently").
- When the TTL removes the external status nothing recomputes the materialised
  one (`user-presence-service/presencestore/store.go:264-266`: "ttl bounds the
  external key's lifetime so a dead sync self-heals").
- A sync that fails between the status and the in-call index leaves the account
  in a call with nobody to clear it.

## Not modelled, and why

Within the modules:

- `Federation`: `subscription_opened`, `member_joined_at_refreshed`, user
  documents and statuses, emoji, room activity.
- `RoomMembers`: users that are not found, bots as opposed to users in the
  counters, thread cleanup after a removal, cache busts, direct messages, rename
  (in `Federation` as a member sees it), deletion of keys, the slot that keeps the
  previous key for a grace time, the cipher.
- `ThreadCount`: the table of pinned messages, deletion of a thread's parent,
  replies whose parent is not yet saved (in `ThreadReplies`), paging of the scan,
  events and previews that follow an edit.
- `ThreadReplies`: more than one mention per reply, accounts that leave the room
  meanwhile, members whose history window is compared with an unknown parent time,
  the correction of an unverified quote, the stream's MaxDeliver (faults stay
  below it).
- `HistoryMarker`: a redelivery while the handler still runs (AckWait), the
  timestamp in the marker, the cached reader of history-service, the drop switch;
  when the backlog is looked at again is left open.
- `Presence`: queries to peer sites, the id map of the sync.

Whole parts:

- Message content, encryption, encodings, subjects, logging and metrics: data.
- message-gatekeeper, notification-worker, push-notification-service: stateless
  between messages apart from caches.
- HTTP services, search queries, history pages, translation, uploads: one
  document or one external call per request.
- Teams jobs and data migration: batch jobs with a cursor of their own.
- Frontends and tools: no server state.

Not reached, and suited to the same treatment: caches (bust against refill),
search-sync-worker's external versions, the read floor and section order of
room-service, room activity, user documents and HR sync under their watermarks,
the ordering of the migration feed per document, and the bot variants of the
message and room pipelines. For proofs, the next candidate is `MentionsMatchReads`
of `ThreadReplies`.
