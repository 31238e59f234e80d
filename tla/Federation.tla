----------------------------- MODULE Federation -----------------------------
(***************************************************************************)
(* One subscription of a remote account, from the RPC or worker step that  *)
(* changes it at the room's site to the replica at the account's home      *)
(* site:                                                                   *)
(*                                                                         *)
(*   room-service, room-worker, message-worker, broadcast-worker           *)
(*     write the origin document and publish an event to OUTBOX            *)
(*   outbox-worker forwards it to the destination's INBOX: the ordered     *)
(*     types one at a time, the others in parallel, each at least once     *)
(*   inbox-worker applies it to the replica: member_added and              *)
(*     member_removed one after the other (membershipCh), everything else  *)
(*     on a pool of concurrent goroutines, redelivered until it succeeds   *)
(*     or MaxDeliver is reached                                            *)
(*                                                                         *)
(* Stamps are ticks of clock, one per operation: no two operations share a *)
(* millisecond.  The thread of the model is one thread the account         *)
(* follows; tsubs holds its thread subscription at both sites.             *)
(*                                                                         *)
(* An operator placed just before the one whose name it extends is a       *)
(* faulty variant of it, used to test the properties.                      *)
(***************************************************************************)
EXTENDS Naturals, Sequences, FiniteSets, SubDoc

CONSTANTS
  Workloads,      \* what may happen in a behaviour: records of
                  \*   ops: <<operation, argument>> pairs,
                  \*   member: the account is a member at both sites from the start,
                  \*   maxOps: bound on operations started,
                  \*   maxFaults: bound on failed RPCs and handlers, lost acks, crashes,
                  \*   maxDups: bound on events forwarded twice
  MaxConcurrent,  \* bound: operations in progress at once
  MaxDeliver      \* deliveries inbox-worker gives an event

AllOps ==
  {"mute", "favorite", "read", "mention", "follow", "reply", "threadRead",
   "threadReadAll", "add", "remove"} \X {""}
  \cup {"move"} \X Sections
  \cup {"role"} \X {"user", "owner"}
  \cup {"restrict"} \X {"self", "other", "lift"}
  \cup {"rename"} \X Names

ASSUME Bounds ==
  /\ Workloads \subseteq [ops: SUBSET AllOps, member: BOOLEAN, maxOps: Nat,
                           maxFaults: Nat, maxDups: Nat]
  /\ MaxConcurrent \in Nat /\ MaxDeliver \in Nat \ {0}

VARIABLES
  work,           \* the workload of this behaviour; never changes
  clock,          \* operations started so far
  room,           \* the rooms document: name and restricted
  origin,         \* the subscription at the room's site
  replica,        \* the subscription at the account's home site
  tsubs,          \* the thread subscription at both sites
  rpcs,           \* operations in progress
  ordered,        \* OUTBOX, ordered lane: a queue
  concurrent,     \* OUTBOX, concurrent lane
  membershipCh,   \* INBOX deliveries on the membership lane: a queue
  parked,         \* membership deliveries waiting for their redelivery
  pool,           \* INBOX deliveries on the worker pool
  dropped,        \* events that no one will apply any more
  faults, dups    \* faults and duplicates so far

vars == <<work, clock, room, origin, replica, tsubs, rpcs, ordered, concurrent,
          membershipCh, parked, pool, dropped, faults, dups>>
load == <<work, clock>>
docs == <<room, origin, replica, tsubs>>
inbox == <<membershipCh, parked, pool>>
outbox == <<ordered, concurrent>>

OrderedEventTypesNoRemove == {"member_added", "room_renamed"}
OrderedEventTypes == {"member_added", "member_removed", "room_renamed"}
ConcurrentEventTypes ==
  {"role_updated", "subscription_read", "thread_read", "thread_read_all",
   "subscription_mute_toggled", "subscription_favorite_toggled",
   "subscription_section_moved", "room_restricted",
   "thread_subscription_upserted", "thread_unread_added",
   "subscription_mention"}
isMembershipSubject(e) == e.type \in {"member_added", "member_removed"}

Events == [type: OrderedEventTypes \cup ConcurrentEventTypes,
           v: Sections \cup Names \cup {"", "on", "off", "user", "owner",
                                        "self", "other", "lift"},
           at: 1..work.maxOps]
Steps == {"room", "sub", "tsub", "publish"}
Rooms == [name: Names, restricted: {"off", "on"}]
Rpcs == [op: {o[1] : o \in AllOps}, arg: {o[2] : o \in AllOps}, at: 1..work.maxOps,
         todo: SUBSET Steps \ {{}}, ev: Events, inputs: Rooms]
Deliveries == [e: Events, n: 1..MaxDeliver, step: {"apply", "check", "clear"}, copy: 1..2]
NoThread == [exists |-> FALSE, seen |-> 0]

\* The documents, the lanes and the counters keep their types; no delivery is
\* counted past MaxDeliver (jsretry.IsLastAttempt).
TypeOK ==
  /\ work \in Workloads /\ clock \in 0..work.maxOps
  /\ room \in Rooms
  /\ origin \in Docs /\ replica \in Docs
  /\ tsubs \in [origin: [exists: BOOLEAN, seen: Nat],
                replica: [exists: BOOLEAN, seen: Nat]]
  /\ rpcs \in SUBSET Rpcs
  /\ ordered \in Seq(Events) /\ concurrent \in SUBSET Events
  /\ membershipCh \in Seq(Deliveries)
  /\ parked \in SUBSET Deliveries /\ pool \in SUBSET Deliveries
  /\ dropped \in SUBSET Events
  /\ faults \in 0..work.maxFaults /\ dups \in 0..work.maxDups

Init ==
  /\ work \in Workloads /\ clock = 0
  /\ room = [name |-> "general", restricted |-> "off"]
  /\ origin = IF work.member THEN newSub("general", "off") ELSE NoSub
  /\ replica = origin
  /\ tsubs = [s \in {"origin", "replica"} |-> [exists |-> work.member, seen |-> 0]]
  /\ rpcs = {} /\ ordered = <<>> /\ concurrent = {}
  /\ membershipCh = <<>> /\ parked = {} /\ pool = {} /\ dropped = {}
  /\ faults = 0 /\ dups = 0

Fault == faults < work.maxFaults /\ faults' = faults + 1

-----------------------------------------------------------------------------
(* The room's site.                                                        *)

\* What a handler does: valid, what it checks before it takes its timestamp;
\* todo, its steps; found, whether its write finds the documents without which
\* it ends and publishes nothing; the documents it leaves; the event's value;
\* remote, whether the event goes to this account's site.
Handler(type, v) ==
  [type |-> type, v |-> v, valid |-> TRUE, todo |-> {"sub", "publish"},
   found |-> origin.exists, sub |-> origin, thread |-> tsubs.origin, room |-> room,
   remote |-> TRUE]

muteToggleOldValue(t) ==
  [Handler("subscription_mute_toggled", origin.val["mute"]) EXCEPT
     !.sub = ToggleSubscriptionMute(origin, t)]
muteToggle(t) ==
  LET d == ToggleSubscriptionMute(origin, t)
  IN [Handler("subscription_mute_toggled", d.val["mute"]) EXCEPT !.sub = d]

favoriteToggle(t) ==
  LET d == ToggleSubscriptionFavorite(origin, t)
  IN [Handler("subscription_favorite_toggled", d.val["favorite"]) EXCEPT !.sub = d]

moveChat(section, t) ==
  [Handler("subscription_section_moved", section) EXCEPT
     !.sub = MoveSubscriptionSection(origin, section, t)]

updateRole(role, t) ==
  [Handler("role_updated", role) EXCEPT
     !.valid = origin.exists /\ origin.val["roles"] # role,
     !.sub = SetOwnerRole(origin, role, t)]

\* arg names the new owner, or lifts the restriction.
Owner(arg) == IF arg = "lift" THEN "" ELSE arg
Restricted(arg) == IF arg = "lift" THEN "off" ELSE "on"
roomRestricted(arg, t) ==
  [Handler("room_restricted", arg) EXCEPT
     !.valid = arg = "self" => origin.exists,
     !.todo = @ \cup {"room"},
     !.room = [room EXCEPT !.restricted = Restricted(arg)],
     !.sub = ApplySubscriptionRestriction(origin, Restricted(arg), Owner(arg), t)]

messageRead(t) ==
  [Handler("subscription_read", "") EXCEPT
     !.valid = origin.exists, !.sub = UpdateSubscriptionRead(origin, t)]

SeenAt(thread, t) == IF thread.exists THEN [thread EXCEPT !.seen = t] ELSE thread
messageThreadRead(t) ==
  [Handler("thread_read", "") EXCEPT
     !.valid = origin.exists /\ tsubs.origin.exists,
     !.todo = @ \cup {"tsub"},
     !.found = origin.exists /\ tsubs.origin.exists,
     !.sub = PullThreadUnread(origin), !.thread = SeenAt(@, t)]

clearAllThreadRead(t) ==
  [Handler("thread_read_all", "") EXCEPT
     !.todo = @ \cup {"tsub"}, !.found = TRUE,
     !.sub = PullThreadUnread(origin), !.thread = SeenAt(@, t)]

\* message-worker: the account follows the thread, or one it follows gets a reply.
healParentThreadSub ==
  [Handler("thread_subscription_upserted", "") EXCEPT
     !.todo = {"tsub", "publish"}, !.found = TRUE,
     !.thread = IF @.exists THEN @ ELSE [exists |-> TRUE, seen |-> 0]]
fanOutThreadUnread ==
  [Handler("thread_unread_added", "") EXCEPT
     !.valid = tsubs.origin.exists, !.found = TRUE, !.sub = AddThreadUnread(origin)]

\* roomlist-worker writes the badge, broadcast-worker sends it.
federateMentions(t) ==
  [Handler("subscription_mention", "") EXCEPT
     !.found = TRUE, !.sub = SetMention(origin, t)]

\* room-worker.  inputs is the room loadAddMemberInputs read when it started; an
\* account that has a subscription by the time of the write is not in needSub.
processAddMembers(inputs) ==
  [Handler("member_added", inputs.name) EXCEPT
     !.found = ~origin.exists, !.sub = newSub(inputs.name, inputs.restricted)]
processRemoveIndividual ==
  [Handler("member_removed", "") EXCEPT
     !.valid = origin.exists, !.todo = @ \cup {"tsub"}, !.found = TRUE,
     !.sub = NoSub, !.thread = NoThread]
processRoomRename(name, t) ==
  [Handler("room_renamed", name) EXCEPT
     !.todo = @ \cup {"room"}, !.room = [room EXCEPT !.name = name], !.found = TRUE,
     !.sub = UpdateSubscriptionNamesForRoom(origin, name, t), !.remote = origin.exists]

HandlerOf(op, arg, t, inputs) ==
  CASE op = "mute" -> muteToggle(t)
    [] op = "favorite" -> favoriteToggle(t)
    [] op = "move" -> moveChat(arg, t)
    [] op = "role" -> updateRole(arg, t)
    [] op = "restrict" -> roomRestricted(arg, t)
    [] op = "read" -> messageRead(t)
    [] op = "threadRead" -> messageThreadRead(t)
    [] op = "threadReadAll" -> clearAllThreadRead(t)
    [] op = "follow" -> healParentThreadSub
    [] op = "reply" -> fanOutThreadUnread
    [] op = "mention" -> federateMentions(t)
    [] op = "add" -> processAddMembers(inputs)
    [] op = "remove" -> processRemoveIndividual
    [] op = "rename" -> processRoomRename(arg, t)
Now(r) == HandlerOf(r.op, r.arg, r.at, r.inputs)
Event(h, t) == [type |-> h.type, v |-> h.v, at |-> t]

Start(op, arg) ==
  LET h == HandlerOf(op, arg, clock + 1, room) IN
  /\ clock < work.maxOps /\ Cardinality(rpcs) < MaxConcurrent
  /\ <<op, arg>> \in work.ops /\ h.valid
  /\ clock' = clock + 1
  /\ rpcs' = rpcs \cup {[op |-> op, arg |-> arg, at |-> clock + 1,
                         todo |-> h.todo, ev |-> Event(h, clock + 1), inputs |-> room]}
  /\ UNCHANGED <<work, docs, outbox, inbox, dropped, faults, dups>>

\* The order of a handler's steps.  A thread read's two writes run in parallel;
\* a mention's badge and its event come from two workers.
Ready(r, step) ==
  /\ step \in r.todo
  /\ step = "sub" => "room" \notin r.todo
  /\ step = "tsub" /\ r.op = "remove" => "sub" \notin r.todo
  /\ step = "publish" /\ r.op # "mention" => r.todo = {"publish"}

Done(r, step, ev) ==
  rpcs' = (rpcs \ {r}) \cup
          (IF r.todo = {step} THEN {}
           ELSE {[r EXCEPT !.todo = @ \ {step}, !.ev = ev]})

WriteRoom(r) ==
  /\ Ready(r, "room")
  /\ room' = Now(r).room
  /\ Done(r, "room", r.ev)
  /\ UNCHANGED <<load, origin, replica, tsubs, outbox, inbox, dropped, faults, dups>>

\* The value the event carries is read from the document the write returns.
WriteSub(r) ==
  /\ Ready(r, "sub")
  /\ IF Now(r).found
     THEN origin' = Now(r).sub /\ Done(r, "sub", Event(Now(r), r.at))
     ELSE rpcs' = rpcs \ {r} /\ UNCHANGED origin
  /\ UNCHANGED <<load, room, replica, tsubs, outbox, inbox, dropped, faults, dups>>

WriteThread(r) ==
  /\ Ready(r, "tsub")
  /\ IF Now(r).found
     THEN tsubs' = [tsubs EXCEPT !.origin = Now(r).thread] /\ Done(r, "tsub", r.ev)
     ELSE rpcs' = rpcs \ {r} /\ UNCHANGED tsubs
  /\ UNCHANGED <<load, room, origin, replica, outbox, inbox, dropped, faults, dups>>

\* outbox.Publish: the event type decides the lane.
Publish(r) ==
  /\ Ready(r, "publish")
  /\ CASE ~Now(r).remote -> UNCHANGED outbox
       [] Now(r).remote /\ r.ev.type \in OrderedEventTypes ->
            ordered' = Append(ordered, r.ev) /\ UNCHANGED concurrent
       [] OTHER -> concurrent' = concurrent \cup {r.ev} /\ UNCHANGED ordered
  /\ Done(r, "publish", r.ev)
  /\ UNCHANGED <<load, docs, inbox, dropped, faults, dups>>

\* A room-service handler returns at its first error: what it wrote stays, and
\* the event is never published.  broadcast-worker logs a failed publish and
\* goes on.
RpcOps == {"mute", "favorite", "move", "role", "restrict", "read", "threadRead",
           "threadReadAll"}
RpcFails(r) ==
  /\ Fault
  /\ \/ r.op \in RpcOps /\ rpcs' = rpcs \ {r}
     \/ r.op = "mention" /\ "publish" \in r.todo /\ Done(r, "publish", r.ev)
  /\ dropped' = IF r.op = "mention" \/ r.todo # Now(r).todo
                THEN dropped \cup {r.ev} ELSE dropped
  /\ UNCHANGED <<load, docs, outbox, inbox, dups>>

\* room-worker and message-worker nak the message they fail on, and start from
\* the beginning when it is redelivered.  (maxFaults stays below the deliveries
\* their consumers allow.)
WorkerOps == {"add", "remove", "rename", "follow", "reply"}
WorkerFails(r) ==
  /\ Fault /\ r.op \in WorkerOps
  /\ rpcs' = (rpcs \ {r}) \cup {[r EXCEPT !.todo = Now(r).todo, !.inputs = room]}
  /\ UNCHANGED <<load, docs, outbox, inbox, dropped, dups>>

-----------------------------------------------------------------------------
(* outbox-worker.  A failed forward changes nothing and is retried for     *)
(* ever; one whose ack is lost is forwarded again, and the destination     *)
(* stores it twice if its deduplication window has passed.                 *)

Delivery(e, copy) == [e |-> e, n |-> 1, step |-> "apply", copy |-> copy]

\* dispatchLanes.
Arrive(e, copy) ==
  IF isMembershipSubject(e)
  THEN membershipCh' = Append(membershipCh, Delivery(e, copy)) /\ UNCHANGED pool
  ELSE pool' = pool \cup {Delivery(e, copy)} /\ UNCHANGED membershipCh

\* MaxAckPending = 1: the head is forwarded until its ack, then the next one.
ForwardOrdered ==
  /\ ordered # <<>>
  /\ \/ ordered' = Tail(ordered) /\ Arrive(Head(ordered), 1) /\ UNCHANGED dups
     \/ /\ dups < work.maxDups /\ dups' = dups + 1
        /\ Arrive(Head(ordered), 2) /\ UNCHANGED ordered
  /\ UNCHANGED <<load, docs, rpcs, concurrent, parked, dropped, faults>>

ForwardConcurrent ==
  /\ \E e \in concurrent :
       \/ concurrent' = concurrent \ {e} /\ Arrive(e, 1) /\ UNCHANGED dups
       \/ /\ dups < work.maxDups /\ dups' = dups + 1
          /\ Arrive(e, 2) /\ UNCHANGED concurrent
  /\ UNCHANGED <<load, docs, rpcs, ordered, parked, dropped, faults>>

-----------------------------------------------------------------------------
(* inbox-worker, membership lane.                                          *)

AgainUncounted(m) == [m EXCEPT !.step = "apply"]
Again(m) == [m EXCEPT !.n = @ + 1, !.step = "apply"]

CanRetry(m) == m.n < MaxDeliver

handleMemberAdded(e) ==
  replica' = inboxBulkCreateSubscriptions(replica, e.v) /\ UNCHANGED tsubs
handleMemberRemoved(e) ==
  replica' = NoSub /\ tsubs' = [tsubs EXCEPT !.replica = NoThread]
ApplyMembership(e) ==
  IF e.type = "member_added" THEN handleMemberAdded(e) ELSE handleMemberRemoved(e)

HandleMembership ==
  /\ membershipCh # <<>>
  /\ ApplyMembership(Head(membershipCh).e)
  /\ membershipCh' = Tail(membershipCh)
  /\ UNCHANGED <<load, room, origin, rpcs, outbox, parked, pool, dropped, faults, dups>>

\* The handler fails before its first write (a database error, or a user who has
\* not reached this site yet), between the two deletes of a removal, or its ack
\* is lost: settleFederated naks, or gives up.
MembershipFails ==
  LET m == Head(membershipCh) IN
  /\ membershipCh # <<>> /\ Fault
  /\ \/ UNCHANGED <<replica, tsubs>>
     \/ m.e.type = "member_removed" /\ replica' = NoSub /\ UNCHANGED tsubs
     \/ ApplyMembership(m.e)
  /\ membershipCh' = Tail(membershipCh)
  /\ IF CanRetry(m) THEN parked' = parked \cup {Again(m)} /\ UNCHANGED dropped
     ELSE dropped' = dropped \cup {m.e} /\ UNCHANGED parked
  /\ UNCHANGED <<load, room, origin, rpcs, outbox, pool, dups>>

Redeliver ==
  /\ \E m \in parked : parked' = parked \ {m} /\ membershipCh' = Append(membershipCh, m)
  /\ UNCHANGED <<load, docs, rpcs, outbox, pool, dropped, faults, dups>>

-----------------------------------------------------------------------------
(* inbox-worker, worker pool.                                              *)

InboxWrite(e, d) ==
  CASE e.type = "subscription_mute_toggled" -> inboxUpdateSubscriptionMute(d, e.v, e.at)
    [] e.type = "subscription_favorite_toggled" -> inboxUpdateSubscriptionFavorite(d, e.v, e.at)
    [] e.type = "subscription_section_moved" -> inboxUpdateSubscriptionSection(d, e.v, e.at)
    [] e.type = "role_updated" -> inboxUpdateSubscriptionRoles(d, e.v, e.at)
    [] e.type = "subscription_read" -> inboxUpdateSubscriptionRead(d, e.at)
    [] e.type = "room_restricted" ->
         inboxApplySubscriptionRestriction(d, Restricted(e.v), Owner(e.v), e.at)
    [] e.type = "room_renamed" -> UpdateSubscriptionNamesForRoom(d, e.v, e.at)
    [] e.type = "subscription_mention" -> inboxSetSubscriptionMentions(d, e.at)
    [] e.type = "thread_unread_added" -> AddThreadUnread(d)
    [] OTHER -> d

InboxThreadWrite(e, t) ==
  CASE e.type = "thread_subscription_upserted" ->
         IF t.exists THEN t ELSE [exists |-> TRUE, seen |-> 0]
    [] e.type \in {"thread_read", "thread_read_all"} ->
         IF t.exists /\ t.seen < e.at THEN [t EXCEPT !.seen = e.at] ELSE t
    [] OTHER -> t

\* The types whose write tells a missing subscription from a rejected event.
NaksIfMissing(e) ==
  e.type \in {"subscription_mute_toggled", "subscription_favorite_toggled",
              "subscription_section_moved", "role_updated", "subscription_read"}

\* What is left to do after the handler's first update.
NextStep(e) ==
  CASE NaksIfMissing(e) /\ InboxWrite(e, replica) = replica -> "check"
    [] e.type = "thread_read" /\ InboxThreadWrite(e, tsubs.replica) # tsubs.replica -> "clear"
    [] e.type = "thread_read_all" -> "clear"
    [] OTHER -> "ack"

Ack(m) == pool' = pool \ {m} /\ UNCHANGED <<dropped, faults>>
Nak(m) ==
  IF CanRetry(m) THEN pool' = (pool \ {m}) \cup {Again(m)} /\ UNCHANGED dropped
  ELSE pool' = pool \ {m} /\ dropped' = dropped \cup {m.e}
\* The ack, or its loss: the server delivers the event again.
Settle(m) == Ack(m) \/ (Fault /\ CanRetry(m) /\ Nak(m))

PoolApply ==
  /\ \E m \in pool :
       /\ m.step = "apply"
       /\ replica' = InboxWrite(m.e, replica)
       /\ tsubs' = [tsubs EXCEPT !.replica = InboxThreadWrite(m.e, @)]
       /\ IF NextStep(m.e) = "ack" THEN Settle(m)
          ELSE /\ pool' = (pool \ {m}) \cup {[m EXCEPT !.step = NextStep(m.e)]}
               /\ UNCHANGED <<dropped, faults>>
  /\ UNCHANGED <<load, room, origin, rpcs, outbox, membershipCh, parked, dups>>

\* naksIfSubscriptionMissing reads again after the update that matched nothing.
PoolCheck ==
  /\ \E m \in pool :
       /\ m.step = "check"
       /\ IF replica.exists THEN Settle(m) ELSE Nak(m) /\ UNCHANGED faults
  /\ UNCHANGED <<load, docs, rpcs, outbox, membershipCh, parked, dups>>

\* The second write of ApplyThreadRead and ApplyThreadReadAll.
PoolClear ==
  /\ \E m \in pool :
       /\ m.step = "clear"
       /\ replica' = PullThreadUnread(replica)
       /\ Settle(m)
  /\ UNCHANGED <<load, room, origin, tsubs, rpcs, outbox, membershipCh, parked, dups>>

\* A database error at any step of a handler.
PoolFails ==
  /\ Fault
  /\ \E m \in pool : Nak(m)
  /\ UNCHANGED <<load, docs, rpcs, outbox, membershipCh, parked, dups>>

\* The worker stops without settling what it holds.
Crash ==
  LET held == {membershipCh[i] : i \in DOMAIN membershipCh} IN
  /\ Fault /\ held \cup pool # {}
  /\ membershipCh' = <<>>
  /\ parked' = parked \cup {Again(m) : m \in {h \in held : CanRetry(h)}}
  /\ pool' = {Again(m) : m \in {h \in pool : CanRetry(h)}}
  /\ dropped' = dropped \cup {m.e : m \in {h \in held \cup pool : ~CanRetry(h)}}
  /\ UNCHANGED <<load, docs, rpcs, outbox, dups>>

-----------------------------------------------------------------------------
StepOf(r) == WriteRoom(r) \/ WriteSub(r) \/ WriteThread(r) \/ Publish(r)
Relay == ForwardOrdered \/ ForwardConcurrent
Apply == HandleMembership \/ Redeliver \/ PoolApply \/ PoolCheck \/ PoolClear
Quiescent ==
  /\ rpcs = {} /\ ordered = <<>> /\ concurrent = {}
  /\ membershipCh = <<>> /\ parked = {} /\ pool = {}
Rest == Quiescent /\ UNCHANGED vars

Next ==
  \/ \E o \in work.ops : Start(o[1], o[2])
  \/ \E r \in rpcs : StepOf(r) \/ RpcFails(r) \/ WorkerFails(r)
  \/ Relay \/ Apply
  \/ MembershipFails \/ PoolFails \/ Crash
  \/ Rest

Spec == Init /\ [][Next]_vars

\* Handlers run to completion, outbox-worker retries for ever, and JetStream
\* redelivers what was not acked.
Fairness ==
  /\ WF_vars(\E r \in rpcs : StepOf(r))
  /\ WF_vars(ForwardOrdered /\ dups' = dups)
  /\ WF_vars(ForwardConcurrent /\ dups' = dups)
  /\ WF_vars(HandleMembership) /\ WF_vars(Redeliver)
  /\ WF_vars(PoolApply) /\ WF_vars(PoolCheck) /\ WF_vars(PoolClear)
FairSpec == Spec /\ Fairness

-----------------------------------------------------------------------------
(* What a replica is for.                                                  *)

BothExist == origin.exists /\ replica.exists
\* No membership event replaces either document.
SameSub == BothExist /\ \A o \in work.ops : o[1] \notin {"add", "remove"}
Agree(f) == replica.val[f] = origin.val[f] /\ replica.at[f] = origin.at[f]
Lost(t) == \E e \in dropped : e.at = t

\* Fields an operation of the workload writes without stamping their mark: a restriction writes
\* roles, turning favorite off leaves the section.
Unstamped ==
  {f \in {"roles", "section"} :
     \E o \in work.ops : o[1] = (IF f = "roles" THEN "restrict" ELSE "favorite")}

\* Once nothing is in flight the replica equals the origin, field by field,
\* mark by mark and in the thread's read position, whatever the order, repetition or failure of the deliveries, as
\* long as the newest event of the field got through: an older one that was
\* dropped does no harm.  (The account stays a member.)
ReplicaConverges ==
  Quiescent /\ SameSub =>
    /\ \A f \in Fields \ Unstamped : Lost(origin.at[f]) \/ Agree(f)
    /\ Lost(origin.seen) \/ replica.seen = origin.seen
    /\ tsubs.origin.exists /\ tsubs.replica.exists =>
         Lost(tsubs.origin.seen) \/ tsubs.replica.seen = tsubs.origin.seen

\* At every moment, not only at rest, the replica is a past state of the origin:
\* no mark is ahead of the origin's, and equal marks mean equal values.
ReplicaIsPastOrigin ==
  SameSub =>
    /\ \A f \in Fields \ Unstamped :
         /\ replica.at[f] <= origin.at[f]
         /\ replica.at[f] = origin.at[f] => replica.val[f] = origin.val[f]
    /\ replica.seen <= origin.seen

\* No delivery, redelivery or reordering moves a mark of the replica, its read
\* position or its thread's read position backwards, or changes a value under
\* the mark it has.
MarksNeverRegress ==
  [][replica.exists /\ replica'.exists =>
       /\ \A f \in Fields : replica'.at[f] >= replica.at[f]
       /\ \A f \in Fields \ Unstamped :
            replica'.val[f] # replica.val[f] => replica'.at[f] > replica.at[f]
       /\ replica'.seen >= replica.seen
       /\ tsubs'.replica.seen >= tsubs.replica.seen \/ ~tsubs'.replica.exists]_vars

\* The home site ends with the membership the room's site decided, however often
\* events are forwarded, as long as none failed.
MembershipConverges ==
  Quiescent /\ faults = 0 => replica.exists = origin.exists

\* Everything that is started is applied or given up.
EventuallyQuiescent == []<>Quiescent

-----------------------------------------------------------------------------
(* What comments in the code say and the code does not do.                 *)

Reliable == Quiescent /\ BothExist /\ dropped = {}

\* The event types of the concurrent lane are order-insensitive at the
\* destination: whatever their order, the replica ends like the origin.
OrderInsensitive ==
  Reliable => /\ \A f \in Fields : replica.val[f] = origin.val[f]
              /\ replica.unread = origin.unread /\ replica.mention = origin.mention

\* A member_added whose publish failed is enqueued again by the redelivery.
AddSurvivesRedelivery == Quiescent /\ dropped = {} /\ origin.exists => replica.exists
=============================================================================
