------------------------------ MODULE RoomList ------------------------------
(***************************************************************************)
(* roomlist-worker: the room-list state (room pointer, sender read         *)
(* position, mention badge) derived from MESSAGES-CANONICAL events.        *)
(*                                                                         *)
(* A replica's consume loop merges each delivered event into a pending     *)
(* batch and holds the event un-acked.  A flush swaps the batch out and    *)
(* writes it to MongoDB in three unordered bulk writes (rooms, lastSeenAt, *)
(* mentions); the held events are acked or nak'd only then.  The ticker    *)
(* and the consume loop (early drain on the mention budget) may write two  *)
(* batches of one replica at the same time, replicas write concurrently,   *)
(* and every write may meet a transient failure, a document the server     *)
(* rejects for good, or a crash.  room-service's read RPC writes the same  *)
(* subscription documents.                                                 *)
(*                                                                         *)
(* 0 stands for an absent timestamp and for an absent message id.  An      *)
(* operator placed just before the one whose name it extends (NewerRowByTime *)
(* before NewerRow) is a faulty variant of it, used to test the properties. *)
(***************************************************************************)
EXTENDS Naturals, FiniteSetsExt

CONSTANTS Events,         \* the canonical events of the run
          Rooms, Accounts,
          CreatedAt,      \* rooms.createdAt
          LegacyRooms,    \* rooms with a lastMsgAt older than lastUserMsgAt's introduction
          Members,        \* the (room, account) pairs that have a subscription
          Readers,        \* the members that call the read RPC
          PoisonRooms,    \* room documents the server rejects on every write
          PoisonSubs,     \* subscription documents the server rejects on every write
          Replicas,
          MaxAckPending,  \* CONSUMER_MAX_ACK_PENDING
          MentionBudget,  \* flusher.mentionBudget
          MaxFaults,      \* bound: failures, crashes, shutdowns and expiries per behaviour
          MaxClock        \* bound: the last instant of the clock

Subs == Rooms \X Accounts
Writers == Replicas \X {"ticker", "loop"}

EventType == [id: Nat \ {0}, event: {"created", "updated", "deleted", "malformed"},
              hidden: BOOLEAN, room: Rooms, at: Nat, account: Accounts,
              system: BOOLEAN, all: BOOLEAN, mentions: SUBSET Accounts]

ASSUME EventsAssumption ==
  /\ Events \subseteq EventType
  /\ \A e \in Events : e.event = "created" => e.at > 0
  /\ \A e, f \in Events : e.id = f.id => e = f
ASSUME RoomsAssumption ==
  /\ CreatedAt \in [Rooms -> Nat]
  /\ \A e \in Events : e.event = "created" => e.at >= CreatedAt[e.room]
  /\ LegacyRooms \subseteq Rooms /\ PoisonRooms \subseteq Rooms
  /\ Members \subseteq Subs /\ Readers \subseteq Members /\ PoisonSubs \subseteq Subs
ASSUME BoundsAssumption ==
  /\ MaxAckPending \in Nat \ {0} /\ MentionBudget \in Nat \ {0}
  /\ MaxFaults \in Nat /\ MaxClock \in Nat

VARIABLES clock, published,      \* time, and the events in the stream
          acked, outstanding,    \* the durable consumer: settled, delivered but not settled
          mode, pending, due,    \* per replica: lifecycle, batch, early drain requested
          flight,                \* per writer: the batch being written
          roomDoc, subDoc,       \* MongoDB
          reading,               \* read RPCs between taking "now" and writing it
          overrun,               \* history: events a read written late ran over
          faults

consumer == <<published, acked, outstanding>>
worker == <<mode, pending, due, flight>>
store == <<roomDoc, subDoc>>
readers == <<reading, overrun>>
vars == <<clock, consumer, worker, store, readers, faults>>

-----------------------------------------------------------------------------
(* msgbucket.NewerRow: order by (at, id). *)
NewerRowByTime(at, id, curAt, curId) == at > curAt
NewerRow(at, id, curAt, curId) == at > curAt \/ (at = curAt /\ id > curId)

Later(s, t) == IF s > t THEN s ELSE t

(* deriveIntents: the writes one event implies.  An id of 0 selects no room
   update, an empty senders set no lastSeenAt advance. *)
NoIntents(e) == [room |-> e.room, system |-> FALSE, id |-> 0, at |-> 0, allAt |-> 0,
                 senders |-> {}, mentions |-> {}, mentionAt |-> 0]
deriveIntents(e) ==
  CASE e.event = "created" /\ ~e.hidden ->
         [room |-> e.room, system |-> e.system, id |-> e.id, at |-> e.at,
          allAt |-> IF e.all THEN e.at ELSE 0,
          senders |-> {e.account}, mentions |-> e.mentions, mentionAt |-> e.at]
    [] e.event = "updated" /\ ~e.hidden /\ e.at > 0 ->
         [NoIntents(e) EXCEPT !.mentions = e.mentions, !.mentionAt = e.at]
    [] OTHER -> NoIntents(e)

(* batch and newBatch. *)
NoUpdate == [id |-> 0, at |-> 0, allAt |-> 0, userAt |-> 0, userId |-> 0]
newBatch == [rooms |-> [r \in Rooms |-> NoUpdate], lastSeen |-> [k \in Subs |-> 0],
             mentions |-> [k \in Subs |-> 0], held |-> {}]

(* The rooms-map half of batch.add. *)
mergeRoom(cur, in) ==
  LET newer == NewerRow(in.at, in.id, cur.at, cur.id)
      newerUser == ~in.system /\ NewerRow(in.at, in.id, cur.userAt, cur.userId)
  IN [id |-> IF newer THEN in.id ELSE cur.id,
      at |-> IF newer THEN in.at ELSE cur.at,
      allAt |-> Later(in.allAt, cur.allAt),
      userAt |-> IF newerUser THEN in.at ELSE cur.userAt,
      userId |-> IF newerUser THEN in.id ELSE cur.userId]

(* batch.add: merge the intents and take ownership of settling the event. *)
add(b, e) ==
  LET in == deriveIntents(e) IN
  [rooms |-> IF in.id = 0 THEN b.rooms
             ELSE [b.rooms EXCEPT ![in.room] = mergeRoom(b.rooms[in.room], in)],
   lastSeen |-> [k \in Subs |-> IF k[1] = in.room /\ k[2] \in in.senders
                                THEN Later(in.at, b.lastSeen[k]) ELSE b.lastSeen[k]],
   mentions |-> [k \in Subs |-> IF k[1] = in.room /\ k[2] \in in.mentions
                                THEN Later(in.mentionAt, b.mentions[k]) ELSE b.mentions[k]],
   held |-> b.held \cup {e}]

mentionCount(b) == Cardinality({k \in Subs : b.mentions[k] > 0})

-----------------------------------------------------------------------------
(* The write models of the three stages of flusher.write. *)
Stages == {"rooms", "lastSeen", "mentions"}
Models(stage, b) ==
  CASE stage = "rooms" ->
         {<<"pointer", r>> : r \in {x \in Rooms : b.rooms[x].id > 0}}
           \cup {<<"max", r>> : r \in {x \in Rooms : b.rooms[x].userAt > 0 \/ b.rooms[x].allAt > 0}}
    [] stage = "lastSeen" -> {<<"seen", k>> : k \in {x \in Subs : b.lastSeen[x] > 0}}
    [] stage = "mentions" -> {<<"mention", k>> : k \in {x \in Subs : b.mentions[x] > 0}}
    [] OTHER -> {}

nextStage(stage) == CASE stage = "rooms" -> "lastSeen"
                      [] stage = "lastSeen" -> "mentions"
                      [] OTHER -> "settle"

(* A transient error stops the batch, a permanent one does not. *)
stageAfterStops(class, stage) == IF class # "ok" THEN "settle" ELSE nextStage(stage)
stageAfter(class, stage) == IF class = "transient" THEN "settle" ELSE nextStage(stage)

roomLastMsgFilterNone(d, u) == TRUE
roomLastMsgFilter(d, u) ==
  ~(d.lastMsgAt >= u.at) \/ (d.lastMsgAt = u.at /\ d.lastMsgId < u.id)

(* The sticky freeze of a system-only window reads the document as it was
   before the pointer moves. *)
frozenUserAtPromotes(r, d) == IF d.lastUserMsgAt > 0 THEN d.lastUserMsgAt
                              ELSE IF d.lastMsgAt = 0 THEN CreatedAt[r] ELSE d.lastMsgAt
frozenUserAt(r, d) == IF d.lastUserMsgAt > 0 THEN d.lastUserMsgAt
                      ELSE IF d.lastMsgAt = 0 THEN CreatedAt[r] ELSE 0
roomPointerUpdateNoFreeze(r, d, u) == [d EXCEPT !.lastMsgAt = u.at, !.lastMsgId = u.id]
roomPointerUpdate(r, d, u) ==
  [d EXCEPT !.lastMsgAt = u.at, !.lastMsgId = u.id,
            !.lastUserMsgAt = IF u.userAt > 0 THEN d.lastUserMsgAt ELSE frozenUserAt(r, d)]
roomMaxUpdate(d, u) ==
  [d EXCEPT !.lastUserMsgAt = Later(u.userAt, d.lastUserMsgAt),
            !.lastMentionAllAt = Later(u.allAt, d.lastMentionAllAt)]

mentionFilterNone(d, at) == TRUE
mentionFilter(d, at) == ~(d.lastSeenAt >= at)

(* One write model of batch b applied by the server; a filter that matches
   nothing leaves the document alone. *)
roomWriteGated(m, b) ==
  LET r == m[2]  d == roomDoc[r]  u == b.rooms[r] IN
  IF ~roomLastMsgFilter(d, u) THEN d
  ELSE IF m[1] = "max" THEN roomMaxUpdate(d, u) ELSE roomPointerUpdate(r, d, u)
roomWrite(m, b) ==
  LET r == m[2]  d == roomDoc[r]  u == b.rooms[r] IN
  IF m[1] = "max" THEN roomMaxUpdate(d, u)
  ELSE IF roomLastMsgFilter(d, u) THEN roomPointerUpdate(r, d, u) ELSE d
subWrite(m, b) ==
  LET k == m[2]  d == subDoc[k] IN
  IF k \notin Members THEN d
  ELSE IF m[1] = "seen" THEN [d EXCEPT !.lastSeenAt = Later(b.lastSeen[k], d.lastSeenAt)]
  ELSE IF mentionFilter(d, b.mentions[k]) THEN [d EXCEPT !.hasMention = TRUE] ELSE d

ApplyModel(m, b) ==
  IF m[1] \in {"pointer", "max"}
  THEN /\ roomDoc' = [roomDoc EXCEPT ![m[2]] = roomWrite(m, b)]
       /\ UNCHANGED subDoc
  ELSE /\ subDoc' = [subDoc EXCEPT ![m[2]] = subWrite(m, b)]
       /\ UNCHANGED roomDoc

Poison(m) == IF m[1] \in {"pointer", "max"} THEN m[2] \in PoisonRooms ELSE m[2] \in PoisonSubs

(* classifyFlushErr: permanent only when no error of the stage is transient. *)
classifyFlushErrAny(errs) == IF errs = {} THEN "ok" ELSE "permanent"
classifyFlushErrNone(errs) == IF errs = {} THEN "ok" ELSE "transient"
classifyFlushErr(errs) == IF errs = {} THEN "ok"
                          ELSE IF "transient" \in errs THEN "transient" ELSE "permanent"

-----------------------------------------------------------------------------
Idle == [stage |-> "idle", batch |-> newBatch, todo |-> {}, errs |-> {}, outcome |-> "ok"]
BeginWrite(b) == [stage |-> "rooms", batch |-> b, todo |-> Models("rooms", b),
                  errs |-> {}, outcome |-> "ok"]

InitRoomDoc(r) == [lastMsgAt |-> IF r \in LegacyRooms THEN CreatedAt[r] ELSE 0,
                   lastMsgId |-> 0, lastUserMsgAt |-> 0, lastMentionAllAt |-> 0]

Init ==
  /\ clock = 0 /\ published = {} /\ acked = {} /\ outstanding = {}
  /\ mode = [r \in Replicas |-> "running"]
  /\ pending = [r \in Replicas |-> newBatch]
  /\ due = [r \in Replicas |-> FALSE]
  /\ flight = [w \in Writers |-> Idle]
  /\ roomDoc = [r \in Rooms |-> InitRoomDoc(r)]
  /\ subDoc = [k \in Subs |-> [lastSeenAt |-> 0, hasMention |-> FALSE]]
  /\ reading = {} /\ overrun = [k \in Subs |-> {}]
  /\ faults = 0

Fault == faults < MaxFaults /\ faults' = faults + 1

Tick == /\ clock < MaxClock /\ clock' = clock + 1
        /\ UNCHANGED <<consumer, worker, store, readers, faults>>

(* message-gatekeeper stamped e.at and published e on MESSAGES-CANONICAL. *)
Publish(e) == /\ e \notin published /\ e.at <= clock
              /\ published' = published \cup {e}
              /\ UNCHANGED <<clock, acked, outstanding, worker, store, readers, faults>>

(* The events some batch of a live replica holds. *)
Held == UNION {pending[r].held : r \in Replicas} \cup UNION {flight[w].batch.held : w \in Writers}

(* The server delivers e: the first time within MaxAckPending, again after a
   nak, a crash or a lost ack, or while e is still held once AckWait expires. *)
CanDeliver(e) ==
  /\ e \in published \ acked
  /\ IF e \in outstanding
     THEN IF e \in Held THEN Fault ELSE UNCHANGED faults
     ELSE Cardinality(outstanding) < MaxAckPending /\ UNCHANGED faults

(* One turn of consumeLoop: a malformed payload is settled at once, anything
   else joins the batch, which asks for an early drain at the mention budget. *)
Consume(r, e) ==
  /\ mode[r] = "running" /\ ~due[r] /\ flight[<<r, "loop">>].stage = "idle"
  /\ CanDeliver(e)
  /\ IF e.event = "malformed"
     THEN /\ acked' = acked \cup {e} /\ outstanding' = outstanding \ {e}
          /\ UNCHANGED <<pending, due>>
     ELSE /\ outstanding' = outstanding \cup {e}
          /\ pending' = [pending EXCEPT ![r] = add(pending[r], e)]
          /\ due' = [due EXCEPT ![r] = mentionCount(add(pending[r], e)) >= MentionBudget]
          /\ UNCHANGED acked
  /\ UNCHANGED <<clock, published, mode, flight, store, readers>>

(* flusher.Flush: swap the pending batch out; an empty one is a no-op. *)
SwapOut(r, w) ==
  IF pending[r].held = {} THEN UNCHANGED <<pending, flight>>
  ELSE /\ flight' = [flight EXCEPT ![w] = BeginWrite(pending[r])]
       /\ pending' = [pending EXCEPT ![r] = newBatch]

(* The periodic flush of flushloop.Run. *)
Flush(r) ==
  /\ mode[r] \in {"running", "stopping"} /\ pending[r].held # {}
  /\ flight[<<r, "ticker">>].stage = "idle"
  /\ SwapOut(r, <<r, "ticker">>)
  /\ UNCHANGED <<clock, consumer, mode, due, store, readers, faults>>

(* The early drain on the consume goroutine. *)
flushNow(r) ==
  /\ due[r] /\ due' = [due EXCEPT ![r] = FALSE]
  /\ SwapOut(r, <<r, "loop">>)
  /\ UNCHANGED <<clock, consumer, mode, store, readers, faults>>

Writing(w) == flight[w].stage \in Stages

(* Flight f once the write models M are answered with the errors E. *)
Answered(f, M, E) == [f EXCEPT !.todo = @ \ M, !.errs = @ \cup E]

(* One model of the current bulk write is answered: applied, or rejected for
   good because its document is poison. *)
WriteModel(w) ==
  /\ Writing(w)
  /\ \E m \in flight[w].todo :
       /\ flight' = [flight EXCEPT ![w] = Answered(@, {m}, IF Poison(m) THEN {"permanent"} ELSE {})]
       /\ IF Poison(m) THEN UNCHANGED store ELSE ApplyModel(m, flight[w].batch)
  /\ UNCHANGED <<clock, consumer, mode, pending, due, readers, faults>>

(* One model fails transiently; its write may or may not have been applied. *)
WriteFails(w) ==
  /\ Writing(w) /\ Fault
  /\ \E m \in flight[w].todo :
       /\ flight' = [flight EXCEPT ![w] = Answered(@, {m}, {"transient"})]
       /\ \/ UNCHANGED store
          \/ ~Poison(m) /\ ApplyModel(m, flight[w].batch)
  /\ UNCHANGED <<clock, consumer, mode, pending, due, readers>>

(* The flush context expires, or flushCancel cancels the periodic flush under
   way: the rest of the stage is not written. *)
StageTimeout(w) ==
  /\ Writing(w) /\ flight[w].todo # {}
  /\ IF w[2] = "ticker" /\ mode[w[1]] = "cancelled" THEN UNCHANGED faults ELSE Fault
  /\ flight' = [flight EXCEPT ![w] = Answered(@, @.todo, {"transient"})]
  /\ UNCHANGED <<clock, consumer, mode, pending, due, store, readers>>

(* flusher.write at the end of a stage: a transient error stops the batch, a
   permanent one is recorded and the next stage still runs. *)
EndStage(w) ==
  /\ Writing(w) /\ flight[w].todo = {}
  /\ LET class == classifyFlushErr(flight[w].errs)
         next == stageAfter(class, flight[w].stage)
     IN flight' = [flight EXCEPT
           ![w] = [stage |-> next, batch |-> @.batch, todo |-> Models(next, @.batch), errs |-> {},
                   outcome |-> IF class = "ok" THEN @.outcome ELSE class]]
  /\ UNCHANGED <<clock, consumer, mode, pending, due, store, readers, faults>>

(* flusher.settle: nak the whole batch on a transient outcome, ack it
   otherwise.  An ack that is lost leaves its event outstanding. *)
settle(w) ==
  /\ flight[w].stage = "settle"
  /\ flight' = [flight EXCEPT ![w] = Idle]
  /\ IF flight[w].outcome = "transient"
     THEN UNCHANGED <<acked, outstanding, faults>>
     ELSE \E S \in SUBSET flight[w].batch.held :
            /\ IF S = flight[w].batch.held THEN UNCHANGED faults ELSE Fault
            /\ acked' = acked \cup S /\ outstanding' = outstanding \ S
  /\ UNCHANGED <<clock, published, mode, pending, due, store, readers>>

-----------------------------------------------------------------------------
(* Shutdown in the order of main: stop the iterator, let the consume loop
   drain, cancel the flusher (one final flush), exit; then a new process. *)
BeginShutdown(r) ==
  /\ mode[r] = "running" /\ Fault
  /\ mode' = [mode EXCEPT ![r] = "stopping"]
  /\ UNCHANGED <<clock, consumer, pending, due, flight, store, readers>>
flushCancelEarly(r) ==
  /\ mode[r] = "stopping"
  /\ mode' = [mode EXCEPT ![r] = "cancelled"]
  /\ UNCHANGED <<clock, consumer, pending, due, flight, store, readers, faults>>
flushCancel(r) ==
  /\ mode[r] = "stopping" /\ ~due[r] /\ flight[<<r, "loop">>].stage = "idle"
  /\ mode' = [mode EXCEPT ![r] = "cancelled"]
  /\ UNCHANGED <<clock, consumer, pending, due, flight, store, readers, faults>>
FinalFlush(r) ==
  /\ mode[r] = "cancelled" /\ flight[<<r, "ticker">>].stage = "idle"
  /\ mode' = [mode EXCEPT ![r] = "final"]
  /\ SwapOut(r, <<r, "ticker">>)
  /\ UNCHANGED <<clock, consumer, due, store, readers, faults>>
Exit(r) ==
  /\ mode[r] = "final" /\ flight[<<r, "ticker">>].stage = "idle"
  /\ mode' = [mode EXCEPT ![r] = "stopped"]
  /\ UNCHANGED <<clock, consumer, pending, due, flight, store, readers, faults>>
Restart(r) ==
  /\ mode[r] = "stopped" /\ mode' = [mode EXCEPT ![r] = "running"]
  /\ UNCHANGED <<clock, consumer, pending, due, flight, store, readers, faults>>

(* The process dies, or overruns the shutdown budget, and is started again:
   its batches are gone, its events stay outstanding. *)
Crash(r) ==
  /\ Fault
  /\ mode' = [mode EXCEPT ![r] = "running"]
  /\ pending' = [pending EXCEPT ![r] = newBatch]
  /\ due' = [due EXCEPT ![r] = FALSE]
  /\ flight' = [w \in Writers |-> IF w[1] = r THEN Idle ELSE flight[w]]
  /\ UNCHANGED <<clock, consumer, store, readers>>

(* room-service messageRead: "now" is taken first, the unguarded write of
   lastSeenAt and hasMention follows. *)
StartRead(k) ==
  /\ k \in Readers /\ clock > 0 /\ <<k, clock>> \notin reading
  /\ reading' = reading \cup {<<k, clock>>}
  /\ UNCHANGED <<clock, consumer, worker, store, overrun, faults>>
UpdateSubscriptionRead(k, now) ==
  /\ <<k, now>> \in reading /\ reading' = reading \ {<<k, now>>}
  /\ subDoc' = [subDoc EXCEPT ![k] = [lastSeenAt |-> now, hasMention |-> FALSE]]
  /\ overrun' = [overrun EXCEPT ![k] = @ \cup {e \in published : e.room = k[1] /\ e.at > now}]
  /\ UNCHANGED <<clock, consumer, worker, roomDoc, faults>>

-----------------------------------------------------------------------------
(* Every event is settled and every process idle: the only state to rest in. *)
Quiescent == /\ clock = MaxClock /\ acked = Events /\ reading = {} /\ Held = {}
             /\ \A r \in Replicas : mode[r] = "running" /\ ~due[r]
             /\ \A w \in Writers : flight[w].stage = "idle"
             /\ UNCHANGED vars

WriterStep(w) == WriteModel(w) \/ EndStage(w) \/ settle(w)
Next ==
  \/ Tick
  \/ \E e \in Events : Publish(e)
  \/ \E r \in Replicas, e \in Events : Consume(r, e)
  \/ \E r \in Replicas : \/ Flush(r) \/ flushNow(r) \/ Crash(r) \/ BeginShutdown(r)
                         \/ flushCancel(r) \/ FinalFlush(r) \/ Exit(r) \/ Restart(r)
  \/ \E w \in Writers : WriterStep(w) \/ WriteFails(w) \/ StageTimeout(w)
  \/ \E k \in Readers : StartRead(k) \/ \E now \in 1..MaxClock : UpdateSubscriptionRead(k, now)
  \/ Quiescent

Spec == Init /\ [][Next]_vars

(* Weak fairness of the worker's own steps and of the shutdown sequence; the
   failures are bounded by MaxFaults, so MongoDB recovers. *)
Fairness ==
  /\ WF_vars(Tick)
  /\ \A e \in Events : WF_vars(Publish(e)) /\ WF_vars(\E r \in Replicas : Consume(r, e))
  /\ \A r \in Replicas : /\ WF_vars(Flush(r)) /\ WF_vars(flushNow(r)) /\ WF_vars(flushCancel(r))
                         /\ WF_vars(FinalFlush(r)) /\ WF_vars(Exit(r)) /\ WF_vars(Restart(r))
  /\ \A w \in Writers : WF_vars(WriterStep(w))
FairSpec == Spec /\ Fairness

-----------------------------------------------------------------------------
BatchType == [rooms: [Rooms -> [id: Nat, at: Nat, allAt: Nat, userAt: Nat, userId: Nat]],
              lastSeen: [Subs -> Nat], mentions: [Subs -> Nat], held: SUBSET Events]
ModelType == ({"pointer", "max"} \X Rooms) \cup ({"seen", "mention"} \X Subs)

(* Type invariant of the worker, its consumer and the documents it writes. *)
TypeOK ==
  /\ clock \in Nat /\ faults \in Nat
  /\ published \subseteq Events /\ acked \subseteq published /\ outstanding \subseteq published \ acked
  /\ mode \in [Replicas -> {"running", "stopping", "cancelled", "final", "stopped"}]
  /\ pending \in [Replicas -> BatchType] /\ due \in [Replicas -> BOOLEAN]
  /\ flight \in [Writers -> [stage: Stages \cup {"idle", "settle"}, batch: BatchType,
                             todo: SUBSET ModelType, errs: SUBSET {"permanent", "transient"},
                             outcome: {"ok", "permanent", "transient"}]]
  /\ roomDoc \in [Rooms -> [lastMsgAt: Nat, lastMsgId: Nat, lastUserMsgAt: Nat, lastMentionAllAt: Nat]]
  /\ subDoc \in [Subs -> [lastSeenAt: Nat, hasMention: BOOLEAN]]
  /\ reading \subseteq Readers \X Nat /\ overrun \in [Subs -> SUBSET Events]

(* The events of S that carry a room update, a sender advance or a mention. *)
Created(S, r) == {e \in S : e.event = "created" /\ ~e.hidden /\ e.room = r}
SentBy(S, k) == {e \in Created(S, k[1]) : e.account = k[2]}
Mentioning(S, k) == {e \in S : /\ e.event \in {"created", "updated"} /\ ~e.hidden /\ e.at > 0
                               /\ e.room = k[1] /\ k[2] \in e.mentions}
Newest(S) == CHOOSE e \in S : \A f \in S : ~NewerRow(f.at, f.id, e.at, e.id)
LatestAt(S) == Max({e.at : e \in S} \cup {0})
UserMsgs(S) == {e \in S : ~e.system}
AllMsgs(S) == {e \in S : e.all}

(* Coalescing is independent of arrival order and of duplicates: a batch,
   pending or being written, is what its held events determine (batch.add). *)
BatchIsReference ==
  \A b \in {pending[r] : r \in Replicas} \cup {flight[w].batch : w \in Writers} :
    /\ \A r \in Rooms :
         LET C == Created(b.held, r)  U == UserMsgs(C) IN
         b.rooms[r] = [id |-> IF C = {} THEN 0 ELSE Newest(C).id, at |-> LatestAt(C),
                       allAt |-> LatestAt(AllMsgs(C)), userAt |-> LatestAt(U),
                       userId |-> IF U = {} THEN 0 ELSE Newest(U).id]
    /\ \A k \in Subs : /\ b.lastSeen[k] = LatestAt(SentBy(b.held, k))
                       /\ b.mentions[k] = LatestAt(Mentioning(b.held, k))

(* What doc d of a room must show once created event e has been applied. *)
Covers(d, e) ==
  /\ ~NewerRow(e.at, e.id, d.lastMsgAt, d.lastMsgId)
  /\ ~e.system => d.lastUserMsgAt >= e.at
  /\ e.all => d.lastMentionAllAt >= e.at

(* No acknowledged message is lost: an event is acked only when its room
   document covers it, whatever failed, crashed or was retried in between
   (flusher.settle after flusher.write). *)
AckedWritesLanded ==
  \A r \in Rooms \ PoisonRooms : \A e \in Created(acked, r) : Covers(roomDoc[r], e)

(* Once every event of a room is acked its document is the one the events
   determine: the same pointer under every delivery order, the user position
   of the newest non-system message, or the frozen createdAt of a room that
   only ever carried system messages (roomLastMsgModels, roomPointerUpdate). *)
RoomConverges ==
  \A r \in Rooms \ PoisonRooms :
    LET C == Created(published, r)  U == UserMsgs(C) IN
    (C # {} /\ C \subseteq acked) =>
      roomDoc[r] = [lastMsgAt |-> Newest(C).at, lastMsgId |-> Newest(C).id,
                    lastUserMsgAt |-> IF U # {} THEN LatestAt(U)
                                      ELSE IF r \in LegacyRooms THEN 0 ELSE CreatedAt[r],
                    lastMentionAllAt |-> LatestAt(AllMsgs(C))]

(* No mention badge is lost: once the event is acked the account is badged or
   has read past it, unless a read written late ran over the event
   (BulkSetMentions against UpdateSubscriptionRead). *)
BadgeNotLost ==
  \A k \in Members \ PoisonSubs : \A e \in Mentioning(acked, k) :
    subDoc[k].hasMention \/ subDoc[k].lastSeenAt >= e.at \/ e \in overrun[k]

(* The sender is never counted against their own message: once it is acked
   their read position is at or past it, even when another document of the
   batch was poison (write goes on after a permanent stage). *)
SenderHasRead ==
  \A k \in Members \ PoisonSubs : \A e \in SentBy(acked, k) :
    subDoc[k].lastSeenAt >= e.at \/ e \in overrun[k]

(* A process that stopped in order holds no batch: the consume loop drained
   before the flusher was cancelled, and the final flush settled the rest. *)
GracefulStopHoldsNothing ==
  \A r \in Replicas : mode[r] = "stopped" =>
    /\ pending[r].held = {} /\ ~due[r]
    /\ \A w \in Writers : w[1] = r => flight[w].stage = "idle"

(* Stale writers never win: no step of any replica moves a room's pointer,
   user position or @all position backwards (roomLastMsgFilter, $max). *)
RoomNeverRegresses ==
  [][\A r \in Rooms :
       /\ ~NewerRow(roomDoc[r].lastMsgAt, roomDoc[r].lastMsgId,
                    roomDoc'[r].lastMsgAt, roomDoc'[r].lastMsgId)
       /\ roomDoc'[r].lastUserMsgAt >= roomDoc[r].lastUserMsgAt
       /\ roomDoc'[r].lastMentionAllAt >= roomDoc[r].lastMentionAllAt]_vars

(* A redelivered or delayed batch never badges an account for a mention it has
   already read (mentionFilter), nor for one in its own message: "a message
   that @-mentions its own sender does not badge the sender", unless a late read
   took back the sender's position. *)
BadgeOnlyForUnread ==
  [][\A k \in Subs : ~subDoc[k].hasMention /\ subDoc'[k].hasMention =>
       \E e \in Mentioning(published, k) :
         /\ e.at > subDoc[k].lastSeenAt
         /\ e.event = "updated" \/ e.account # k[2] \/ e \in overrun[k]]_vars

(* Back-pressure never becomes a stall: every published event is settled in
   the end, poison documents included (MaxDeliver = -1 and classifyFlushErr). *)
EventuallySettled == \A e \in Events : e \in published ~> e \in acked
=============================================================================
