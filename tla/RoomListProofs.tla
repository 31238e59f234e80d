--------------------------- MODULE RoomListProofs ---------------------------
(***************************************************************************)
(* Proofs about RoomList for any set of events, rooms, accounts and        *)
(* replicas, any budgets and any number of failures: the type invariant,   *)
(* that no acknowledged message is lost, and that no room regresses; what  *)
(* a batch and a room document are, exactly; that sender positions and     *)
(* mention badges are neither lost nor false; and that a process that      *)
(* stopped in order holds nothing.                                         *)
(*                                                                         *)
(* AckedWritesLanded is not inductive: an ack is justified by the batch    *)
(* that carried the event.  The invariant IInv adds that a batch covers    *)
(* what it holds (BatchCovers) and that every write of a batch in flight   *)
(* is still to do, has failed transiently, or is covered by the document   *)
(* (Landed).                                                               *)
(***************************************************************************)
EXTENDS RoomList, TLAPS

IntentType == [room: Rooms, system: BOOLEAN, id: Nat, at: Nat, allAt: Nat,
               senders: SUBSET Accounts, mentions: SUBSET Accounts, mentionAt: Nat]
UpdateType == [id: Nat, at: Nat, allAt: Nat, userAt: Nat, userId: Nat]
RoomDocType == [lastMsgAt: Nat, lastMsgId: Nat, lastUserMsgAt: Nat, lastMentionAllAt: Nat]
SubDocType == [lastSeenAt: Nat, hasMention: BOOLEAN]
FlightType == [stage: Stages \cup {"idle", "settle"}, batch: BatchType,
               todo: SUBSET ModelType, errs: SUBSET {"permanent", "transient"},
               outcome: {"ok", "permanent", "transient"}]

(* d is at or past c in each of the three dimensions of a room document. *)
Grows(c, d) == /\ ~NewerRow(c.lastMsgAt, c.lastMsgId, d.lastMsgAt, d.lastMsgId)
               /\ d.lastUserMsgAt >= c.lastUserMsgAt
               /\ d.lastMentionAllAt >= c.lastMentionAllAt

(* Update u covers created event e. *)
UpdateCovers(u, e) == /\ u.id > 0 /\ ~NewerRow(e.at, e.id, u.at, u.id)
                      /\ ~e.system => u.userAt >= e.at
                      /\ e.all => u.allAt >= e.at
BatchCovers(b) == \A r \in Rooms : /\ b.rooms[r].id = 0 => b.rooms[r].at = 0
                                   /\ \A e \in Created(b.held, r) : UpdateCovers(b.rooms[r], e)

(* The two writes of update u, as far as document d is concerned. *)
PointerLanded(u, d) == u.id = 0 \/ ~NewerRow(u.at, u.id, d.lastMsgAt, d.lastMsgId)
MaxLanded(u, d) == d.lastUserMsgAt >= u.userAt /\ d.lastMentionAllAt >= u.allAt

(* The batch of flight f will be nak'd. *)
Failing(f) == \/ f.stage = "rooms" /\ "transient" \in f.errs
              \/ f.stage = "settle" /\ f.outcome = "transient"
ToDo(f, m) == f.stage = "rooms" /\ m \in f.todo
Landed(f, r, d) ==
  \/ Failing(f)
  \/ /\ ToDo(f, <<"pointer", r>>) \/ PointerLanded(f.batch.rooms[r], d)
     /\ ToDo(f, <<"max", r>>) \/ MaxLanded(f.batch.rooms[r], d)

HeldPublished == /\ \A r \in Replicas : pending[r].held \subseteq published
                 /\ \A w \in Writers : flight[w].batch.held \subseteq published
Coalesced == /\ \A r \in Replicas : BatchCovers(pending[r])
             /\ \A w \in Writers : BatchCovers(flight[w].batch)
InFlight == \A w \in Writers : \A r \in Rooms \ PoisonRooms : Landed(flight[w], r, roomDoc[r])

IInv == TypeOK /\ HeldPublished /\ Coalesced /\ InFlight /\ AckedWritesLanded
-----------------------------------------------------------------------------
(* deriveIntents yields a well-formed writeIntents. *)
LEMMA DeriveType == ASSUME NEW e \in Events PROVE deriveIntents(e) \in IntentType
<1>1. e \in EventType
  BY EventsAssumption
<1>2. NoIntents(e) \in IntentType
  BY <1>1 DEF EventType, NoIntents, IntentType
<1>3. CASE e.event = "created" /\ ~e.hidden
  BY <1>1, <1>3 DEF EventType, deriveIntents, IntentType
<1>4. CASE e.event = "updated" /\ ~e.hidden /\ e.at > 0
  BY <1>1, <1>2, <1>4, Zenon DEF EventType, deriveIntents, IntentType, NoIntents
<1>5. CASE ~(e.event = "created" /\ ~e.hidden) /\ ~(e.event = "updated" /\ ~e.hidden /\ e.at > 0)
  BY <1>2, <1>5 DEF deriveIntents
<1>6. QED
  BY <1>3, <1>4, <1>5

(* The coalescer keeps a batch a batch. *)
LEMMA AddType == ASSUME NEW b \in BatchType, NEW e \in Events PROVE add(b, e) \in BatchType
<1>1. deriveIntents(e) \in IntentType
  BY DeriveType
<1> DEFINE in == deriveIntents(e)
<1> HIDE DEF in
<1>2. in \in IntentType
  BY <1>1 DEF in
<1>3. \A s, t \in Nat : Later(s, t) \in Nat
  BY DEF Later
<1>4. \A u \in UpdateType : mergeRoom(u, in) \in UpdateType
  BY <1>2, <1>3 DEF mergeRoom, UpdateType, IntentType
<1>5. add(b, e).rooms \in [Rooms -> UpdateType]
  BY <1>2, <1>4 DEF add, in, BatchType, UpdateType, IntentType
<1>6. add(b, e).lastSeen \in [Subs -> Nat]
  BY <1>2, <1>3, Zenon DEF add, in, BatchType, IntentType
<1>7. add(b, e).mentions \in [Subs -> Nat]
  BY <1>2, <1>3, Zenon DEF add, in, BatchType, IntentType
<1>8. add(b, e).held \in SUBSET Events
  BY DEF add, BatchType
<1>9. QED
  BY <1>5, <1>6, <1>7, <1>8, Zenon DEF add, BatchType, UpdateType

(* The coalescer loses nothing: an update only grows, and covers the event
   just merged. *)
LEMMA AddCovers ==
  ASSUME NEW b \in BatchType, NEW e \in Events, BatchCovers(b)
  PROVE  BatchCovers(add(b, e))
<1>1. e \in EventType /\ (e.event = "created" => e.at > 0)
  BY EventsAssumption
<1> SUFFICES ASSUME NEW r \in Rooms
             PROVE  /\ add(b, e).rooms[r].id = 0 => add(b, e).rooms[r].at = 0
                    /\ \A f \in Created(add(b, e).held, r) : UpdateCovers(add(b, e).rooms[r], f)
  BY DEF BatchCovers
<1> DEFINE u == b.rooms[r]
           v == add(b, e).rooms[r]
<1>2. u \in UpdateType /\ (u.id = 0 => u.at = 0)
  BY DEF BatchType, UpdateType, BatchCovers
<1>3. \A f \in Created(add(b, e).held, r) : f \in EventType /\ (f = e \/ UpdateCovers(u, f))
  BY EventsAssumption DEF BatchCovers, Created, add, BatchType
<1>4. CASE ~(e.event = "created" /\ ~e.hidden /\ e.room = r)
  <2>1. deriveIntents(e).id = 0 \/ (deriveIntents(e).room = e.room /\ e.room # r)
    BY <1>4 DEF deriveIntents, NoIntents
  <2>2. v = u
    BY <2>1 DEF add, BatchType
  <2>3. \A f \in Created(add(b, e).held, r) : f # e
    BY <1>4 DEF Created
  <2>4. QED
    BY <1>2, <1>3, <2>2, <2>3
<1>5. CASE e.event = "created" /\ ~e.hidden /\ e.room = r
  <2> DEFINE in == deriveIntents(e)
  <2>1. /\ in.room = r /\ in.id = e.id /\ in.at = e.at /\ in.system = e.system
        /\ in.allAt = IF e.all THEN e.at ELSE 0
    BY <1>5 DEF deriveIntents
  <2>2. e.id \in Nat /\ e.id > 0 /\ e.at \in Nat /\ e.at > 0
    BY <1>1, <1>5 DEF EventType
  <2> HIDE DEF in
  <2>3. v = mergeRoom(u, in)
    BY <2>1, <2>2 DEF add, in, BatchType
  <2> HIDE DEF u, v
  <2>4. v.id > 0 /\ UpdateCovers(v, e)
    BY <2>1, <2>2, <2>3, <1>1, <1>2 DEF mergeRoom, UpdateCovers, NewerRow, Later, UpdateType, EventType
  <2>5. \A f \in EventType : UpdateCovers(u, f) => UpdateCovers(v, f)
    BY <2>1, <2>2, <2>3, <1>1, <1>2 DEF mergeRoom, UpdateCovers, NewerRow, Later, UpdateType, EventType
  <2>6. QED
    BY <2>4, <2>5, <1>3 DEF u, v
<1>6. QED
  BY <1>4, <1>5

(* An empty batch covers its held events. *)
LEMMA NewBatch == newBatch \in BatchType /\ BatchCovers(newBatch) /\ newBatch.held = {}
  BY DEF newBatch, NoUpdate, BatchType, BatchCovers, Created

(* One applied room write leaves a well-formed document, at or past the old
   one, that reflects the update. *)
LEMMA RoomWrite ==
  ASSUME NEW r \in Rooms, NEW kind \in {"pointer", "max"}, NEW b \in BatchType,
         roomDoc \in [Rooms -> RoomDocType]
  PROVE  LET d == roomWrite(<<kind, r>>, b) IN
         /\ d \in RoomDocType /\ Grows(roomDoc[r], d)
         /\ kind = "pointer" => PointerLanded(b.rooms[r], d)
         /\ kind = "max" => MaxLanded(b.rooms[r], d)
<1> DEFINE c == roomDoc[r]
           u == b.rooms[r]
           d == roomWrite(<<kind, r>>, b)
<1>1. c \in RoomDocType /\ u \in UpdateType /\ CreatedAt[r] \in Nat
  BY RoomsAssumption DEF BatchType, UpdateType
<1>2. d = IF kind = "max" THEN roomMaxUpdate(c, u)
          ELSE IF roomLastMsgFilter(c, u) THEN roomPointerUpdate(r, c, u) ELSE c
  BY DEF roomWrite
<1> SUFFICES /\ d \in RoomDocType /\ Grows(c, d)
             /\ kind = "pointer" => PointerLanded(u, d)
             /\ kind = "max" => MaxLanded(u, d)
  OBVIOUS
<1> HIDE DEF c, u, d
<1>3. CASE kind = "max"
  <2>1. /\ d \in RoomDocType
        /\ d.lastMsgAt = c.lastMsgAt /\ d.lastMsgId = c.lastMsgId
        /\ d.lastUserMsgAt = Later(u.userAt, c.lastUserMsgAt)
        /\ d.lastMentionAllAt = Later(u.allAt, c.lastMentionAllAt)
    BY <1>1, <1>2, <1>3, Zenon DEF roomMaxUpdate, RoomDocType, UpdateType, Later
  <2>2. QED
    BY <1>1, <1>3, <2>1 DEF RoomDocType, UpdateType, Grows, MaxLanded, NewerRow, Later
<1>4. CASE kind = "pointer" /\ roomLastMsgFilter(c, u)
  <2>1. frozenUserAt(r, c) \in Nat /\ frozenUserAt(r, c) >= c.lastUserMsgAt
    BY <1>1 DEF frozenUserAt, RoomDocType
  <2> DEFINE x == IF u.userAt > 0 THEN c.lastUserMsgAt ELSE frozenUserAt(r, c)
  <2>2. x \in Nat /\ x >= c.lastUserMsgAt
    BY <1>1, <2>1 DEF RoomDocType
  <2>3. d = [c EXCEPT !.lastMsgAt = u.at, !.lastMsgId = u.id, !.lastUserMsgAt = x]
    BY <1>2, <1>4 DEF roomPointerUpdate
  <2> HIDE DEF x
  <2>4. /\ d \in RoomDocType
        /\ d.lastMsgAt = u.at /\ d.lastMsgId = u.id /\ d.lastUserMsgAt = x
        /\ d.lastMentionAllAt = c.lastMentionAllAt
    BY <1>1, <2>2, <2>3, Zenon DEF RoomDocType, UpdateType
  <2>5. QED
    BY <1>1, <1>4, <2>2, <2>4 DEF roomLastMsgFilter, RoomDocType, UpdateType, Grows, PointerLanded, NewerRow
<1>5. CASE kind = "pointer" /\ ~roomLastMsgFilter(c, u)
  BY <1>1, <1>2, <1>5 DEF roomLastMsgFilter, RoomDocType, UpdateType, Grows, PointerLanded, NewerRow
<1>6. QED
  BY <1>3, <1>4, <1>5

(* What an update or an event is covered by stays so. *)
LEMMA GrowsKeeps ==
  ASSUME NEW c \in RoomDocType, NEW d \in RoomDocType, Grows(c, d)
  PROVE  /\ \A u \in UpdateType : /\ PointerLanded(u, c) => PointerLanded(u, d)
                                  /\ MaxLanded(u, c) => MaxLanded(u, d)
         /\ \A e \in EventType : Covers(c, e) => Covers(d, e)
  BY DEF Grows, PointerLanded, MaxLanded, Covers, NewerRow, RoomDocType, UpdateType, EventType

(* Growth is reflexive. *)
LEMMA GrowsSame == ASSUME NEW c \in RoomDocType PROVE Grows(c, c)
  BY DEF Grows, NewerRow, RoomDocType

-----------------------------------------------------------------------------
(* The room writes of one step: none, or one model of one flight. *)
RoomStep(w, m) ==
  /\ Writing(w) /\ m \in flight[w].todo /\ ~Poison(m) /\ m[1] \in {"pointer", "max"}
  /\ roomDoc' = [roomDoc EXCEPT ![m[2]] = roomWrite(m, flight[w].batch)]

(* A step either leaves the room documents alone or is one answered room write. *)
LEMMA DocStep ==
  ASSUME [Next]_vars
  PROVE  roomDoc' = roomDoc \/ \E w \in Writers : \E m \in flight[w].todo : RoomStep(w, m)
<1>1. CASE \E w \in Writers : WriteModel(w) \/ WriteFails(w)
  BY <1>1, Zenon DEF WriteModel, WriteFails, ApplyModel, RoomStep, store
<1>2. CASE ~\E w \in Writers : WriteModel(w) \/ WriteFails(w)
  BY <1>2, ZenonT(60) DEF Next, vars, store, Tick, Publish, Consume, Flush, flushNow, Crash, BeginShutdown,
     flushCancel, FinalFlush, Exit, Restart, WriterStep, EndStage, settle, StageTimeout,
     StartRead, UpdateSubscriptionRead, Quiescent
<1>3. QED
  BY <1>1, <1>2

(* A room write has a well-formed model. *)
LEMMA ModelIsRoom ==
  ASSUME TypeOK, NEW w \in Writers, NEW m \in flight[w].todo, m[1] \in {"pointer", "max"}
  PROVE  /\ m[2] \in Rooms /\ m = <<m[1], m[2]>> /\ flight[w].batch \in BatchType
         /\ roomDoc \in [Rooms -> RoomDocType]
  BY SMTT(60) DEF TypeOK, ModelType, RoomDocType

(* No step moves a room document backwards. *)
LEMMA DocsGrow ==
  ASSUME TypeOK, [Next]_vars
  PROVE  /\ roomDoc' \in [Rooms -> RoomDocType]
         /\ \A r \in Rooms : Grows(roomDoc[r], roomDoc'[r])
<1>1. roomDoc \in [Rooms -> RoomDocType]
  BY DEF TypeOK, RoomDocType
<1>2. CASE roomDoc' = roomDoc
  BY <1>1, <1>2, GrowsSame
<1>3. ASSUME NEW w \in Writers, NEW m \in flight[w].todo, RoomStep(w, m)
      PROVE  /\ roomDoc' \in [Rooms -> RoomDocType]
             /\ \A r \in Rooms : Grows(roomDoc[r], roomDoc'[r])
  <2>1. m[1] \in {"pointer", "max"} /\ m[2] \in Rooms /\ m = <<m[1], m[2]>> /\ flight[w].batch \in BatchType
    BY <1>3, ModelIsRoom DEF RoomStep
  <2>2. /\ roomWrite(m, flight[w].batch) \in RoomDocType
        /\ Grows(roomDoc[m[2]], roomWrite(m, flight[w].batch))
    BY <1>1, <2>1, RoomWrite, Zenon
  <2>3. roomDoc' = [roomDoc EXCEPT ![m[2]] = roomWrite(m, flight[w].batch)]
    BY <1>3 DEF RoomStep
  <2>4. QED
    BY <1>1, <2>1, <2>2, <2>3, GrowsSame
<1>4. QED
  BY <1>2, <1>3, DocStep

(* A write model of a batch is a well-formed model. *)
LEMMA ModelsType ==
  ASSUME NEW stage, NEW b \in BatchType PROVE Models(stage, b) \subseteq ModelType
  BY DEF Models, ModelType, BatchType

(* An idle flight and one just begun are well-formed. *)
LEMMA FlightShape ==
  /\ Idle \in FlightType
  /\ \A b \in BatchType : BeginWrite(b) \in FlightType /\ BeginWrite(b).batch = b
  /\ Idle.batch = newBatch
<1>1. \A b \in BatchType : Models("rooms", b) \subseteq ModelType
  BY ModelsType
<1>2. QED
  BY <1>1, NewBatch DEF Idle, BeginWrite, FlightType, Stages

(* The subscription write of one model leaves a subscription document. *)
LEMMA SubWrite ==
  ASSUME TypeOK, NEW w \in Writers, NEW m \in flight[w].todo, m[1] \notin {"pointer", "max"}
  PROVE  m[2] \in Subs /\ subWrite(m, flight[w].batch) \in SubDocType
<1>1. m[2] \in Subs /\ subDoc[m[2]] \in SubDocType /\ flight[w].batch \in BatchType
  BY DEF TypeOK, ModelType, SubDocType
<1>2. \A s, t \in Nat : Later(s, t) \in Nat
  BY DEF Later
<1>3. flight[w].batch.lastSeen[m[2]] \in Nat
  BY <1>1 DEF BatchType
<1>4. QED
  BY <1>1, <1>2, <1>3, Zenon DEF subWrite, SubDocType

(* Swapping a batch out moves it from the pending slot to a flight. *)
LEMMA SwapType ==
  ASSUME TypeOK, HeldPublished, NEW r \in Replicas, NEW w \in Writers, SwapOut(r, w)
  PROVE  /\ pending' \in [Replicas -> BatchType] /\ flight' \in [Writers -> FlightType]
         /\ \A q \in Replicas : pending'[q].held \subseteq published
         /\ \A x \in Writers : flight'[x].batch.held \subseteq published
<1>1. pending \in [Replicas -> BatchType] /\ flight \in [Writers -> FlightType]
  BY DEF TypeOK, FlightType
<1>2. CASE pending[r].held = {}
  BY <1>1, <1>2 DEF SwapOut, HeldPublished
<1>3. CASE pending[r].held # {}
  <2>1. /\ flight' = [flight EXCEPT ![w] = BeginWrite(pending[r])]
        /\ pending' = [pending EXCEPT ![r] = newBatch]
    BY <1>3 DEF SwapOut
  <2>2. BeginWrite(pending[r]) \in FlightType /\ BeginWrite(pending[r]).batch = pending[r]
    BY <1>1, FlightShape
  <2>3. QED
    BY <1>1, <2>1, <2>2, NewBatch DEF HeldPublished
<1>4. QED
  BY <1>2, <1>3

-----------------------------------------------------------------------------
(* One step keeps the types, and keeps every held event a published one. *)
LEMMA TypeStep ==
  ASSUME TypeOK, HeldPublished, [Next]_vars
  PROVE  TypeOK' /\ HeldPublished'
<1> USE DEF consumer, worker, store, readers
<1>1. roomDoc' \in [Rooms -> RoomDocType]
  BY DocsGrow
<1>2. flight \in [Writers -> FlightType] /\ pending \in [Replicas -> BatchType]
  BY DEF TypeOK, FlightType
<1>3. faults \in Nat => faults + 1 \in Nat
  OBVIOUS
<1>4. ASSUME UNCHANGED vars PROVE TypeOK' /\ HeldPublished'
  BY <1>4, Zenon DEF vars, TypeOK, HeldPublished
<1>5. CASE Tick
  BY <1>5 DEF Tick, TypeOK, HeldPublished
<1>6. ASSUME NEW e \in Events, Publish(e) PROVE TypeOK' /\ HeldPublished'
  BY <1>6 DEF Publish, TypeOK, HeldPublished
<1>7. ASSUME NEW r \in Replicas, NEW e \in Events, Consume(r, e) PROVE TypeOK' /\ HeldPublished'
  <2>1. e \in published \ acked /\ faults' \in Nat
    BY <1>7, <1>3 DEF Consume, CanDeliver, Fault, TypeOK
  <2>2. add(pending[r], e) \in BatchType /\ add(pending[r], e).held = pending[r].held \cup {e}
    BY <1>2, AddType, ZenonT(60) DEF add
  <2>3. pending' \in [Replicas -> BatchType]
    BY <1>2, <1>7, <2>2, Zenon DEF Consume
  <2>7. due' \in [Replicas -> BOOLEAN]
    <3> DEFINE x == mentionCount(add(pending[r], e)) >= MentionBudget
    <3>1. due' = due \/ due' = [due EXCEPT ![r] = x]
      BY <1>7 DEF Consume
    <3>2. x \in BOOLEAN
      OBVIOUS
    <3> HIDE DEF x
    <3>3. QED
      BY <3>1, <3>2 DEF TypeOK
  <2>4. \A q \in Replicas : pending'[q].held \subseteq published
    BY <1>2, <1>7, <2>1, <2>2, ZenonT(60) DEF Consume, HeldPublished
  <2>5. acked' \subseteq published /\ outstanding' \subseteq published \ acked'
    BY <1>7, <2>1 DEF Consume, TypeOK
  <2>6. QED
    BY <1>7, <2>1, <2>3, <2>4, <2>5, <2>7, ZenonT(60) DEF Consume, TypeOK, HeldPublished
<1>8. ASSUME NEW r \in Replicas, Flush(r) \/ flushNow(r) \/ FinalFlush(r)
      PROVE  TypeOK' /\ HeldPublished'
  <2>1. \E w \in Writers : SwapOut(r, w)
    <3>1. <<r, "ticker">> \in Writers /\ <<r, "loop">> \in Writers
      BY DEF Writers
    <3>2. QED
      BY <1>8, <3>1, Zenon DEF Flush, flushNow, FinalFlush
  <2>2. /\ pending' \in [Replicas -> BatchType] /\ flight' \in [Writers -> FlightType]
        /\ \A q \in Replicas : pending'[q].held \subseteq published
        /\ \A x \in Writers : flight'[x].batch.held \subseteq published
    BY <2>1, SwapType, Zenon
  <2>3. /\ mode' \in [Replicas -> {"running", "stopping", "cancelled", "final", "stopped"}]
        /\ due' \in [Replicas -> BOOLEAN]
    BY <1>8, Zenon DEF Flush, flushNow, FinalFlush, TypeOK
  <2>4. UNCHANGED <<clock, consumer, store, readers, faults>>
    BY <1>8 DEF Flush, flushNow, FinalFlush
  <2>5. QED
    BY <2>2, <2>3, <2>4, ZenonT(60) DEF TypeOK, HeldPublished, FlightType
<1>9. ASSUME NEW r \in Replicas, Crash(r) PROVE TypeOK' /\ HeldPublished'
  <2>1. pending' \in [Replicas -> BatchType] /\ flight' \in [Writers -> FlightType]
    BY <1>2, <1>9, NewBatch, FlightShape, Zenon DEF Crash
  <2>2. \A q \in Replicas : pending'[q].held \subseteq published
    BY <1>2, <1>9, NewBatch, Zenon DEF Crash, HeldPublished
  <2>3. \A w \in Writers : flight'[w].batch.held \subseteq published
    BY <1>2, <1>9, NewBatch, FlightShape, Zenon DEF Crash, HeldPublished
  <2>4. /\ mode' \in [Replicas -> {"running", "stopping", "cancelled", "final", "stopped"}]
        /\ due' \in [Replicas -> BOOLEAN] /\ faults' \in Nat
    BY <1>3, <1>9 DEF Crash, Fault, TypeOK
  <2>5. UNCHANGED <<clock, consumer, store, readers>>
    BY <1>9 DEF Crash
  <2>6. QED
    BY <2>1, <2>2, <2>3, <2>4, <2>5, ZenonT(60) DEF TypeOK, HeldPublished, FlightType
<1>10. ASSUME NEW r \in Replicas, BeginShutdown(r) \/ flushCancel(r) \/ Exit(r) \/ Restart(r)
       PROVE  TypeOK' /\ HeldPublished'
  <2>1. mode' \in [Replicas -> {"running", "stopping", "cancelled", "final", "stopped"}] /\ faults' \in Nat
    BY <1>3, <1>10, Zenon DEF BeginShutdown, flushCancel, Exit, Restart, Fault, TypeOK
  <2>2. UNCHANGED <<clock, consumer, pending, due, flight, store, readers>>
    BY <1>10, Zenon DEF BeginShutdown, flushCancel, Exit, Restart
  <2>3. QED
    BY <2>1, <2>2, Zenon DEF TypeOK, HeldPublished
<1>11. ASSUME NEW w \in Writers, WriteModel(w) \/ WriteFails(w) PROVE TypeOK' /\ HeldPublished'
  <2>1. PICK m \in flight[w].todo, E \in SUBSET {"permanent", "transient"} :
          /\ flight' = [flight EXCEPT ![w] = Answered(flight[w], {m}, E)]
          /\ UNCHANGED store \/ ApplyModel(m, flight[w].batch)
    <3> DEFINE Shape(m, E) == /\ flight' = [flight EXCEPT ![w] = Answered(flight[w], {m}, E)]
                              /\ UNCHANGED store \/ ApplyModel(m, flight[w].batch)
    <3>1. CASE WriteModel(w)
      <4>1. PICK m \in flight[w].todo : Shape(m, IF Poison(m) THEN {"permanent"} ELSE {})
        BY <1>2, <3>1, Zenon DEF WriteModel
      <4>2. Shape(m, {"permanent"}) \/ Shape(m, {})
        BY <4>1, Zenon
      <4>3. QED
        BY <4>2, SMTT(60)
    <3>2. CASE WriteFails(w)
      <4>1. PICK m \in flight[w].todo : Shape(m, {"transient"})
        BY <1>2, <3>2, Zenon DEF WriteFails
      <4>2. QED
        BY <4>1, Zenon
    <3>3. QED
      BY <1>11, <3>1, <3>2, ZenonT(60)
  <2>2. subDoc' \in [Subs -> SubDocType]
    <3>1. subDoc \in [Subs -> SubDocType]
      BY DEF TypeOK, SubDocType
    <3>2. CASE m[1] \in {"pointer", "max"} \/ UNCHANGED store
      BY <2>1, <3>1, <3>2 DEF ApplyModel
    <3>3. CASE m[1] \notin {"pointer", "max"} /\ ~UNCHANGED store
      BY <2>1, <3>1, <3>3, SubWrite, ZenonT(60) DEF ApplyModel
    <3>4. QED
      BY <3>2, <3>3
  <2>3. flight' \in [Writers -> FlightType] /\ \A x \in Writers : flight'[x].batch = flight[x].batch
    BY <1>2, <2>1, ZenonT(60) DEF FlightType, Answered
  <2>4. faults' \in Nat /\ UNCHANGED <<clock, consumer, mode, pending, due, readers>>
    BY <1>3, <1>11, Zenon DEF WriteModel, WriteFails, Fault, TypeOK
  <2>5. QED
    BY <1>1, <2>2, <2>3, <2>4, Zenon DEF TypeOK, HeldPublished, FlightType, RoomDocType, SubDocType
<1>12. ASSUME NEW w \in Writers, StageTimeout(w) \/ EndStage(w) PROVE TypeOK' /\ HeldPublished'
  <2>1. flight' \in [Writers -> FlightType] /\ \A x \in Writers : flight'[x].batch = flight[x].batch
    <3>1. CASE StageTimeout(w)
      BY <1>2, <3>1, ZenonT(60) DEF StageTimeout, Answered, FlightType
    <3>2. CASE EndStage(w)
      <4> DEFINE class == classifyFlushErr(flight[w].errs)
                 next == stageAfter(class, flight[w].stage)
      <4>1. class \in {"ok", "permanent", "transient"} /\ next \in Stages \cup {"settle"}
        BY DEF classifyFlushErr, stageAfter, nextStage, Stages
      <4>2. Models(next, flight[w].batch) \subseteq ModelType
        BY <1>2, ModelsType DEF FlightType
      <4>3. flight' = [flight EXCEPT ![w] =
              [stage |-> next, batch |-> flight[w].batch, todo |-> Models(next, flight[w].batch),
               errs |-> {}, outcome |-> IF class = "ok" THEN flight[w].outcome ELSE class]]
        BY <1>2, <3>2, Zenon DEF EndStage
      <4> HIDE DEF class, next
      <4>4. QED
        BY <1>2, <4>1, <4>2, <4>3, Zenon DEF FlightType
    <3>3. QED
      BY <1>12, <3>1, <3>2
  <2>2. faults' \in Nat /\ UNCHANGED <<clock, consumer, mode, pending, due, store, readers>>
    BY <1>3, <1>12, Zenon DEF StageTimeout, EndStage, Fault, TypeOK
  <2>3. QED
    BY <2>1, <2>2, Zenon DEF TypeOK, HeldPublished, FlightType
<1>13. ASSUME NEW w \in Writers, settle(w) PROVE TypeOK' /\ HeldPublished'
  <2>1. flight' \in [Writers -> FlightType] /\ \A x \in Writers : flight'[x].batch.held \subseteq published
    BY <1>2, <1>13, FlightShape, NewBatch, ZenonT(60) DEF settle, HeldPublished
  <2>2. flight[w].batch.held \subseteq published
    BY DEF HeldPublished
  <2>3. acked' \subseteq published /\ outstanding' \subseteq published \ acked' /\ faults' \in Nat
    BY <1>3, <1>13, <2>2, ZenonT(60) DEF settle, Fault, TypeOK
  <2>4. UNCHANGED <<clock, published, mode, pending, due, store, readers>>
    BY <1>13, Zenon DEF settle
  <2>5. QED
    BY <2>1, <2>3, <2>4, Zenon DEF TypeOK, HeldPublished, FlightType
<1>14. ASSUME NEW k \in Readers, StartRead(k) PROVE TypeOK' /\ HeldPublished'
  <2>1. UNCHANGED <<clock, consumer, worker, store, overrun, faults>>
    BY <1>14, Zenon DEF StartRead
  <2>2. reading' = reading \cup {<<k, clock>>}
    BY <1>14, Zenon DEF StartRead
  <2>3. UNCHANGED <<clock, faults, overrun, published, acked, outstanding, mode, pending, due, flight, roomDoc, subDoc>>
    BY <2>1, Zenon DEF consumer, worker, store
  <2>4. reading' \subseteq Readers \X Nat
    BY <2>2 DEF TypeOK
  <2>5. QED
    BY <2>3, <2>4, ZenonT(60) DEF TypeOK, HeldPublished
<1>15. ASSUME NEW k \in Readers, NEW now \in 1..MaxClock, UpdateSubscriptionRead(k, now)
       PROVE  TypeOK' /\ HeldPublished'
  <2>1. k \in Subs /\ now \in Nat
    BY RoomsAssumption, BoundsAssumption
  <2>2. /\ subDoc' \in [Subs -> SubDocType] /\ overrun' \in [Subs -> SUBSET Events]
        /\ reading' \subseteq Readers \X Nat
    BY <1>15, <2>1, Zenon DEF UpdateSubscriptionRead, TypeOK, SubDocType
  <2>3. QED
    BY <1>15, <2>2, Zenon DEF UpdateSubscriptionRead, TypeOK, HeldPublished, SubDocType
<1>16. QED
  BY <1>4, <1>5, <1>6, <1>7, <1>8, <1>9, <1>10, <1>11, <1>12, <1>13, <1>14, <1>15, Zenon
     DEF Next, WriterStep, Quiescent

-----------------------------------------------------------------------------
(* One step keeps every batch a cover of what it holds. *)
LEMMA CoalescedStep ==
  ASSUME TypeOK, Coalesced, [Next]_vars
  PROVE  Coalesced'
<1> USE DEF worker
<1>1. flight \in [Writers -> FlightType] /\ pending \in [Replicas -> BatchType]
  BY DEF TypeOK, FlightType
<1>2. CASE UNCHANGED <<pending, flight>>
  BY <1>2 DEF Coalesced
<1>3. ASSUME NEW r \in Replicas, NEW e \in Events, Consume(r, e) PROVE Coalesced'
  <2>1. BatchCovers(add(pending[r], e))
    BY <1>1, AddCovers DEF Coalesced
  <2>2. QED
    BY <1>1, <1>3, <2>1, Zenon DEF Consume, Coalesced
<1>4. ASSUME NEW r \in Replicas, NEW w \in Writers, SwapOut(r, w) PROVE Coalesced'
  BY <1>1, <1>4, FlightShape, NewBatch DEF SwapOut, Coalesced
<1>5. ASSUME NEW r \in Replicas, Crash(r) PROVE Coalesced'
  BY <1>1, <1>5, FlightShape, NewBatch, Zenon DEF Crash, Coalesced
<1>6. ASSUME NEW w \in Writers, WriteModel(w) \/ WriteFails(w) \/ StageTimeout(w) \/ EndStage(w)
      PROVE  Coalesced'
  <2>1. pending' = pending /\ \A x \in Writers : flight'[x].batch = flight[x].batch
    <3>1. \A M, E : Answered(flight[w], M, E).batch = flight[w].batch
      BY <1>1 DEF Answered, FlightType
    <3>2. CASE WriteModel(w) \/ WriteFails(w) \/ StageTimeout(w)
      <4>1. pending' = pending /\ \E M, E : flight' = [flight EXCEPT ![w] = Answered(flight[w], M, E)]
        BY <1>1, <3>2, Zenon DEF WriteModel, WriteFails, StageTimeout
      <4>2. QED
        BY <1>1, <3>1, <4>1
    <3>3. CASE EndStage(w)
      BY <1>1, <3>3, Zenon DEF EndStage, FlightType
    <3>4. QED
      BY <1>6, <3>2, <3>3, Zenon
  <2>2. QED
    BY <2>1 DEF Coalesced
<1>7. ASSUME NEW w \in Writers, settle(w) PROVE Coalesced'
  BY <1>1, <1>7, FlightShape, NewBatch, Zenon DEF settle, Coalesced
<1>8. ASSUME NEW r \in Replicas, Flush(r) \/ flushNow(r) \/ FinalFlush(r) PROVE Coalesced'
  BY <1>4, <1>8 DEF Flush, flushNow, FinalFlush, Writers
<1>9. QED
  BY <1>2, <1>3, <1>5, <1>6, <1>7, <1>8, Zenon
     DEF Next, WriterStep, vars, Tick, Publish, BeginShutdown, flushCancel, Exit, Restart,
         StartRead, UpdateSubscriptionRead, Quiescent

(* Growth of the document keeps what has landed. *)
LEMMA LandedKept ==
  ASSUME NEW f \in FlightType, NEW r \in Rooms, NEW c \in RoomDocType, NEW d \in RoomDocType,
         Grows(c, d), Landed(f, r, c)
  PROVE  Landed(f, r, d)
<1>1. f.batch.rooms[r] \in UpdateType
  BY DEF FlightType, BatchType, UpdateType
<1>2. QED
  BY <1>1, GrowsKeeps DEF Landed

(* An idle flight has nothing to land, a fresh one everything still to do. *)
LEMMA LandedStart ==
  ASSUME NEW r \in Rooms, NEW d \in RoomDocType
  PROVE  Landed(Idle, r, d) /\ \A b \in BatchType : Landed(BeginWrite(b), r, d)
<1>1. Landed(Idle, r, d)
  <2>1. Idle.batch.rooms[r] = NoUpdate
    BY DEF Idle, newBatch
  <2>2. PointerLanded(NoUpdate, d) /\ MaxLanded(NoUpdate, d)
    BY DEF NoUpdate, PointerLanded, MaxLanded, RoomDocType
  <2>3. QED
    BY <2>1, <2>2 DEF Landed
<1>2. ASSUME NEW b \in BatchType PROVE Landed(BeginWrite(b), r, d)
  <2>1. b.rooms[r] \in UpdateType
    BY DEF BatchType, UpdateType
  <2>2. ToDo(BeginWrite(b), <<"pointer", r>>) \/ b.rooms[r].id = 0
    BY <2>1 DEF BeginWrite, ToDo, Models, UpdateType
  <2>3. ToDo(BeginWrite(b), <<"max", r>>) \/ (b.rooms[r].userAt = 0 /\ b.rooms[r].allAt = 0)
    BY <2>1 DEF BeginWrite, ToDo, Models, UpdateType
  <2>4. BeginWrite(b).batch = b
    BY DEF BeginWrite
  <2>5. /\ b.rooms[r].id = 0 => PointerLanded(b.rooms[r], d)
        /\ b.rooms[r].userAt = 0 /\ b.rooms[r].allAt = 0 => MaxLanded(b.rooms[r], d)
    BY DEF PointerLanded, MaxLanded, RoomDocType
  <2>6. QED
    BY <2>2, <2>3, <2>4, <2>5, Zenon DEF Landed
<1>3. QED
  BY <1>1, <1>2

(* The models of a room's document. *)
LEMMA RoomModel ==
  ASSUME NEW r \in Rooms \ PoisonRooms, NEW m, m = <<"pointer", r>> \/ m = <<"max", r>>
  PROVE  ~Poison(m) /\ m[1] \in {"pointer", "max"} /\ m[2] = r /\ m = <<m[1], r>>
  BY DEF Poison

(* An answered model has failed transiently or is in the document. *)
LEMMA AnsweredLanded ==
  ASSUME TypeOK, NEW w \in Writers, NEW m \in flight[w].todo, Writing(w),
         NEW E \in SUBSET {"permanent", "transient"}, NEW r \in Rooms \ PoisonRooms,
         Landed(flight[w], r, roomDoc[r]),
         roomDoc' \in [Rooms -> RoomDocType], Grows(roomDoc[r], roomDoc'[r]),
         "transient" \in E \/ Poison(m) \/ ApplyModel(m, flight[w].batch)
  PROVE  Landed(Answered(flight[w], {m}, E), r, roomDoc'[r])
<1> DEFINE f == flight[w]
           g == Answered(f, {m}, E)
           d == roomDoc'[r]
<1>1. f \in FlightType /\ roomDoc \in [Rooms -> RoomDocType] /\ d \in RoomDocType
  BY DEF TypeOK, FlightType, RoomDocType
<1>2. /\ g.stage = f.stage /\ g.batch = f.batch /\ g.outcome = f.outcome
      /\ g.todo = f.todo \ {m} /\ g.errs = f.errs \cup E
  BY <1>1 DEF Answered, FlightType
<1>3. Landed(f, r, d)
  BY <1>1, LandedKept, Zenon
<1>4. CASE f.stage # "rooms" \/ m \notin {<<"pointer", r>>, <<"max", r>>} \/ "transient" \in E
  BY <1>2, <1>3, <1>4, Zenon DEF Landed, Failing, ToDo
<1>5. CASE /\ m \in {<<"pointer", r>>, <<"max", r>>} /\ "transient" \notin E
  <2>1. ~Poison(m) /\ m[1] \in {"pointer", "max"} /\ m[2] = r /\ m = <<m[1], r>>
    BY <1>5, RoomModel
  <2>2. roomDoc' = [roomDoc EXCEPT ![r] = roomWrite(m, f.batch)]
    BY <1>5, <2>1, Zenon DEF ApplyModel
  <2>3. d = roomWrite(<<m[1], r>>, f.batch)
    BY <1>1, <2>1, <2>2
  <2>4. f.batch \in BatchType
    BY <1>1, Zenon DEF FlightType
  <2>5. /\ m[1] = "pointer" => PointerLanded(f.batch.rooms[r], d)
        /\ m[1] = "max" => MaxLanded(f.batch.rooms[r], d)
    BY <1>1, <2>1, <2>3, <2>4, RoomWrite, ZenonT(60)
  <2> SUFFICES Landed(g, r, d)
    BY Zenon
  <2> HIDE DEF f, g, d
  <2>6. <<"pointer", r>> # <<"max", r>>
    BY Zenon
  <2>7. CASE m[1] = "pointer"
    BY <2>6, <1>2, <1>3, <2>1, <2>5, <2>7, Zenon DEF Landed, Failing, ToDo
  <2>8. CASE m[1] = "max"
    BY <2>6, <1>2, <1>3, <2>1, <2>5, <2>8, Zenon DEF Landed, Failing, ToDo
  <2>9. QED
    BY <2>1, <2>7, <2>8, SMTT(60)
<1>6. QED
  BY <1>4, <1>5, Zenon

(* The end of a stage forgets neither a transient error nor a landed write. *)
LEMMA EndStageLanded ==
  ASSUME TypeOK, NEW w \in Writers, EndStage(w), NEW r \in Rooms, NEW d \in RoomDocType,
         Landed(flight[w], r, d)
  PROVE  Landed(flight'[w], r, d)
<1> DEFINE f == flight[w]
           g == flight'[w]
           class == classifyFlushErr(f.errs)
<1>1. f \in FlightType /\ flight \in [Writers -> FlightType]
  BY DEF TypeOK, FlightType
<1>2. /\ f.stage \in Stages /\ f.todo = {} /\ g.batch = f.batch
      /\ g.stage = stageAfter(class, f.stage)
      /\ g.outcome = IF class = "ok" THEN f.outcome ELSE class
  BY <1>1, Zenon DEF EndStage, Writing
<1>3. class = "transient" <=> "transient" \in f.errs
  BY ZenonT(60) DEF classifyFlushErr
<1> SUFFICES Landed(g, r, d)
  BY Zenon
<1> HIDE DEF f, g, class
<1>4. CASE class = "transient"
  BY <1>2, <1>4, Zenon DEF stageAfter, Landed, Failing
<1>5. CASE class # "transient"
  <2>1. f.stage # "settle" /\ "transient" \notin f.errs
    BY <1>2, <1>3, <1>5, Zenon DEF Stages
  <2>2. PointerLanded(f.batch.rooms[r], d) /\ MaxLanded(f.batch.rooms[r], d)
    BY <1>2, <2>1, Zenon DEF Landed, Failing, ToDo, f
  <2>3. QED
    BY <1>2, <2>2, Zenon DEF Landed
<1>6. QED
  BY <1>4, <1>5

(* One step keeps every flight accounted for. *)
LEMMA InFlightStep ==
  ASSUME TypeOK, InFlight, [Next]_vars
  PROVE  InFlight'
<1> USE DEF worker
<1> SUFFICES ASSUME NEW x \in Writers, NEW r \in Rooms \ PoisonRooms
             PROVE  Landed(flight'[x], r, roomDoc'[r])
  BY Zenon DEF InFlight
<1>1. /\ flight \in [Writers -> FlightType] /\ pending \in [Replicas -> BatchType]
      /\ roomDoc \in [Rooms -> RoomDocType]
  BY Zenon DEF TypeOK, FlightType, RoomDocType
<1>2. roomDoc' \in [Rooms -> RoomDocType] /\ Grows(roomDoc[r], roomDoc'[r])
  BY DocsGrow
<1>3. Landed(flight[x], r, roomDoc[r]) /\ Landed(flight[x], r, roomDoc'[r])
  BY <1>1, <1>2, LandedKept DEF InFlight
<1>4. CASE flight'[x] = flight[x]
  BY <1>3, <1>4
<1>5. CASE flight'[x] = Idle \/ \E b \in BatchType : flight'[x] = BeginWrite(b)
  BY <1>2, <1>5, LandedStart
<1>6. ASSUME NEW w \in Writers, WriteModel(w) \/ WriteFails(w) \/ StageTimeout(w)
      PROVE  Landed(flight'[x], r, roomDoc'[r])
  <2>1. CASE x # w
    BY <1>1, <1>4, <1>6, <2>1, Zenon DEF WriteModel, WriteFails, StageTimeout
  <2>2. CASE x = w /\ WriteModel(w)
    <3>1. PICK m \in flight[w].todo :
            /\ flight'[w] = Answered(flight[w], {m}, IF Poison(m) THEN {"permanent"} ELSE {})
            /\ Poison(m) \/ ApplyModel(m, flight[w].batch)
      BY <1>1, <2>2, Zenon DEF WriteModel
    <3>2. Writing(w)
      BY <2>2, Zenon DEF WriteModel
    <3>3. \A E \in SUBSET {"permanent", "transient"} :
            Landed(Answered(flight[w], {m}, E), r, roomDoc'[r])
      BY <1>2, <1>3, <2>2, <3>1, <3>2, AnsweredLanded, Zenon
    <3>4. flight'[w] = Answered(flight[w], {m}, {"permanent"}) \/ flight'[w] = Answered(flight[w], {m}, {})
      BY <3>1, Zenon
    <3>5. QED
      BY <2>2, <3>3, <3>4, Zenon
  <2>3. CASE x = w /\ WriteFails(w)
    <3>1. PICK m \in flight[w].todo : flight'[w] = Answered(flight[w], {m}, {"transient"})
      BY <1>1, <2>3, Zenon DEF WriteFails
    <3>2. Writing(w)
      BY <2>3, Zenon DEF WriteFails
    <3>3. \A E \in SUBSET {"permanent", "transient"} :
            "transient" \in E => Landed(Answered(flight[w], {m}, E), r, roomDoc'[r])
      BY <1>2, <1>3, <2>3, <3>2, AnsweredLanded, Zenon
    <3>4. QED
      BY <2>3, <3>1, <3>3, Zenon
  <2>4. CASE x = w /\ StageTimeout(w)
    <3>1. flight'[w] = Answered(flight[w], flight[w].todo, {"transient"})
      BY <1>1, <2>4, Zenon DEF StageTimeout
    <3>2. /\ flight'[w].stage = flight[w].stage /\ flight'[w].batch = flight[w].batch
          /\ flight'[w].outcome = flight[w].outcome /\ "transient" \in flight'[w].errs
      BY <1>1, <3>1 DEF Answered, FlightType
    <3>3. CASE flight[w].stage = "rooms"
      BY <2>4, <3>2, <3>3, Zenon DEF Landed, Failing
    <3>4. CASE flight[w].stage # "rooms"
      BY <1>3, <2>4, <3>2, <3>4, Zenon DEF Landed, Failing, ToDo
    <3>5. QED
      BY <3>3, <3>4, Zenon
  <2>5. QED
    BY <1>6, <2>1, <2>2, <2>3, <2>4, SMTT(20)
<1>7. ASSUME NEW w \in Writers, EndStage(w) PROVE Landed(flight'[x], r, roomDoc'[r])
  <2>1. CASE x # w
    BY <1>1, <1>4, <1>7, <2>1, Zenon DEF EndStage
  <2>2. CASE x = w
    BY <1>2, <1>3, <1>7, <2>2, EndStageLanded, Zenon
  <2>3. QED
    BY <2>1, <2>2
<1>8. ASSUME NEW w \in Writers, settle(w) PROVE Landed(flight'[x], r, roomDoc'[r])
  BY <1>1, <1>4, <1>5, <1>8, Zenon DEF settle
<1>9. ASSUME NEW q \in Replicas, Crash(q) PROVE Landed(flight'[x], r, roomDoc'[r])
  BY <1>1, <1>4, <1>5, <1>9, Zenon DEF Crash
<1>10. ASSUME NEW q \in Replicas, Flush(q) \/ flushNow(q) \/ FinalFlush(q)
       PROVE  Landed(flight'[x], r, roomDoc'[r])
  <2>1. \E w \in Writers : SwapOut(q, w)
    BY <1>10, Zenon DEF Flush, flushNow, FinalFlush, Writers
  <2>2. QED
    BY <1>1, <1>4, <1>5, <2>1, Zenon DEF SwapOut
<1>11. CASE UNCHANGED flight
  BY <1>4, <1>11
<1>12. QED
  BY <1>6, <1>7, <1>8, <1>9, <1>10, <1>11, ZenonT(60)
     DEF Next, WriterStep, vars, Tick, Publish, Consume, BeginShutdown, flushCancel, Exit, Restart,
         StartRead, UpdateSubscriptionRead, Quiescent

(* An update in the document covers in it whatever the update covers. *)
LEMMA LandedCovers ==
  ASSUME NEW u \in UpdateType, NEW d \in RoomDocType, NEW e \in EventType,
         UpdateCovers(u, e), PointerLanded(u, d), MaxLanded(u, d)
  PROVE  Covers(d, e)
  BY DEF UpdateCovers, PointerLanded, MaxLanded, Covers, NewerRow, UpdateType, RoomDocType, EventType

(* One step acks only what has landed. *)
LEMMA AckedStep ==
  ASSUME IInv, [Next]_vars
  PROVE  AckedWritesLanded'
<1> USE DEF consumer
<1>1. /\ roomDoc \in [Rooms -> RoomDocType] /\ roomDoc' \in [Rooms -> RoomDocType]
      /\ \A r \in Rooms : Grows(roomDoc[r], roomDoc'[r])
  BY DocsGrow, Zenon DEF IInv, TypeOK, RoomDocType
<1> SUFFICES ASSUME NEW r \in Rooms \ PoisonRooms, NEW e \in Created(acked', r)
             PROVE  Covers(roomDoc'[r], e)
  BY DEF AckedWritesLanded
<1>2. TypeOK'
  BY TypeStep DEF IInv
<1>3. e \in Events /\ e \in EventType
  BY <1>2, EventsAssumption, Zenon DEF TypeOK, Created
<1>4. CASE e \in acked
  <2>1. Covers(roomDoc[r], e)
    BY <1>4, Zenon DEF IInv, AckedWritesLanded, Created
  <2>2. QED
    BY <1>1, <1>3, <2>1, GrowsKeeps, Zenon
<1>5. ASSUME NEW w \in Writers, settle(w), e \notin acked PROVE Covers(roomDoc'[r], e)
  <2>1. flight[w].stage = "settle" /\ flight[w].outcome # "transient" /\ e \in flight[w].batch.held
    BY <1>5, Zenon DEF settle, Created
  <2>2. roomDoc' = roomDoc
    BY <1>5, Zenon DEF settle, store
  <2>3. Landed(flight[w], r, roomDoc[r])
    BY DEF IInv, InFlight
  <2>4. flight[w].batch.rooms[r] \in UpdateType
    BY DEF IInv, TypeOK, BatchType, UpdateType
  <2>5. PointerLanded(flight[w].batch.rooms[r], roomDoc[r]) /\ MaxLanded(flight[w].batch.rooms[r], roomDoc[r])
    BY <2>1, <2>3, Zenon DEF Landed, Failing, ToDo
  <2>6. UpdateCovers(flight[w].batch.rooms[r], e)
    BY <2>1, Zenon DEF IInv, Coalesced, BatchCovers, Created
  <2>7. QED
    BY <1>1, <1>3, <2>2, <2>4, <2>5, <2>6, LandedCovers, Zenon
<1>6. ASSUME NEW q \in Replicas, NEW x \in Events, Consume(q, x) PROVE e \in acked
  BY <1>6, Zenon DEF Consume, Created
<1>7. CASE UNCHANGED acked
  BY <1>4, <1>7 DEF Created
<1>8. QED
  BY <1>4, <1>5, <1>6, <1>7, ZenonT(60)
     DEF Next, WriterStep, vars, Tick, Publish, Crash, Flush, flushNow, FinalFlush, BeginShutdown,
         flushCancel, Exit, Restart, WriteModel, WriteFails, StageTimeout, EndStage,
         StartRead, UpdateSubscriptionRead, Quiescent

-----------------------------------------------------------------------------
(* The inductive invariant holds initially. *)
LEMMA InitInv == Init => IInv
<1> SUFFICES ASSUME Init PROVE IInv
  BY SMTT(20)
<1>1. roomDoc \in [Rooms -> RoomDocType]
  BY RoomsAssumption, Zenon DEF Init, InitRoomDoc, RoomDocType
<1>2. TypeOK
  BY <1>1, NewBatch, FlightShape, Zenon DEF Init, TypeOK, RoomDocType, FlightType
<1>3. HeldPublished /\ Coalesced
  BY NewBatch, FlightShape, Zenon DEF Init, HeldPublished, Coalesced
<1>4. InFlight
  BY <1>1, LandedStart, Zenon DEF Init, InFlight
<1>5. AckedWritesLanded
  BY Zenon DEF Init, AckedWritesLanded, Created
<1>6. QED
  BY <1>2, <1>3, <1>4, <1>5 DEF IInv

(* Every step keeps the inductive invariant. *)
LEMMA NextInv == IInv /\ [Next]_vars => IInv'
  BY TypeStep, CoalescedStep, InFlightStep, AckedStep DEF IInv

(* The inductive invariant holds always: batches cover what they hold, flights
   account for every write, and what is acked has landed (flusher). *)
THEOREM Invariance == Spec => []IInv
  BY InitInv, NextInv, PTL DEF Spec

(* The worker, its consumer and the documents keep their types, whatever the
   events, replicas, budgets and failures (flusher, consumeLoop, main). *)
THEOREM TypeCorrect == Spec => []TypeOK
<1>1. IInv => TypeOK
  BY DEF IInv
<1>2. QED
  BY <1>1, Invariance, PTL

(* Coalesce, write, then settle never acks a message whose room write has not
   landed: for every interleaving of replicas, flush goroutines, partial bulk
   failures, timeouts, poison documents, crashes and redeliveries. *)
THEOREM NoAckedWriteLost == Spec => []AckedWritesLanded
<1>1. IInv => AckedWritesLanded
  BY DEF IInv
<1>2. QED
  BY <1>1, Invariance, PTL

(* No step of any replica moves a room's pointer, user position or @all
   position backwards (roomLastMsgFilter, roomPointerUpdate, $max). *)
THEOREM RoomMonotone == Spec => RoomNeverRegresses
<1>1. TypeOK /\ [Next]_vars =>
        [\A r \in Rooms :
           /\ ~NewerRow(roomDoc[r].lastMsgAt, roomDoc[r].lastMsgId,
                        roomDoc'[r].lastMsgAt, roomDoc'[r].lastMsgId)
           /\ roomDoc'[r].lastUserMsgAt >= roomDoc[r].lastUserMsgAt
           /\ roomDoc'[r].lastMentionAllAt >= roomDoc[r].lastMentionAllAt]_vars
  BY DocsGrow, Zenon DEF Grows
<1>2. QED
  BY <1>1, TypeCorrect, PTL DEF Spec, RoomNeverRegresses

-----------------------------------------------------------------------------
(* The reference definitions choose the latest event of a set.  IsLatest   *)
(* and IsPointer say the same of a value without a choice, so that one     *)
(* merge can be followed (AddExact).  DocFrom says where the values of a   *)
(* room document come from.                                                *)
(*                                                                         *)
(* Awaits says that a flight still owes a subscription its write, or will  *)
(* be nak'd; SubsInFlight that every held event is awaited or seen, which  *)
(* is what the acknowledgement of the flight needs.                        *)

(* x is the latest time of the events S, or 0 when there is none. *)
IsLatest(x, S) == /\ x \in Nat /\ \A e \in S : e.at <= x
                  /\ x = 0 \/ \E e \in S : x = e.at

(* (at, id) is the newest row of the events S, or (0, 0). *)
IsPointer(at, id, S) ==
  \/ S = {} /\ at = 0 /\ id = 0
  \/ \E e \in S : at = e.at /\ id = e.id /\ \A f \in S : ~NewerRow(f.at, f.id, at, id)

ExactUpdate(u, S) == /\ IsPointer(u.at, u.id, S)
                     /\ IsLatest(u.allAt, AllMsgs(S))
                     /\ IsPointer(u.userAt, u.userId, UserMsgs(S))
ExactBatch(b) == /\ \A r \in Rooms : ExactUpdate(b.rooms[r], Created(b.held, r))
                 /\ \A k \in Subs : /\ IsLatest(b.lastSeen[k], SentBy(b.held, k))
                                    /\ IsLatest(b.mentions[k], Mentioning(b.held, k))
Exact == /\ \A r \in Replicas : ExactBatch(pending[r])
         /\ \A w \in Writers : ExactBatch(flight[w].batch)

(* Where document d of room r comes from, when the events P of the room were
   published. *)
DocFrom(r, d, P) ==
  /\ \/ d.lastMsgAt = InitRoomDoc(r).lastMsgAt /\ d.lastMsgId = 0
     \/ \E e \in P : d.lastMsgAt = e.at /\ d.lastMsgId = e.id
  /\ d.lastUserMsgAt \in {0, CreatedAt[r]} \/ \E e \in UserMsgs(P) : d.lastUserMsgAt = e.at
  /\ d.lastMentionAllAt = 0 \/ \E e \in AllMsgs(P) : d.lastMentionAllAt = e.at
  /\ UserMsgs(P) = {} =>
       IF r \in LegacyRooms
       THEN d.lastUserMsgAt = 0 /\ (CreatedAt[r] = 0 \/ d.lastMsgAt > 0)
       ELSE d.lastUserMsgAt = CreatedAt[r] \/ (d.lastMsgAt = 0 /\ d.lastUserMsgAt = 0)
DocsFrom == \A r \in Rooms : DocFrom(r, roomDoc[r], Created(published, r))

(* What one step may do to the flight of writer x. *)
AnsweredStep(x, m, E) ==
  /\ Writing(x) /\ m \in flight[x].todo /\ E \in SUBSET {"permanent", "transient"}
  /\ flight'[x] = Answered(flight[x], {m}, E)
  /\ "transient" \in E \/ Poison(m) \/ ApplyModel(m, flight[x].batch)
TimeoutStep(x) == /\ Writing(x)
                  /\ flight'[x] = Answered(flight[x], flight[x].todo, {"transient"})
FlightStep(x) ==
  \/ flight'[x] = flight[x] \/ flight'[x] = Idle
  \/ \E r \in Replicas : flight'[x] = BeginWrite(pending[r])
  \/ \E m \in flight[x].todo : \E E \in SUBSET {"permanent", "transient"} : AnsweredStep(x, m, E)
  \/ TimeoutStep(x) \/ EndStage(x)

(* The models a flight still has to write are models of its stage. *)
StageToDo == \A w \in Writers : flight[w].todo \subseteq Models(flight[w].stage, flight[w].batch)

-----------------------------------------------------------------------------
(* A latest time is the one LatestAt chooses. *)
LEMMA LatestIs ==
  ASSUME NEW S, \A e \in S : e.at \in Nat, NEW x, IsLatest(x, S)
  PROVE  x = LatestAt(S)
<1> DEFINE T == {e.at : e \in S} \cup {0}
<1>1. x \in T /\ \A y \in T : y \in Nat /\ x >= y
  BY DEF IsLatest
<1>2. LatestAt(S) = CHOOSE y \in T : \A z \in T : y >= z
  BY DEF LatestAt, Max
<1> HIDE DEF T
<1>3. LatestAt(S) \in T /\ \A z \in T : LatestAt(S) >= z
  BY <1>1, <1>2
<1>4. LatestAt(S) >= x /\ x >= LatestAt(S) /\ LatestAt(S) \in Nat /\ x \in Nat
  BY <1>1, <1>3
<1>5. QED
  BY <1>4

(* An event no other event of S is newer than is the one Newest chooses. *)
LEMMA NewestIs ==
  ASSUME NEW S \in SUBSET Events, NEW e \in S, \A f \in S : ~NewerRow(f.at, f.id, e.at, e.id)
  PROVE  Newest(S) = e
<1> DEFINE n == Newest(S)
<1>1. n \in S /\ \A f \in S : ~NewerRow(f.at, f.id, n.at, n.id)
  BY Zenon DEF Newest
<1> HIDE DEF n
<1>2. n \in EventType /\ e \in EventType /\ (n.id = e.id => n = e)
  BY <1>1, EventsAssumption
<1>3. ~NewerRow(e.at, e.id, n.at, n.id) /\ ~NewerRow(n.at, n.id, e.at, e.id)
  BY <1>1
<1>4. n.id = e.id
  BY <1>2, <1>3 DEF NewerRow, EventType
<1>5. QED
  BY <1>2, <1>4, SMTT(60) DEF n

(* A pointer is the row of the newest event, at the latest time. *)
LEMMA PointerIs ==
  ASSUME NEW S \in SUBSET Events, NEW at, NEW id, IsPointer(at, id, S)
  PROVE  /\ at = LatestAt(S)
         /\ id = IF S = {} THEN 0 ELSE Newest(S).id
<1>1. \A e \in S : e.at \in Nat /\ e.id \in Nat
  BY EventsAssumption DEF EventType
<1>2. CASE S = {}
  <2>1. IsLatest(0, S) /\ at = 0 /\ id = 0
    BY <1>2 DEF IsPointer, IsLatest
  <2>2. QED
    BY <1>1, <1>2, <2>1, LatestIs
<1>3. CASE S # {}
  <2>1. PICK e \in S : at = e.at /\ id = e.id /\ \A f \in S : ~NewerRow(f.at, f.id, at, id)
    BY <1>3 DEF IsPointer
  <2>2. Newest(S) = e
    BY <2>1, NewestIs
  <2>3. IsLatest(at, S)
    BY <1>1, <2>1 DEF IsLatest, NewerRow
  <2>4. QED
    BY <1>1, <1>3, <2>1, <2>2, <2>3, LatestIs
<1>4. QED
  BY <1>2, <1>3

(* An exact batch is the reference batch of its held events. *)
LEMMA ExactIsReference ==
  ASSUME NEW b \in BatchType, ExactBatch(b)
  PROVE  /\ \A r \in Rooms :
              LET C == Created(b.held, r)  U == UserMsgs(C) IN
              b.rooms[r] = [id |-> IF C = {} THEN 0 ELSE Newest(C).id, at |-> LatestAt(C),
                            allAt |-> LatestAt(AllMsgs(C)), userAt |-> LatestAt(U),
                            userId |-> IF U = {} THEN 0 ELSE Newest(U).id]
         /\ \A k \in Subs : /\ b.lastSeen[k] = LatestAt(SentBy(b.held, k))
                            /\ b.mentions[k] = LatestAt(Mentioning(b.held, k))
<1>1. b.held \subseteq Events /\ \A e \in Events : e.at \in Nat
  BY EventsAssumption DEF BatchType, EventType
<1>2. ASSUME NEW r \in Rooms
      PROVE  LET C == Created(b.held, r)  U == UserMsgs(C) IN
             b.rooms[r] = [id |-> IF C = {} THEN 0 ELSE Newest(C).id, at |-> LatestAt(C),
                           allAt |-> LatestAt(AllMsgs(C)), userAt |-> LatestAt(U),
                           userId |-> IF U = {} THEN 0 ELSE Newest(U).id]
  <2> DEFINE C == Created(b.held, r)
             U == UserMsgs(C)
             A == AllMsgs(C)
             u == b.rooms[r]
  <2>1. C \subseteq Events /\ U \subseteq Events /\ A \subseteq Events
    BY <1>1, Zenon DEF Created, UserMsgs, AllMsgs
  <2>2. IsPointer(u.at, u.id, C) /\ IsLatest(u.allAt, A) /\ IsPointer(u.userAt, u.userId, U)
    BY Zenon DEF ExactBatch, ExactUpdate
  <2>3. u \in UpdateType
    BY DEF BatchType, UpdateType
  <2> HIDE DEF C, U, A, u
  <2>4. u.at = LatestAt(C) /\ u.id = IF C = {} THEN 0 ELSE Newest(C).id
    BY <2>1, <2>2, PointerIs, Zenon
  <2>5. u.userAt = LatestAt(U) /\ u.userId = IF U = {} THEN 0 ELSE Newest(U).id
    BY <2>1, <2>2, PointerIs, Zenon
  <2>6. u.allAt = LatestAt(A)
    BY <1>1, <2>1, <2>2, LatestIs, Zenon
  <2>7. u = [id |-> u.id, at |-> u.at, allAt |-> u.allAt, userAt |-> u.userAt, userId |-> u.userId]
    BY <2>3, Zenon DEF UpdateType
  <2>8. u = [id |-> IF C = {} THEN 0 ELSE Newest(C).id, at |-> LatestAt(C),
             allAt |-> LatestAt(A), userAt |-> LatestAt(U),
             userId |-> IF U = {} THEN 0 ELSE Newest(U).id]
    BY <2>4, <2>5, <2>6, <2>7, Zenon
  <2>9. QED
    BY <2>8, Zenon DEF C, U, A, u
<1>3. ASSUME NEW k \in Subs
      PROVE  /\ b.lastSeen[k] = LatestAt(SentBy(b.held, k))
             /\ b.mentions[k] = LatestAt(Mentioning(b.held, k))
  <2>1. /\ \A e \in SentBy(b.held, k) : e.at \in Nat
        /\ \A e \in Mentioning(b.held, k) : e.at \in Nat
    BY <1>1 DEF SentBy, Created, Mentioning
  <2>2. QED
    BY <2>1, LatestIs, Zenon DEF ExactBatch
<1>4. QED
  BY <1>2, <1>3, Zenon

-----------------------------------------------------------------------------
(* Merging one event keeps a latest time latest. *)
LEMMA LatestAdd ==
  ASSUME NEW S, NEW x, NEW e, e.at \in Nat, IsLatest(x, S), \A f \in S : f.at \in Nat
  PROVE  IsLatest(Later(e.at, x), S \cup {e})
  BY DEF IsLatest, Later

(* Merging one created event keeps a pointer the newest row. *)
LEMMA PointerAdd ==
  ASSUME NEW S \in SUBSET EventType, NEW e \in EventType, e.at > 0, NEW at, NEW id, IsPointer(at, id, S)
  PROVE  LET n == NewerRow(e.at, e.id, at, id) IN
         IsPointer(IF n THEN e.at ELSE at, IF n THEN e.id ELSE id, S \cup {e})
<1>1. \A f \in S \cup {e} : f.at \in Nat /\ f.id \in Nat
  BY DEF EventType
<1>2. CASE S = {}
  <2>1. NewerRow(e.at, e.id, at, id)
    BY <1>1, <1>2 DEF IsPointer, NewerRow
  <2>2. ~NewerRow(e.at, e.id, e.at, e.id)
    BY <1>1 DEF NewerRow
  <2>3. QED
    BY <1>2, <2>1, <2>2, Zenon DEF IsPointer
<1>3. CASE S # {}
  <2>1. PICK g \in S : at = g.at /\ id = g.id /\ \A f \in S : ~NewerRow(f.at, f.id, at, id)
    BY <1>3 DEF IsPointer
  <2>2. at \in Nat /\ id \in Nat
    BY <1>1, <2>1
  <2>3. CASE NewerRow(e.at, e.id, at, id)
    <3>1. \A f \in S \cup {e} : ~NewerRow(f.at, f.id, e.at, e.id)
      BY <1>1, <2>1, <2>2, <2>3 DEF NewerRow
    <3>2. QED
      BY <2>3, <3>1, Zenon DEF IsPointer
  <2>4. CASE ~NewerRow(e.at, e.id, at, id)
    BY <2>1, <2>4, Zenon DEF IsPointer
  <2>5. QED
    BY <2>3, <2>4, Zenon
<1>4. QED
  BY <1>2, <1>3, Zenon

(* The rooms half of batch.add keeps an update exact. *)
LEMMA MergeExact ==
  ASSUME NEW S \in SUBSET EventType, NEW e \in EventType, e.event = "created", ~e.hidden, e.at > 0,
         NEW u \in UpdateType, ExactUpdate(u, S)
  PROVE  ExactUpdate(mergeRoom(u, deriveIntents(e)), S \cup {e})
<1> DEFINE in == deriveIntents(e)
           v == mergeRoom(u, in)
           n == NewerRow(e.at, e.id, u.at, u.id)
           nu == ~e.system /\ NewerRow(e.at, e.id, u.userAt, u.userId)
<1>1. /\ in.id = e.id /\ in.at = e.at /\ in.system = e.system
      /\ in.allAt = IF e.all THEN e.at ELSE 0
  BY DEF deriveIntents
<1> HIDE DEF in
<1>2. v = [id |-> IF n THEN e.id ELSE u.id, at |-> IF n THEN e.at ELSE u.at,
           allAt |-> Later(IF e.all THEN e.at ELSE 0, u.allAt),
           userAt |-> IF nu THEN e.at ELSE u.userAt, userId |-> IF nu THEN e.id ELSE u.userId]
  BY <1>1, Zenon DEF mergeRoom
<1>3. e.at \in Nat /\ u.allAt \in Nat /\ \A f \in S : f.at \in Nat
  BY DEF EventType, UpdateType
<1> HIDE DEF v
<1>4. IsPointer(v.at, v.id, S \cup {e})
  <2>1. IsPointer(IF n THEN e.at ELSE u.at, IF n THEN e.id ELSE u.id, S \cup {e})
    BY PointerAdd, Zenon DEF ExactUpdate
  <2>2. QED
    BY <1>2, <2>1, Zenon
<1>5. IsLatest(v.allAt, AllMsgs(S \cup {e}))
  <2>1. IsLatest(u.allAt, AllMsgs(S)) /\ \A f \in AllMsgs(S) : f.at \in Nat
    BY <1>3, Zenon DEF ExactUpdate, AllMsgs
  <2>2. CASE e.all
    <3>1. AllMsgs(S \cup {e}) = AllMsgs(S) \cup {e} /\ v.allAt = Later(e.at, u.allAt)
      BY <1>2, <2>2, Zenon DEF AllMsgs
    <3>2. IsLatest(Later(e.at, u.allAt), AllMsgs(S) \cup {e})
      BY <1>3, <2>1, LatestAdd, Zenon
    <3>3. QED
      BY <3>1, <3>2
  <2>3. CASE ~e.all
    <3>1. AllMsgs(S \cup {e}) = AllMsgs(S) /\ v.allAt = u.allAt
      BY <1>2, <1>3, <2>3 DEF AllMsgs, Later
    <3>2. QED
      BY <2>1, <3>1, ZenonT(60)
  <2>4. QED
    BY <2>2, <2>3
<1>6. IsPointer(v.userAt, v.userId, UserMsgs(S \cup {e}))
  <2>1. IsPointer(u.userAt, u.userId, UserMsgs(S)) /\ UserMsgs(S) \subseteq EventType
    BY Zenon DEF ExactUpdate, UserMsgs
  <2>2. CASE ~e.system
    <3>1. UserMsgs(S \cup {e}) = UserMsgs(S) \cup {e}
      BY <2>2 DEF UserMsgs
    <3> DEFINE m == NewerRow(e.at, e.id, u.userAt, u.userId)
    <3>2. IsPointer(IF m THEN e.at ELSE u.userAt, IF m THEN e.id ELSE u.userId, UserMsgs(S) \cup {e})
      BY <2>1, PointerAdd, ZenonT(60)
    <3>3. v.userAt = (IF m THEN e.at ELSE u.userAt) /\ v.userId = (IF m THEN e.id ELSE u.userId)
      BY <1>2, <2>2, Zenon
    <3>4. QED
      BY <3>1, <3>2, <3>3, Zenon
  <2>3. CASE e.system
    <3>1. UserMsgs(S \cup {e}) = UserMsgs(S) /\ v.userAt = u.userAt /\ v.userId = u.userId
      BY <1>2, <2>3, Zenon DEF UserMsgs
    <3>2. QED
      BY <2>1, <3>1, Zenon
  <2>4. QED
    BY <2>2, <2>3
<1>7. QED
  BY <1>4, <1>5, <1>6, Zenon DEF ExactUpdate, v, in

(* The coalescer is exact: whatever the order and the duplicates, the batch is
   what its held events determine. *)
LEMMA AddExact ==
  ASSUME NEW b \in BatchType, NEW e \in Events, ExactBatch(b)
  PROVE  ExactBatch(add(b, e))
<1>1. e \in EventType /\ (e.event = "created" => e.at > 0) /\ b.held \subseteq EventType
  BY EventsAssumption DEF BatchType
<1>2. add(b, e).held = b.held \cup {e}
  BY Zenon DEF add
<1>3. ASSUME NEW r \in Rooms PROVE ExactUpdate(add(b, e).rooms[r], Created(add(b, e).held, r))
  <2>1. ExactUpdate(b.rooms[r], Created(b.held, r))
    BY Zenon DEF ExactBatch
  <2>2. CASE ~(e.event = "created" /\ ~e.hidden /\ e.room = r)
    <3>1. deriveIntents(e).id = 0 \/ (deriveIntents(e).room = e.room /\ e.room # r)
      BY <2>2 DEF deriveIntents, NoIntents
    <3>2. add(b, e).rooms[r] = b.rooms[r]
      BY <3>1, Zenon DEF add, BatchType
    <3>3. Created(b.held \cup {e}, r) = Created(b.held, r)
      BY <2>2 DEF Created
    <3>4. QED
      BY <1>2, <2>1, <3>2, <3>3, Zenon
  <2>3. CASE e.event = "created" /\ ~e.hidden /\ e.room = r
    <3>1. Created(b.held \cup {e}, r) = Created(b.held, r) \cup {e}
      BY <2>3 DEF Created
    <3>2. deriveIntents(e).id = e.id /\ e.id # 0 /\ deriveIntents(e).room = r
      BY <1>1, <2>3 DEF deriveIntents, EventType
    <3>3. add(b, e).rooms[r] = mergeRoom(b.rooms[r], deriveIntents(e))
      BY <3>2, Zenon DEF add, BatchType
    <3>4. b.rooms[r] \in UpdateType /\ Created(b.held, r) \subseteq EventType
      BY <1>1 DEF BatchType, UpdateType, Created
    <3>5. ExactUpdate(mergeRoom(b.rooms[r], deriveIntents(e)), Created(b.held, r) \cup {e})
      BY <1>1, <2>1, <2>3, <3>4, MergeExact, Zenon
    <3>6. QED
      BY <1>2, <3>1, <3>3, <3>5, Zenon
  <2>4. QED
    BY <2>2, <2>3, Zenon
<1>4. ASSUME NEW k \in Subs
      PROVE  /\ IsLatest(add(b, e).lastSeen[k], SentBy(add(b, e).held, k))
             /\ IsLatest(add(b, e).mentions[k], Mentioning(add(b, e).held, k))
  <2> DEFINE in == deriveIntents(e)
  <2>1. /\ IsLatest(b.lastSeen[k], SentBy(b.held, k))
        /\ IsLatest(b.mentions[k], Mentioning(b.held, k))
    BY Zenon DEF ExactBatch
  <2>2. /\ e.at \in Nat /\ b.lastSeen[k] \in Nat /\ b.mentions[k] \in Nat
        /\ \A f \in SentBy(b.held, k) : f.at \in Nat
        /\ \A f \in Mentioning(b.held, k) : f.at \in Nat
    BY <1>1, Zenon DEF EventType, BatchType, SentBy, Created, Mentioning
  <2>3. /\ add(b, e).lastSeen[k] = IF k[1] = in.room /\ k[2] \in in.senders
                                   THEN Later(in.at, b.lastSeen[k]) ELSE b.lastSeen[k]
        /\ add(b, e).mentions[k] = IF k[1] = in.room /\ k[2] \in in.mentions
                                   THEN Later(in.mentionAt, b.mentions[k]) ELSE b.mentions[k]
    BY Zenon DEF add
  <2>4. IsLatest(add(b, e).lastSeen[k], SentBy(add(b, e).held, k))
    <3>1. CASE e.event = "created" /\ ~e.hidden
      <4>1. in.room = e.room /\ in.senders = {e.account} /\ in.at = e.at
        BY <3>1 DEF deriveIntents
      <4>2. CASE k[1] = e.room /\ k[2] = e.account
        <5>1. SentBy(b.held \cup {e}, k) = SentBy(b.held, k) \cup {e}
          BY <3>1, <4>2, Zenon DEF SentBy, Created
        <5>2. IsLatest(Later(e.at, b.lastSeen[k]), SentBy(b.held, k) \cup {e})
          BY <2>1, <2>2, LatestAdd, Zenon
        <5>3. add(b, e).lastSeen[k] = Later(e.at, b.lastSeen[k])
          BY <2>3, <4>1, <4>2, Zenon
        <5>4. QED
          BY <1>2, <5>1, <5>2, <5>3, Zenon
      <4>3. CASE ~(k[1] = e.room /\ k[2] = e.account)
        <5>1. SentBy(b.held \cup {e}, k) = SentBy(b.held, k)
          BY <4>3 DEF SentBy, Created
        <5>2. QED
          BY <1>2, <2>1, <2>3, <4>1, <4>3, <5>1, ZenonT(60)
      <4>4. QED
        BY <4>2, <4>3, Zenon
    <3>2. CASE ~(e.event = "created" /\ ~e.hidden)
      <4>1. in.senders = {}
        BY <3>2 DEF deriveIntents, NoIntents
      <4>2. SentBy(b.held \cup {e}, k) = SentBy(b.held, k)
        BY <3>2, Zenon DEF SentBy, Created
      <4>3. QED
        BY <1>2, <2>1, <2>3, <4>1, <4>2, Zenon
    <3>3. QED
      BY <3>1, <3>2, Zenon
  <2>5. IsLatest(add(b, e).mentions[k], Mentioning(add(b, e).held, k))
    <3> DEFINE on == e.event \in {"created", "updated"} /\ ~e.hidden /\ e.at > 0
    <3>1. CASE on
      <4>1. in.room = e.room /\ in.mentions = e.mentions /\ in.mentionAt = e.at
        BY <3>1 DEF deriveIntents, NoIntents
      <4>2. CASE k[1] = e.room /\ k[2] \in e.mentions
        <5>1. Mentioning(b.held \cup {e}, k) = Mentioning(b.held, k) \cup {e}
          BY <3>1, <4>2, Zenon DEF Mentioning
        <5>2. IsLatest(Later(e.at, b.mentions[k]), Mentioning(b.held, k) \cup {e})
          BY <2>1, <2>2, LatestAdd, Zenon
        <5>3. add(b, e).mentions[k] = Later(e.at, b.mentions[k])
          BY <2>3, <4>1, <4>2, Zenon
        <5>4. QED
          BY <1>2, <5>1, <5>2, <5>3, ZenonT(60)
      <4>3. CASE ~(k[1] = e.room /\ k[2] \in e.mentions)
        <5>1. Mentioning(b.held \cup {e}, k) = Mentioning(b.held, k)
          BY <4>3, Zenon DEF Mentioning
        <5>2. QED
          BY <1>2, <2>1, <2>3, <4>1, <4>3, <5>1, ZenonT(60)
      <4>4. QED
        BY <4>2, <4>3, Zenon
    <3>2. CASE ~on
      <4>1. in.mentions = {}
        BY <1>1, <2>2, <3>2 DEF deriveIntents, NoIntents
      <4>2. Mentioning(b.held \cup {e}, k) = Mentioning(b.held, k)
        BY <3>2, Zenon DEF Mentioning
      <4>3. QED
        BY <1>2, <2>1, <2>3, <4>1, <4>2, ZenonT(60)
    <3>3. QED
      BY <3>1, <3>2, Zenon
  <2>6. QED
    BY <2>4, <2>5, Zenon
<1>5. QED
  BY <1>3, <1>4, Zenon DEF ExactBatch

(* An empty batch is exact. *)
LEMMA NewExact == ExactBatch(newBatch)
  BY ZenonT(60) DEF ExactBatch, newBatch, NoUpdate, ExactUpdate, IsPointer, IsLatest, Created, SentBy, Mentioning,
     AllMsgs, UserMsgs

-----------------------------------------------------------------------------
(* Every step does one of these things to a flight. *)
LEMMA FlightCases ==
  ASSUME TypeOK, [Next]_vars, NEW x \in Writers
  PROVE  FlightStep(x)
<1> USE DEF worker
<1>1. flight \in [Writers -> FlightType]
  BY Zenon DEF TypeOK, FlightType
<1>2. CASE UNCHANGED flight
  BY <1>2, Zenon DEF FlightStep
<1>3. ASSUME NEW w \in Writers, WriteModel(w) PROVE FlightStep(x)
  <2>1. CASE x # w
    BY <1>1, <1>3, <2>1, Zenon DEF WriteModel, FlightStep
  <2>2. CASE x = w
    <3>1. PICK m \in flight[w].todo :
            /\ flight'[w] = Answered(flight[w], {m}, IF Poison(m) THEN {"permanent"} ELSE {})
            /\ Poison(m) \/ ApplyModel(m, flight[w].batch)
      BY <1>1, <1>3, Zenon DEF WriteModel
    <3>2. Writing(w)
      BY <1>3, Zenon DEF WriteModel
    <3>3. AnsweredStep(w, m, {"permanent"}) \/ AnsweredStep(w, m, {})
      BY <3>1, <3>2, Zenon DEF AnsweredStep
    <3>4. QED
      BY <2>2, <3>3, Zenon DEF FlightStep
  <2>3. QED
    BY <2>1, <2>2
<1>4. ASSUME NEW w \in Writers, WriteFails(w) PROVE FlightStep(x)
  <2>1. CASE x # w
    BY <1>1, <1>4, <2>1, Zenon DEF WriteFails, FlightStep
  <2>2. CASE x = w
    <3>1. PICK m \in flight[w].todo : AnsweredStep(w, m, {"transient"})
      BY <1>1, <1>4, Zenon DEF WriteFails, AnsweredStep
    <3>2. QED
      BY <2>2, <3>1, Zenon DEF FlightStep
  <2>3. QED
    BY <2>1, <2>2
<1>5. ASSUME NEW w \in Writers, StageTimeout(w) PROVE FlightStep(x)
  BY <1>1, <1>5, Zenon DEF StageTimeout, FlightStep, TimeoutStep
<1>6. ASSUME NEW w \in Writers, EndStage(w) PROVE FlightStep(x)
  <2>1. CASE x # w
    BY <1>1, <1>6, <2>1, Zenon DEF EndStage, FlightStep
  <2>2. QED
    BY <1>6, <2>1, Zenon DEF FlightStep
<1>7. ASSUME NEW w \in Writers, settle(w) PROVE FlightStep(x)
  BY <1>1, <1>7, Zenon DEF settle, FlightStep
<1>8. ASSUME NEW r \in Replicas, Crash(r) PROVE FlightStep(x)
  BY <1>1, <1>8, Zenon DEF Crash, FlightStep
<1>9. ASSUME NEW r \in Replicas, Flush(r) \/ flushNow(r) \/ FinalFlush(r) PROVE FlightStep(x)
  <2>1. \E w \in Writers : SwapOut(r, w)
    <3>1. <<r, "ticker">> \in Writers /\ <<r, "loop">> \in Writers
      BY DEF Writers
    <3>2. QED
      BY <1>9, <3>1, Zenon DEF Flush, flushNow, FinalFlush
  <2>2. QED
    BY <1>1, <2>1, Zenon DEF SwapOut, FlightStep
<1>10. QED
  BY <1>2, <1>3, <1>4, <1>5, <1>6, <1>7, <1>8, <1>9, Zenon
     DEF Next, WriterStep, vars, Tick, Publish, Consume, BeginShutdown, flushCancel, Exit, Restart,
         StartRead, UpdateSubscriptionRead, Quiescent

(* What a step may do to a pending batch: keep it, merge an event, empty it. *)
LEMMA PendingCases ==
  ASSUME TypeOK, [Next]_vars, NEW r \in Replicas
  PROVE  \/ pending'[r] = pending[r] \/ pending'[r] = newBatch
         \/ \E e \in Events : pending'[r] = add(pending[r], e)
<1> USE DEF worker
<1>1. pending \in [Replicas -> BatchType]
  BY DEF TypeOK
<1>2. CASE UNCHANGED pending
  BY <1>2, SMTT(20)
<1>3. ASSUME NEW q \in Replicas, NEW e \in Events, Consume(q, e)
      PROVE  pending'[r] = pending[r] \/ pending'[r] = add(pending[r], e)
  BY <1>1, <1>3, Zenon DEF Consume
<1>4. ASSUME NEW q \in Replicas, Crash(q) PROVE pending'[r] = pending[r] \/ pending'[r] = newBatch
  BY <1>1, <1>4, Zenon DEF Crash
<1>5. ASSUME NEW q \in Replicas, Flush(q) \/ flushNow(q) \/ FinalFlush(q)
      PROVE  pending'[r] = pending[r] \/ pending'[r] = newBatch
  BY <1>1, <1>5, Zenon DEF Flush, flushNow, FinalFlush, SwapOut
<1>6. QED
  BY <1>2, <1>3, <1>4, <1>5, ZenonT(60)
     DEF Next, WriterStep, vars, Tick, Publish, BeginShutdown, flushCancel, Exit, Restart,
         WriteModel, WriteFails, StageTimeout, EndStage, settle,
         StartRead, UpdateSubscriptionRead, Quiescent

(* The shape of a flight whose models are answered. *)
LEMMA AnsweredShape ==
  ASSUME NEW f \in FlightType, NEW M, NEW E
  PROVE  /\ Answered(f, M, E).stage = f.stage /\ Answered(f, M, E).batch = f.batch
         /\ Answered(f, M, E).outcome = f.outcome
         /\ Answered(f, M, E).todo = f.todo \ M /\ Answered(f, M, E).errs = f.errs \cup E
  BY DEF Answered, FlightType

(* The shape of a flight whose stage ends. *)
LEMMA EndStageShape ==
  ASSUME TypeOK, NEW x \in Writers, EndStage(x)
  PROVE  LET f == flight[x]  g == flight'[x]  class == classifyFlushErr(f.errs) IN
         /\ f.stage \in Stages /\ f.todo = {} /\ g.stage = stageAfter(class, f.stage)
         /\ g.batch = f.batch /\ g.todo = Models(g.stage, f.batch) /\ g.errs = {}
         /\ g.outcome = IF class = "ok" THEN f.outcome ELSE class
<1>1. flight \in [Writers -> FlightType] /\ flight[x] \in FlightType
  BY Zenon DEF TypeOK, FlightType
<1>2. QED
  BY <1>1, Zenon DEF EndStage, Writing

(* One step keeps every batch exact and every flight within its stage. *)
LEMMA ExactStep ==
  ASSUME TypeOK, Exact, StageToDo, [Next]_vars
  PROVE  Exact' /\ StageToDo'
<1>1. ASSUME NEW r \in Replicas PROVE ExactBatch(pending'[r])
  <2>1. pending[r] \in BatchType /\ ExactBatch(pending[r])
    BY SMTT(20) DEF TypeOK, Exact
  <2>2. QED
    BY <2>1, PendingCases, AddExact, NewExact, Zenon
<1>2. ASSUME NEW x \in Writers
      PROVE  /\ ExactBatch(flight'[x].batch)
             /\ flight'[x].todo \subseteq Models(flight'[x].stage, flight'[x].batch)
  <2>9. flight[x] \in FlightType
    BY Zenon DEF TypeOK, FlightType
  <2>1. /\ ExactBatch(flight[x].batch) /\ \A r \in Replicas : ExactBatch(pending[r])
        /\ flight[x].todo \subseteq Models(flight[x].stage, flight[x].batch)
    BY Zenon DEF Exact, StageToDo
  <2>2. CASE flight'[x] = flight[x]
    BY <2>1, <2>2, Zenon
  <2>3. CASE flight'[x] = Idle
    <3>1. Idle.batch = newBatch /\ Idle.todo = {}
      BY Zenon DEF Idle
    <3>2. QED
      BY <2>3, <3>1, NewExact
  <2>4. ASSUME NEW r \in Replicas, flight'[x] = BeginWrite(pending[r])
        PROVE  /\ ExactBatch(flight'[x].batch)
               /\ flight'[x].todo \subseteq Models(flight'[x].stage, flight'[x].batch)
    <3>1. flight'[x].batch = pending[r] /\ flight'[x].todo = Models("rooms", pending[r])
          /\ flight'[x].stage = "rooms"
      BY <2>4 DEF BeginWrite
    <3>2. QED
      BY <2>1, <3>1, Zenon
  <2>5. ASSUME NEW M \in SUBSET flight[x].todo, NEW E \in SUBSET {"permanent", "transient"},
               flight'[x] = Answered(flight[x], M, E)
        PROVE  /\ ExactBatch(flight'[x].batch)
               /\ flight'[x].todo \subseteq Models(flight'[x].stage, flight'[x].batch)
    <3>1. /\ flight'[x].batch = flight[x].batch /\ flight'[x].stage = flight[x].stage
          /\ flight'[x].todo = flight[x].todo \ M
      BY <2>9, <2>5, AnsweredShape
    <3>2. QED
      BY <2>1, <3>1, ZenonT(60)
  <2>6. CASE EndStage(x)
    <3>1. /\ flight'[x].batch = flight[x].batch
          /\ flight'[x].todo = Models(flight'[x].stage, flight[x].batch)
      BY <2>6, EndStageShape, Zenon
    <3>2. QED
      BY <2>1, <3>1, Zenon
  <2>7. FlightStep(x)
    BY FlightCases
  <2>8. QED
    BY <2>2, <2>3, <2>4, <2>5, <2>6, <2>7, ZenonT(60) DEF FlightStep, AnsweredStep, TimeoutStep
<1>3. QED
  BY <1>1, <1>2, Zenon DEF Exact, StageToDo

-----------------------------------------------------------------------------
(* Where a document comes from stays true as more events are published. *)
LEMMA FromGrows ==
  ASSUME NEW r, NEW d, NEW P, NEW Q, P \subseteq Q, DocFrom(r, d, P)
  PROVE  DocFrom(r, d, Q)
<1>1. UserMsgs(P) \subseteq UserMsgs(Q) /\ AllMsgs(P) \subseteq AllMsgs(Q)
  BY DEF UserMsgs, AllMsgs
<1>2. QED
  BY <1>1, Zenon DEF DocFrom

(* A room write of an exact update keeps the document one that comes from
   published events: the pointer moves to an event, the two positions to a
   user and an @all message, and a room without a user message stays frozen. *)
LEMMA RoomWriteFrom ==
  ASSUME NEW r \in Rooms, NEW kind \in {"pointer", "max"}, NEW b \in BatchType,
         roomDoc \in [Rooms -> RoomDocType], ExactUpdate(b.rooms[r], Created(b.held, r)),
         NEW P, Created(b.held, r) \subseteq P, DocFrom(r, roomDoc[r], P)
  PROVE  DocFrom(r, roomWrite(<<kind, r>>, b), P)
<1> DEFINE c == roomDoc[r]
           u == b.rooms[r]
           S == Created(b.held, r)
           d == roomWrite(<<kind, r>>, b)
<1>1. c \in RoomDocType /\ u \in UpdateType /\ CreatedAt[r] \in Nat
  BY RoomsAssumption, Zenon DEF BatchType, UpdateType
<1>2. d = IF kind = "max" THEN roomMaxUpdate(c, u)
          ELSE IF roomLastMsgFilter(c, u) THEN roomPointerUpdate(r, c, u) ELSE c
  BY Zenon DEF roomWrite
<1>3. DocFrom(r, c, P) /\ S \subseteq P /\ ExactUpdate(u, S)
  BY Zenon
<1> SUFFICES DocFrom(r, d, P)
  BY Zenon
<1> HIDE DEF c, u, S, d
<1>4. UserMsgs(S) \subseteq UserMsgs(P) /\ AllMsgs(S) \subseteq AllMsgs(P)
  BY <1>3, Zenon DEF UserMsgs, AllMsgs
<1>5. /\ u.userAt = 0 \/ \E e \in UserMsgs(P) : u.userAt = e.at
      /\ u.allAt = 0 \/ \E e \in AllMsgs(P) : u.allAt = e.at
      /\ UserMsgs(P) = {} => u.userAt = 0
  BY <1>3, <1>4, Zenon DEF ExactUpdate, IsPointer, IsLatest
<1>6. CASE kind = "max"
  <2>1. /\ d.lastMsgAt = c.lastMsgAt /\ d.lastMsgId = c.lastMsgId
        /\ d.lastUserMsgAt = Later(u.userAt, c.lastUserMsgAt)
        /\ d.lastMentionAllAt = Later(u.allAt, c.lastMentionAllAt)
    BY <1>1, <1>2, <1>6 DEF roomMaxUpdate, RoomDocType
  <2>2. /\ d.lastUserMsgAt = u.userAt \/ d.lastUserMsgAt = c.lastUserMsgAt
        /\ d.lastMentionAllAt = u.allAt \/ d.lastMentionAllAt = c.lastMentionAllAt
        /\ u.userAt = 0 => d.lastUserMsgAt = c.lastUserMsgAt
    <3>1. u.userAt \in Nat /\ c.lastUserMsgAt \in Nat
      BY <1>1, Zenon DEF RoomDocType, UpdateType
    <3>2. \A s, t \in Nat : (Later(s, t) = s \/ Later(s, t) = t) /\ (s = 0 => Later(s, t) = t)
      BY DEF Later
    <3>3. \A s, t : Later(s, t) = s \/ Later(s, t) = t
      BY Zenon DEF Later
    <3>4. QED
      BY <2>1, <3>1, <3>2, <3>3, Zenon
  <2>3. QED
    BY <1>3, <1>5, <2>1, <2>2, ZenonT(60) DEF DocFrom
<1>7. CASE kind = "pointer" /\ roomLastMsgFilter(c, u)
  <2> DEFINE x == IF u.userAt > 0 THEN c.lastUserMsgAt ELSE frozenUserAt(r, c)
  <2>1. d = [c EXCEPT !.lastMsgAt = u.at, !.lastMsgId = u.id, !.lastUserMsgAt = x]
    BY <1>2, <1>7 DEF roomPointerUpdate
  <2>2. x \in {0, CreatedAt[r], c.lastUserMsgAt} /\ (u.userAt = 0 => x = frozenUserAt(r, c))
    BY <1>1 DEF frozenUserAt, RoomDocType, UpdateType
  <2> HIDE DEF x
  <2>3. /\ d.lastMsgAt = u.at /\ d.lastMsgId = u.id /\ d.lastUserMsgAt = x
        /\ d.lastMentionAllAt = c.lastMentionAllAt
    BY <1>1, <2>1 DEF RoomDocType
  <2>4. (u.at > 0 \/ u.id > 0) /\ u.at >= c.lastMsgAt
    BY <1>1, <1>7 DEF roomLastMsgFilter, RoomDocType, UpdateType
  <2>5. \E e \in P : d.lastMsgAt = e.at /\ d.lastMsgId = e.id
    <3>1. \E e \in S : u.at = e.at /\ u.id = e.id
      <4>1. ~(u.at = 0 /\ u.id = 0)
        BY <2>4
      <4>2. QED
        BY <1>3, <4>1, Zenon DEF ExactUpdate, IsPointer
    <3>2. QED
      BY <1>3, <2>3, <3>1, Zenon
  <2>6. d.lastUserMsgAt \in {0, CreatedAt[r]} \/ \E e \in UserMsgs(P) : d.lastUserMsgAt = e.at
    BY <1>3, <2>2, <2>3, ZenonT(60) DEF DocFrom
  <2>7. ASSUME UserMsgs(P) = {}
        PROVE  IF r \in LegacyRooms
               THEN d.lastUserMsgAt = 0 /\ (CreatedAt[r] = 0 \/ d.lastMsgAt > 0)
               ELSE d.lastUserMsgAt = CreatedAt[r] \/ (d.lastMsgAt = 0 /\ d.lastUserMsgAt = 0)
    <3>1. x = frozenUserAt(r, c)
      BY <1>5, <2>2, <2>7, Zenon
    <3>2. IF r \in LegacyRooms
          THEN c.lastUserMsgAt = 0 /\ (CreatedAt[r] = 0 \/ c.lastMsgAt > 0)
          ELSE c.lastUserMsgAt = CreatedAt[r] \/ (c.lastMsgAt = 0 /\ c.lastUserMsgAt = 0)
      BY <1>3, <2>7, Zenon DEF DocFrom
    <3>3. QED
      BY <1>1, <2>3, <2>4, <3>1, <3>2 DEF frozenUserAt, RoomDocType, UpdateType
  <2>8. QED
    BY <1>3, <2>3, <2>5, <2>6, <2>7, ZenonT(60) DEF DocFrom
<1>8. CASE kind = "pointer" /\ ~roomLastMsgFilter(c, u)
  BY <1>2, <1>3, <1>8, Zenon
<1>9. QED
  BY <1>6, <1>7, <1>8, Zenon

(* The stream only grows. *)
LEMMA PublishedGrows ==
  ASSUME [Next]_vars PROVE published \subseteq published'
  BY ZenonT(60) DEF Next, vars, consumer, Tick, Publish, Consume, Flush, flushNow, Crash, BeginShutdown,
     flushCancel, FinalFlush, Exit, Restart, WriterStep, WriteModel, WriteFails, EndStage, settle,
     StageTimeout, StartRead, UpdateSubscriptionRead, Quiescent

(* One step keeps every document one that comes from published events. *)
LEMMA DocsFromStep ==
  ASSUME TypeOK, HeldPublished, Exact, DocsFrom, [Next]_vars
  PROVE  DocsFrom'
<1> SUFFICES ASSUME NEW r \in Rooms
             PROVE  DocFrom(r, roomDoc'[r], Created(published', r))
  BY Zenon DEF DocsFrom
<1>1. Created(published, r) \subseteq Created(published', r)
  BY PublishedGrows DEF Created
<1>2. DocFrom(r, roomDoc[r], Created(published, r))
  BY DEF DocsFrom
<1>3. CASE roomDoc'[r] = roomDoc[r]
  BY <1>1, <1>2, <1>3, FromGrows, Zenon
<1>4. ASSUME NEW w \in Writers, NEW m \in flight[w].todo, RoomStep(w, m)
      PROVE  DocFrom(r, roomDoc'[r], Created(published', r))
  <2>1. m[1] \in {"pointer", "max"} /\ m[2] \in Rooms /\ m = <<m[1], m[2]>>
        /\ flight[w].batch \in BatchType /\ roomDoc \in [Rooms -> RoomDocType]
    BY <1>4, ModelIsRoom, Zenon DEF RoomStep
  <2>2. roomDoc' = [roomDoc EXCEPT ![m[2]] = roomWrite(m, flight[w].batch)]
    BY <1>4, Zenon DEF RoomStep
  <2>3. CASE r # m[2]
    BY <1>3, <2>1, <2>2, <2>3, Zenon
  <2>4. CASE r = m[2]
    <3>1. roomDoc'[r] = roomWrite(<<m[1], r>>, flight[w].batch)
      BY <2>1, <2>2, <2>4, Zenon
    <3>2. ExactUpdate(flight[w].batch.rooms[r], Created(flight[w].batch.held, r))
      BY Zenon DEF Exact, ExactBatch
    <3>3. Created(flight[w].batch.held, r) \subseteq Created(published, r)
      BY Zenon DEF HeldPublished, Created
    <3>4. DocFrom(r, roomWrite(<<m[1], r>>, flight[w].batch), Created(published, r))
      BY <1>2, <2>1, <3>2, <3>3, RoomWriteFrom, Zenon
    <3>5. QED
      BY <1>1, <3>1, <3>4, FromGrows, Zenon
  <2>5. QED
    BY <2>3, <2>4, Zenon
<1>5. QED
  BY <1>3, <1>4, DocStep, Zenon

(* A document that comes from published events and covers them all is the one
   they determine. *)
LEMMA CoveredIsReference ==
  ASSUME NEW r \in Rooms, NEW d \in RoomDocType, NEW C \in SUBSET Events, C # {},
         \A e \in C : e.at > 0 /\ e.at >= CreatedAt[r],
         DocFrom(r, d, C), \A e \in C : Covers(d, e)
  PROVE  LET U == UserMsgs(C) IN
         d = [lastMsgAt |-> Newest(C).at, lastMsgId |-> Newest(C).id,
              lastUserMsgAt |-> IF U # {} THEN LatestAt(U)
                                ELSE IF r \in LegacyRooms THEN 0 ELSE CreatedAt[r],
              lastMentionAllAt |-> LatestAt(AllMsgs(C))]
<1> DEFINE U == UserMsgs(C)
           A == AllMsgs(C)
<1>1. /\ U \subseteq C /\ A \subseteq C /\ CreatedAt[r] \in Nat
      /\ \A e \in C : e.at \in Nat /\ e.id \in Nat
  BY EventsAssumption, RoomsAssumption, ZenonT(60) DEF EventType, UserMsgs, AllMsgs
<1>2. PICK e \in C : d.lastMsgAt = e.at /\ d.lastMsgId = e.id
  <2>1. PICK f \in C : ~NewerRow(f.at, f.id, d.lastMsgAt, d.lastMsgId)
    BY Zenon DEF Covers
  <2>2. InitRoomDoc(r).lastMsgAt \in {0, CreatedAt[r]}
    BY Zenon DEF InitRoomDoc
  <2>3. ~(d.lastMsgAt = InitRoomDoc(r).lastMsgAt /\ d.lastMsgId = 0)
    <3>1. f.id \in Nat \ {0} /\ f.at \in Nat /\ f.at > 0 /\ f.at >= CreatedAt[r]
      BY EventsAssumption, Zenon DEF EventType
    <3>2. QED
      BY <1>1, <2>1, <2>2, <3>1 DEF NewerRow, RoomDocType
  <2>4. QED
    BY <2>3, Zenon DEF DocFrom
<1>3. Newest(C) = e
  BY <1>2, NewestIs, Zenon DEF Covers
<1>4. d.lastUserMsgAt = IF U # {} THEN LatestAt(U) ELSE IF r \in LegacyRooms THEN 0 ELSE CreatedAt[r]
  <2>1. CASE U # {}
    <3>1. \A f \in U : d.lastUserMsgAt >= f.at /\ f.at > 0 /\ f.at >= CreatedAt[r] /\ f.at \in Nat
      BY <1>1, Zenon DEF Covers, UserMsgs
    <3>2. PICK g \in U : TRUE
      BY <2>1, Zenon
    <3>3. \E f \in U : d.lastUserMsgAt = f.at
      <4>1. d.lastUserMsgAt = 0 \/ d.lastUserMsgAt = CreatedAt[r]
              \/ \E f \in U : d.lastUserMsgAt = f.at
        BY Zenon DEF DocFrom
      <4>2. d.lastUserMsgAt >= g.at /\ g.at > 0 /\ g.at >= CreatedAt[r] /\ g.at \in Nat
        BY <3>1, Zenon
      <4>3. d.lastUserMsgAt # 0 /\ (d.lastUserMsgAt = CreatedAt[r] => d.lastUserMsgAt = g.at)
        BY <1>1, <4>2
      <4>4. QED
        BY <4>1, <4>3, Zenon
    <3>4. IsLatest(d.lastUserMsgAt, U)
      BY <3>1, <3>3, Zenon DEF IsLatest, RoomDocType
    <3>5. d.lastUserMsgAt = LatestAt(U)
      BY <3>1, <3>4, LatestIs, Zenon
    <3>6. QED
      BY <2>1, <3>5, Zenon
  <2>2. CASE U = {}
    <3>1. d.lastMsgAt > 0
      BY <1>2, ZenonT(60)
    <3>2. d.lastUserMsgAt = IF r \in LegacyRooms THEN 0 ELSE CreatedAt[r]
      BY <2>2, <3>1 DEF DocFrom
    <3>3. QED
      BY <2>2, <3>2, Zenon
  <2>3. QED
    BY <2>1, <2>2, Zenon
<1>5. d.lastMentionAllAt = LatestAt(A)
  <2>1. \A f \in A : d.lastMentionAllAt >= f.at /\ f.at \in Nat
    BY <1>1, Zenon DEF Covers, AllMsgs
  <2>2. IsLatest(d.lastMentionAllAt, A)
    BY <2>1, Zenon DEF IsLatest, DocFrom, RoomDocType
  <2>3. QED
    BY <2>1, <2>2, LatestIs, Zenon
<1>6. d = [lastMsgAt |-> d.lastMsgAt, lastMsgId |-> d.lastMsgId, lastUserMsgAt |-> d.lastUserMsgAt,
           lastMentionAllAt |-> d.lastMentionAllAt]
  BY Zenon DEF RoomDocType
<1> HIDE DEF U, A
<1>7. d = [lastMsgAt |-> Newest(C).at, lastMsgId |-> Newest(C).id,
           lastUserMsgAt |-> IF U # {} THEN LatestAt(U)
                             ELSE IF r \in LegacyRooms THEN 0 ELSE CreatedAt[r],
           lastMentionAllAt |-> LatestAt(A)]
  BY <1>2, <1>3, <1>4, <1>5, <1>6, Zenon
<1>8. QED
  BY <1>7, Zenon DEF U, A

-----------------------------------------------------------------------------
(* The inductive invariant: IInv, with what batches and room
   documents are exactly. *)
XInv == IInv /\ Exact /\ StageToDo /\ DocsFrom

(* The inductive invariant holds initially. *)
LEMMA InitExact == Init => XInv
<1> SUFFICES ASSUME Init PROVE XInv
  OBVIOUS
<1>1. IInv
  BY InitInv
<1>2. /\ \A w \in Writers : flight[w] = Idle /\ flight[w].batch = newBatch
      /\ \A r \in Replicas : pending[r] = newBatch /\ mode[r] = "running"
  BY FlightShape, Zenon DEF Init
<1>3. Idle.todo = {} /\ Idle.batch.held = {}
  BY Zenon DEF Idle, newBatch
<1>4. Exact /\ StageToDo
  BY <1>2, <1>3, NewExact, ZenonT(60) DEF Exact, StageToDo
<1>5. DocsFrom
  <2>1. ASSUME NEW r \in Rooms PROVE DocFrom(r, InitRoomDoc(r), Created(published, r))
    <3>1. /\ InitRoomDoc(r).lastMsgAt = (IF r \in LegacyRooms THEN CreatedAt[r] ELSE 0)
          /\ InitRoomDoc(r).lastMsgId = 0 /\ InitRoomDoc(r).lastUserMsgAt = 0
          /\ InitRoomDoc(r).lastMentionAllAt = 0 /\ CreatedAt[r] \in Nat
      BY RoomsAssumption, Zenon DEF InitRoomDoc
    <3>2. QED
      BY <3>1 DEF DocFrom
  <2>2. QED
    BY <2>1, Zenon DEF Init, DocsFrom
<1>6. QED
  BY <1>1, <1>4, <1>5 DEF XInv

(* Every step keeps the inductive invariant. *)
LEMMA NextExact == XInv /\ [Next]_vars => XInv'
<1> SUFFICES ASSUME XInv, [Next]_vars PROVE XInv'
  OBVIOUS
<1>1. IInv' /\ TypeOK /\ HeldPublished
  BY NextInv, Zenon DEF XInv, IInv
<1>2. Exact' /\ StageToDo'
  BY <1>1, ExactStep DEF XInv
<1>3. DocsFrom'
  BY <1>1, DocsFromStep DEF XInv
<1>4. QED
  BY <1>1, <1>2, <1>3 DEF XInv

(* The inductive invariant holds always: batches are what they hold, documents
   come from published events. *)
THEOREM ExactInvariance == Spec => []XInv
  BY InitExact, NextExact, PTL DEF Spec

(* Coalescing (batch.add) yields the batch that a reference definition computes
   from the set of held events, under every arrival order and any duplicates,
   and swapping, writing and retrying never disturb it. *)
THEOREM CoalescingIsExact == Spec => []BatchIsReference
<1>1. XInv => BatchIsReference
  <2> SUFFICES ASSUME XInv PROVE BatchIsReference
    OBVIOUS
  <2>1. /\ \A r \in Replicas : pending[r] \in BatchType /\ ExactBatch(pending[r])
        /\ \A w \in Writers : flight[w].batch \in BatchType /\ ExactBatch(flight[w].batch)
    BY Zenon DEF XInv, IInv, TypeOK, Exact
  <2>2. ASSUME NEW b \in {pending[r] : r \in Replicas} \cup {flight[w].batch : w \in Writers}
        PROVE  b \in BatchType /\ ExactBatch(b)
    BY <2>1, Zenon
  <2>3. QED
    BY <2>2, ExactIsReference, Zenon DEF BatchIsReference
<1>2. QED
  BY <1>1, ExactInvariance, PTL

(* A room whose events are all acknowledged has the document those events
   determine, whatever the delivery order, the retries and the writers: newest
   pointer, newest user and @all positions, and the sticky freeze of a room that
   only carried system messages (roomLastMsgModels, roomPointerUpdate). *)
THEOREM RoomsConverge == Spec => []RoomConverges
<1>1. XInv => RoomConverges
  <2> SUFFICES ASSUME XInv, NEW r \in Rooms \ PoisonRooms, Created(published, r) # {},
                      Created(published, r) \subseteq acked
               PROVE  LET C == Created(published, r)  U == UserMsgs(C) IN
                      roomDoc[r] = [lastMsgAt |-> Newest(C).at, lastMsgId |-> Newest(C).id,
                                    lastUserMsgAt |-> IF U # {} THEN LatestAt(U)
                                                      ELSE IF r \in LegacyRooms THEN 0 ELSE CreatedAt[r],
                                    lastMentionAllAt |-> LatestAt(AllMsgs(C))]
    BY Zenon DEF RoomConverges
  <2>1. roomDoc[r] \in RoomDocType /\ DocFrom(r, roomDoc[r], Created(published, r))
    BY Zenon DEF XInv, IInv, TypeOK, RoomDocType, DocsFrom
  <2>2. /\ Created(published, r) \subseteq Events
        /\ \A e \in Created(published, r) : e.at > 0 /\ e.at >= CreatedAt[r]
    BY EventsAssumption, RoomsAssumption, Zenon DEF XInv, IInv, TypeOK, Created
  <2>3. \A e \in Created(published, r) : Covers(roomDoc[r], e)
    BY Zenon DEF XInv, IInv, AckedWritesLanded, Created
  <2>4. QED
    BY <2>1, <2>2, <2>3, CoveredIsReference, Zenon
<1>2. QED
  BY <1>1, ExactInvariance, PTL

-----------------------------------------------------------------------------
(* Sender positions, badges and shutdown. *)

(* Account k has read event e, or was badged for it; or a late read ran over it. *)
SeenBy(k, e) == subDoc[k].lastSeenAt >= e.at \/ e \in overrun[k]
Badged(k, e) == subDoc[k].hasMention \/ SeenBy(k, e)

(* Flight f has its stage still before it, or model m of that stage still to
   do, or will be nak'd. *)
Ahead(f, stage) == f.stage = "rooms" \/ (stage = "mentions" /\ f.stage = "lastSeen")
Doomed(f, stage) == \/ f.stage = stage /\ "transient" \in f.errs
                    \/ f.stage = "settle" /\ f.outcome = "transient"
Awaits(f, stage, m) == Ahead(f, stage) \/ Doomed(f, stage) \/ (f.stage = stage /\ m \in f.todo)

SubsInFlight ==
  \A w \in Writers : \A k \in Members \ PoisonSubs :
    /\ \A e \in SentBy(flight[w].batch.held, k) :
         Awaits(flight[w], "lastSeen", <<"seen", k>>) \/ SeenBy(k, e)
    /\ \A e \in Mentioning(flight[w].batch.held, k) :
         Awaits(flight[w], "mentions", <<"mention", k>>) \/ Badged(k, e)

(* How far a replica that shuts down has got. *)
Stopping ==
  \A r \in Replicas :
    /\ mode[r] \in {"cancelled", "final", "stopped"} =>
         ~due[r] /\ flight[<<r, "loop">>].stage = "idle"
    /\ mode[r] \in {"final", "stopped"} => pending[r].held = {}
    /\ mode[r] = "stopped" => flight[<<r, "ticker">>].stage = "idle"


-----------------------------------------------------------------------------
(* One write model of flight w reaches the subscription document of k. *)
SubStep(w, m, k) ==
  /\ Writing(w) /\ m \in flight[w].todo /\ m[1] \notin {"pointer", "max"} /\ m[2] = k
  /\ ~Poison(m) /\ subDoc'[k] = subWrite(m, flight[w].batch) /\ overrun'[k] = overrun[k]
(* The read RPC's write reaches it. *)
ReadStep(k) ==
  \E now \in Nat : /\ subDoc'[k] = [lastSeenAt |-> now, hasMention |-> FALSE]
                   /\ overrun'[k] = overrun[k] \cup {e \in published : e.room = k[1] /\ e.at > now}

(* What a step may do to one subscription document. *)
LEMMA SubCases ==
  ASSUME TypeOK, [Next]_vars, NEW k \in Subs
  PROVE  \/ subDoc'[k] = subDoc[k] /\ overrun'[k] = overrun[k]
         \/ \E w \in Writers : \E m \in flight[w].todo : SubStep(w, m, k)
         \/ ReadStep(k)
<1>1. /\ subDoc \in [Subs -> SubDocType] /\ overrun \in [Subs -> SUBSET Events]
  BY Zenon DEF TypeOK, SubDocType
<1>2. ASSUME NEW w \in Writers, WriteModel(w) \/ WriteFails(w)
      PROVE  \/ subDoc'[k] = subDoc[k] /\ overrun'[k] = overrun[k]
             \/ \E m \in flight[w].todo : SubStep(w, m, k)
  <2>1. Writing(w) /\ overrun' = overrun
    BY <1>2, Zenon DEF WriteModel, WriteFails, readers
  <2>2. PICK m \in flight[w].todo :
          subDoc' = subDoc \/ (~Poison(m) /\ ApplyModel(m, flight[w].batch))
    BY <1>2, Zenon DEF WriteModel, WriteFails, store
  <2>3. CASE subDoc' = subDoc
    BY <2>1, <2>3, Zenon
  <2>4. CASE ~Poison(m) /\ ApplyModel(m, flight[w].batch)
    BY <1>1, <2>1, <2>4, Zenon DEF ApplyModel, SubStep
  <2>5. QED
    BY <2>2, <2>3, <2>4, Zenon
<1>3. ASSUME NEW q \in Readers, NEW now \in 1..MaxClock, UpdateSubscriptionRead(q, now)
      PROVE  (subDoc'[k] = subDoc[k] /\ overrun'[k] = overrun[k]) \/ ReadStep(k)
  <2>1. now \in Nat
    BY BoundsAssumption
  <2>2. QED
    BY <1>1, <1>3, <2>1, Zenon DEF UpdateSubscriptionRead, ReadStep
<1>4. CASE UNCHANGED <<subDoc, overrun>>
  BY <1>4, Zenon
<1>5. QED
  BY <1>2, <1>3, <1>4, ZenonT(60)
     DEF Next, vars, store, readers, Tick, Publish, Consume, Flush, flushNow, Crash, BeginShutdown,
         flushCancel, FinalFlush, Exit, Restart, WriterStep, EndStage, settle, StageTimeout,
         StartRead, Quiescent

(* The order of times is transitive. *)
LEMMA AtLeastTrans ==
  ASSUME NEW s \in Nat, NEW t \in Nat, NEW u \in Nat, s >= t, t >= u
  PROVE  s >= u
  OBVIOUS

(* A worker's write moves the read position forward only and never takes a
   badge back. *)
LEMMA SubWriteGrows ==
  ASSUME NEW k \in Subs, NEW m, m[2] = k, NEW b \in BatchType, subDoc \in [Subs -> SubDocType]
  PROVE  /\ subWrite(m, b).lastSeenAt >= subDoc[k].lastSeenAt
         /\ subWrite(m, b).lastSeenAt \in Nat
         /\ subDoc[k].hasMention => subWrite(m, b).hasMention
<1>1. subDoc[k] \in SubDocType /\ b.lastSeen[k] \in Nat
  BY DEF BatchType
<1>2. CASE subWrite(m, b) = subDoc[k]
  BY <1>1, <1>2 DEF SubDocType
<1>3. CASE subWrite(m, b) = [subDoc[k] EXCEPT !.hasMention = TRUE]
  BY <1>1, <1>3 DEF SubDocType
<1>4. CASE subWrite(m, b) = [subDoc[k] EXCEPT !.lastSeenAt = Later(b.lastSeen[k], subDoc[k].lastSeenAt)]
  BY <1>1, <1>4 DEF SubDocType, Later
<1>5. QED
  BY <1>2, <1>3, <1>4, ZenonT(60) DEF subWrite

(* What an account has read or was badged for stays so, or a late read ran
   over it. *)
LEMMA SeenKept ==
  ASSUME TypeOK, [Next]_vars, NEW k \in Subs, NEW e \in published, e.room = k[1]
  PROVE  /\ SeenBy(k, e) => SeenBy(k, e)'
         /\ Badged(k, e) => Badged(k, e)'
<1>1. subDoc \in [Subs -> SubDocType] /\ subDoc[k].lastSeenAt \in Nat /\ e.at \in Nat
  BY EventsAssumption DEF TypeOK, SubDocType, EventType
<1>2. CASE subDoc'[k] = subDoc[k] /\ overrun'[k] = overrun[k]
  BY <1>2, Zenon DEF SeenBy, Badged
<1>3. ASSUME NEW w \in Writers, NEW m \in flight[w].todo, SubStep(w, m, k)
      PROVE  /\ SeenBy(k, e) => SeenBy(k, e)'
             /\ Badged(k, e) => Badged(k, e)'
  <2>1. flight[w].batch \in BatchType
    BY Zenon DEF TypeOK
  <2>2. /\ subDoc'[k].lastSeenAt >= subDoc[k].lastSeenAt /\ subDoc'[k].lastSeenAt \in Nat
        /\ subDoc[k].hasMention => subDoc'[k].hasMention
        /\ overrun'[k] = overrun[k]
    BY <1>1, <1>3, <2>1, SubWriteGrows, ZenonT(60) DEF SubStep
  <2>3. QED
    BY <1>1, <2>2, AtLeastTrans, Zenon DEF SeenBy, Badged
<1>4. CASE ReadStep(k)
  BY <1>1, <1>4 DEF ReadStep, SeenBy, Badged
<1>5. QED
  BY <1>2, <1>3, <1>4, SubCases, ZenonT(60)

(* An applied subscription write shows in the document. *)
LEMMA SubApplied ==
  ASSUME TypeOK, NEW w \in Writers, NEW k \in Members, NEW kind \in {"seen", "mention"},
         ApplyModel(<<kind, k>>, flight[w].batch)
  PROVE  /\ kind = "seen" => subDoc'[k].lastSeenAt >= flight[w].batch.lastSeen[k]
         /\ kind = "mention" => \/ subDoc'[k].hasMention
                                \/ subDoc'[k].lastSeenAt >= flight[w].batch.mentions[k]
<1>1. /\ k \in Subs /\ subDoc \in [Subs -> SubDocType] /\ subDoc[k] \in SubDocType
      /\ flight[w].batch \in BatchType
  BY RoomsAssumption, Zenon DEF TypeOK, SubDocType
<1>2. flight[w].batch.lastSeen[k] \in Nat /\ flight[w].batch.mentions[k] \in Nat
  BY <1>1, Zenon DEF BatchType
<1>3. subDoc'[k] = subWrite(<<kind, k>>, flight[w].batch)
  BY <1>1 DEF ApplyModel
<1>4. CASE kind = "seen"
  <2>1. subDoc'[k] = [subDoc[k] EXCEPT !.lastSeenAt = Later(flight[w].batch.lastSeen[k], subDoc[k].lastSeenAt)]
    BY <1>3, <1>4 DEF subWrite
  <2>2. QED
    BY <1>1, <1>2, <1>4, <2>1 DEF SubDocType, Later
<1>5. CASE kind = "mention"
  <2>1. subDoc'[k] = IF mentionFilter(subDoc[k], flight[w].batch.mentions[k])
                     THEN [subDoc[k] EXCEPT !.hasMention = TRUE] ELSE subDoc[k]
    BY <1>3, <1>5 DEF subWrite
  <2>2. CASE mentionFilter(subDoc[k], flight[w].batch.mentions[k])
    BY <1>1, <1>5, <2>1, <2>2 DEF SubDocType
  <2>3. CASE ~mentionFilter(subDoc[k], flight[w].batch.mentions[k])
    BY <1>1, <1>2, <1>5, <2>1, <2>3 DEF SubDocType, mentionFilter
  <2>4. QED
    BY <2>2, <2>3, Zenon
<1>6. QED
  BY <1>4, <1>5, Zenon

-----------------------------------------------------------------------------
(* Answering other models, or failing transiently, keeps a flight waiting. *)
LEMMA AwaitsAnswered ==
  ASSUME NEW f \in FlightType, NEW M, NEW E, NEW stage, NEW m, Awaits(f, stage, m),
         m \notin M \/ f.stage # stage \/ "transient" \in E
  PROVE  Awaits(Answered(f, M, E), stage, m)
<1> DEFINE g == Answered(f, M, E)
<1>1. /\ g.stage = f.stage /\ g.outcome = f.outcome
      /\ g.todo = f.todo \ M /\ g.errs = f.errs \cup E
  BY AnsweredShape
<1> HIDE DEF g
<1>2. Awaits(g, stage, m)
  BY <1>1, Zenon DEF Awaits, Ahead, Doomed
<1>3. QED
  BY <1>2, SMTT(60) DEF g

(* The end of a stage forgets neither a transient error nor a model of a later
   stage. *)
LEMMA AwaitsEnd ==
  ASSUME TypeOK, NEW x \in Writers, EndStage(x), NEW stage \in {"lastSeen", "mentions"},
         NEW m \in Models(stage, flight[x].batch), Awaits(flight[x], stage, m)
  PROVE  Awaits(flight'[x], stage, m)
<1> DEFINE f == flight[x]
           g == flight'[x]
           class == classifyFlushErr(f.errs)
<1>1. /\ f.stage \in Stages /\ f.todo = {} /\ g.stage = stageAfter(class, f.stage)
      /\ g.todo = Models(g.stage, f.batch)
      /\ g.outcome = IF class = "ok" THEN f.outcome ELSE class
  BY EndStageShape, Zenon
<1>2. class = "transient" <=> "transient" \in f.errs
  BY Zenon DEF classifyFlushErr
<1>3. Awaits(f, stage, m) /\ m \in Models(stage, f.batch)
  OBVIOUS
<1> SUFFICES Awaits(g, stage, m)
  BY Zenon
<1> HIDE DEF f, g, class
<1>4. CASE class = "transient"
  BY <1>1, <1>4, ZenonT(60) DEF stageAfter, Awaits, Doomed
<1>5. CASE class # "transient"
  <2>1. Ahead(f, stage)
    BY <1>1, <1>2, <1>3, <1>5, Zenon DEF Awaits, Doomed, Stages
  <2>2. g.stage = nextStage(f.stage)
    BY <1>1, <1>5, Zenon DEF stageAfter
  <2>3. CASE f.stage = "rooms"
    <3>1. g.stage = "lastSeen"
      BY <2>2, <2>3 DEF nextStage
    <3>2. QED
      BY <1>1, <1>3, <3>1, Zenon DEF Awaits, Ahead
  <2>4. CASE stage = "mentions" /\ f.stage = "lastSeen"
    <3>1. g.stage = "mentions"
      BY <2>2, <2>4, SMTT(60) DEF nextStage
    <3>2. QED
      BY <1>1, <1>3, <2>4, <3>1, Zenon DEF Awaits
  <2>5. QED
    BY <2>1, <2>3, <2>4 DEF Ahead
<1>6. QED
  BY <1>4, <1>5

(* An exact batch has a write model for every event that needs one, and the
   value it writes is at or past the event. *)
LEMMA ModelFor ==
  ASSUME NEW b \in BatchType, ExactBatch(b), NEW k \in Subs
  PROVE  /\ \A e \in SentBy(b.held, k) :
              b.lastSeen[k] >= e.at /\ <<"seen", k>> \in Models("lastSeen", b)
         /\ \A e \in Mentioning(b.held, k) :
              b.mentions[k] >= e.at /\ <<"mention", k>> \in Models("mentions", b)
<1>1. \A e \in SentBy(b.held, k) : e.at \in Nat /\ e.at > 0 /\ b.lastSeen[k] >= e.at /\ b.lastSeen[k] \in Nat
  <2> SUFFICES ASSUME NEW e \in SentBy(b.held, k)
               PROVE  e.at \in Nat /\ e.at > 0 /\ b.lastSeen[k] >= e.at /\ b.lastSeen[k] \in Nat
    BY Zenon
  <2>1. e \in Events /\ e.event = "created" /\ b.lastSeen[k] \in Nat /\ e.at <= b.lastSeen[k]
    BY Zenon DEF ExactBatch, IsLatest, SentBy, Created, BatchType
  <2>2. e.at \in Nat /\ e.at > 0
    BY <2>1, EventsAssumption, Zenon DEF EventType
  <2>3. QED
    BY <2>1, <2>2, Zenon
<1>2. \A e \in Mentioning(b.held, k) : e.at \in Nat /\ e.at > 0 /\ b.mentions[k] >= e.at /\ b.mentions[k] \in Nat
  <2> SUFFICES ASSUME NEW e \in Mentioning(b.held, k)
               PROVE  e.at \in Nat /\ e.at > 0 /\ b.mentions[k] >= e.at /\ b.mentions[k] \in Nat
    BY Zenon
  <2>1. e \in Events /\ e.at > 0 /\ b.mentions[k] \in Nat /\ e.at <= b.mentions[k]
    BY Zenon DEF ExactBatch, IsLatest, Mentioning, BatchType
  <2>2. e.at \in Nat
    BY <2>1, EventsAssumption, Zenon DEF EventType
  <2>3. QED
    BY <2>1, <2>2, Zenon
<1>3. b.lastSeen[k] > 0 => <<"seen", k>> \in Models("lastSeen", b)
  BY DEF Models
<1>4. b.mentions[k] > 0 => <<"mention", k>> \in Models("mentions", b)
  BY SMTT(20) DEF Models
<1>5. QED
  BY <1>1, <1>2, <1>3, <1>4, SMTT(60)

(* One step keeps one model of a flight accounted for: still awaited, or in the
   subscription document. *)
LEMMA AwaitsStep ==
  ASSUME TypeOK, [Next]_vars, NEW x \in Writers, NEW k \in Members \ PoisonSubs,
         NEW stage \in {"lastSeen", "mentions"}, NEW kind \in {"seen", "mention"},
         <<kind, k>> \in Models(stage, flight[x].batch),
         Awaits(flight[x], stage, <<kind, k>>),
         flight'[x].batch = flight[x].batch
  PROVE  \/ Awaits(flight'[x], stage, <<kind, k>>)
         \/ kind = "seen" /\ subDoc'[k].lastSeenAt >= flight[x].batch.lastSeen[k]
         \/ kind = "mention" /\ \/ subDoc'[k].hasMention
                                \/ subDoc'[k].lastSeenAt >= flight[x].batch.mentions[k]
         \/ flight'[x] = Idle
<1> DEFINE m == <<kind, k>>
<1>1. flight[x] \in FlightType /\ ~Poison(m)
  BY Zenon DEF TypeOK, FlightType, Poison
<1>2. CASE flight'[x] = flight[x] \/ flight'[x] = Idle
  BY <1>2, ZenonT(60)
<1>3. ASSUME NEW r \in Replicas, flight'[x] = BeginWrite(pending[r])
      PROVE  Awaits(flight'[x], stage, m)
  <2>1. flight'[x].stage = "rooms"
    BY <1>3 DEF BeginWrite
  <2>2. QED
    BY <2>1, Zenon DEF Awaits, Ahead
<1>4. ASSUME NEW n \in flight[x].todo, NEW E \in SUBSET {"permanent", "transient"}, AnsweredStep(x, n, E)
      PROVE  \/ Awaits(flight'[x], stage, m)
             \/ kind = "seen" /\ subDoc'[k].lastSeenAt >= flight[x].batch.lastSeen[k]
             \/ kind = "mention" /\ \/ subDoc'[k].hasMention
                                    \/ subDoc'[k].lastSeenAt >= flight[x].batch.mentions[k]
  <2>1. flight'[x] = Answered(flight[x], {n}, E)
    BY <1>4, ZenonT(60) DEF AnsweredStep
  <2>2. CASE n # m \/ "transient" \in E
    <3>1. m \notin {n} \/ "transient" \in E
      BY <2>2, Zenon
    <3>2. Awaits(Answered(flight[x], {n}, E), stage, m)
      BY <1>1, <3>1, AwaitsAnswered, Zenon
    <3>3. QED
      BY <2>1, <3>2, Zenon
  <2>3. CASE n = m /\ "transient" \notin E
    <3>1. ApplyModel(<<kind, k>>, flight[x].batch)
      BY <1>1, <1>4, <2>3, ZenonT(60) DEF AnsweredStep
    <3>2. QED
      BY <3>1, SubApplied, Zenon
  <2>4. QED
    BY <2>2, <2>3, Zenon
<1>5. CASE TimeoutStep(x)
  <2>1. Awaits(Answered(flight[x], flight[x].todo, {"transient"}), stage, m)
    <3>1. "transient" \in {"transient"}
      BY Zenon
    <3>2. QED
      BY <1>1, <3>1, AwaitsAnswered, Zenon
  <2>2. QED
    BY <1>5, <2>1, Zenon DEF TimeoutStep
<1>6. CASE EndStage(x)
  BY <1>6, AwaitsEnd, ZenonT(60)
<1>7. FlightStep(x)
  BY FlightCases, Zenon
<1>8. QED
  BY <1>2, <1>3, <1>4, <1>5, <1>6, <1>7, ZenonT(60) DEF FlightStep

(* A step keeps the batch of a flight, ends the flight, or begins one. *)
LEMMA FlightBatch ==
  ASSUME TypeOK, [Next]_vars, NEW x \in Writers
  PROVE  \/ flight'[x] = Idle
         \/ \E r \in Replicas : flight'[x] = BeginWrite(pending[r])
         \/ flight'[x].batch = flight[x].batch
<1>1. flight[x] \in FlightType
  BY SMTT(60) DEF TypeOK, FlightType
<1>2. ASSUME NEW n \in flight[x].todo, NEW E \in SUBSET {"permanent", "transient"}, AnsweredStep(x, n, E)
      PROVE  flight'[x].batch = flight[x].batch
  <2>1. Answered(flight[x], {n}, E).batch = flight[x].batch
    BY <1>1, AnsweredShape
  <2>2. flight'[x] = Answered(flight[x], {n}, E)
    BY <1>2, Zenon DEF AnsweredStep
  <2>3. QED
    BY <2>1, <2>2, ZenonT(60)
<1>3. CASE TimeoutStep(x)
  <2>1. Answered(flight[x], flight[x].todo, {"transient"}).batch = flight[x].batch
    BY <1>1, AnsweredShape
  <2>2. flight'[x] = Answered(flight[x], flight[x].todo, {"transient"})
    BY <1>3, Zenon DEF TimeoutStep
  <2>3. QED
    BY <2>1, <2>2, Zenon
<1>4. CASE EndStage(x)
  BY <1>4, EndStageShape, Zenon
<1>5. FlightStep(x)
  BY FlightCases
<1>6. QED
  BY <1>2, <1>3, <1>4, <1>5, ZenonT(60) DEF FlightStep

(* One step keeps every subscription write of every flight accounted for. *)
LEMMA SubsInFlightStep ==
  ASSUME TypeOK, HeldPublished, Exact, SubsInFlight, [Next]_vars
  PROVE  SubsInFlight'
<1>1. TypeOK'
  BY TypeStep
<1> SUFFICES ASSUME NEW x \in Writers, NEW k \in Members \ PoisonSubs
             PROVE  /\ \A e \in SentBy(flight'[x].batch.held, k) :
                         Awaits(flight'[x], "lastSeen", <<"seen", k>>) \/ SeenBy(k, e)'
                    /\ \A e \in Mentioning(flight'[x].batch.held, k) :
                         Awaits(flight'[x], "mentions", <<"mention", k>>) \/ Badged(k, e)'
  BY ZenonT(60) DEF SubsInFlight
<1>2. /\ k \in Subs /\ flight[x].batch \in BatchType /\ ExactBatch(flight[x].batch)
      /\ subDoc'[k].lastSeenAt \in Nat
      /\ flight[x].batch.lastSeen[k] \in Nat /\ flight[x].batch.mentions[k] \in Nat
  <2>1. k \in Subs
    BY RoomsAssumption, Zenon
  <2>2. flight[x].batch \in BatchType /\ ExactBatch(flight[x].batch)
    BY Zenon DEF TypeOK, Exact
  <2>3. subDoc'[k].lastSeenAt \in Nat
    BY <1>1, <2>1, Zenon DEF TypeOK
  <2>4. flight[x].batch.lastSeen[k] \in Nat /\ flight[x].batch.mentions[k] \in Nat
    BY <2>1, <2>2, Zenon DEF BatchType
  <2>5. QED
    BY <2>1, <2>2, <2>3, <2>4, Zenon
<1>3. CASE flight'[x] = Idle
  <2>1. flight'[x].batch.held = {}
    <3>1. Idle.batch.held = {}
      BY Zenon DEF Idle, newBatch
    <3>2. QED
      BY <1>3, <3>1, Zenon
  <2>2. QED
    BY <2>1, Zenon DEF SentBy, Created, Mentioning
<1>4. ASSUME NEW r \in Replicas, flight'[x] = BeginWrite(pending[r])
      PROVE  \A stage, m : Awaits(flight'[x], stage, m)
  <2>1. BeginWrite(pending[r]).stage = "rooms"
    BY Zenon DEF BeginWrite
  <2>2. flight'[x].stage = "rooms"
    BY <1>4, <2>1, Zenon
  <2>3. QED
    BY <2>2, Zenon DEF Awaits, Ahead
<1>5. CASE flight'[x].batch = flight[x].batch /\ flight'[x] # Idle
  <2>1. ASSUME NEW e \in SentBy(flight[x].batch.held, k)
        PROVE  Awaits(flight'[x], "lastSeen", <<"seen", k>>) \/ SeenBy(k, e)'
    <3>1. /\ e \in published /\ e.room = k[1] /\ e.at \in Nat
          /\ flight[x].batch.lastSeen[k] >= e.at /\ <<"seen", k>> \in Models("lastSeen", flight[x].batch)
      <4>1. e \in published /\ e.room = k[1]
        BY ZenonT(60) DEF HeldPublished, SentBy, Created
      <4>2. e.at \in Nat
        BY <4>1, EventsAssumption, SMTT(20) DEF TypeOK, EventType
      <4>3. QED
        BY <1>2, <4>1, <4>2, ModelFor, Zenon
    <3>2. CASE SeenBy(k, e)
      BY <1>2, <3>1, <3>2, SeenKept, ZenonT(60)
    <3>3. CASE Awaits(flight[x], "lastSeen", <<"seen", k>>)
      <4>1. \/ Awaits(flight'[x], "lastSeen", <<"seen", k>>)
            \/ subDoc'[k].lastSeenAt >= flight[x].batch.lastSeen[k]
        BY <1>5, <3>1, <3>3, AwaitsStep, Zenon
      <4>2. QED
        <5>1. subDoc'[k].lastSeenAt >= flight[x].batch.lastSeen[k] => subDoc'[k].lastSeenAt >= e.at
          BY <1>2, <3>1, AtLeastTrans, Zenon
        <5>2. QED
          BY <4>1, <5>1, ZenonT(60) DEF SeenBy
    <3>4. QED
      BY <3>2, <3>3, Zenon DEF SubsInFlight
  <2>2. ASSUME NEW e \in Mentioning(flight[x].batch.held, k)
        PROVE  Awaits(flight'[x], "mentions", <<"mention", k>>) \/ Badged(k, e)'
    <3>1. /\ e \in published /\ e.room = k[1] /\ e.at \in Nat
          /\ flight[x].batch.mentions[k] >= e.at /\ <<"mention", k>> \in Models("mentions", flight[x].batch)
      <4>1. e \in published /\ e.room = k[1]
        BY Zenon DEF HeldPublished, Mentioning
      <4>2. e.at \in Nat
        BY <4>1, EventsAssumption, SMTT(20) DEF TypeOK, EventType
      <4>3. QED
        BY <1>2, <4>1, <4>2, ModelFor, Zenon
    <3>2. CASE Badged(k, e)
      BY <1>2, <3>1, <3>2, SeenKept, ZenonT(60)
    <3>3. CASE Awaits(flight[x], "mentions", <<"mention", k>>)
      <4>1. \/ Awaits(flight'[x], "mentions", <<"mention", k>>)
            \/ subDoc'[k].hasMention \/ subDoc'[k].lastSeenAt >= flight[x].batch.mentions[k]
        BY <1>5, <3>1, <3>3, AwaitsStep, ZenonT(60)
      <4>2. QED
        <5>1. subDoc'[k].lastSeenAt >= flight[x].batch.mentions[k] => subDoc'[k].lastSeenAt >= e.at
          BY <1>2, <3>1, AtLeastTrans, Zenon
        <5>2. QED
          BY <4>1, <5>1, ZenonT(60) DEF Badged, SeenBy
    <3>4. QED
      BY <3>2, <3>3, Zenon DEF SubsInFlight
  <2>3. QED
    BY <1>5, <2>1, <2>2, Zenon
<1>6. QED
  BY <1>3, <1>4, <1>5, FlightBatch, ZenonT(60)

(* What a step acks was acked before, carries no write, or is in a batch whose
   outcome is not transient. *)
LEMMA AckCases ==
  ASSUME [Next]_vars, NEW e \in acked', e \notin acked
  PROVE  \/ e.event = "malformed"
         \/ \E w \in Writers : /\ flight[w].stage = "settle" /\ flight[w].outcome # "transient"
                               /\ e \in flight[w].batch.held
<1>1. ASSUME NEW w \in Writers, settle(w)
      PROVE  /\ flight[w].stage = "settle" /\ flight[w].outcome # "transient"
             /\ e \in flight[w].batch.held
  BY <1>1, Zenon DEF settle
<1>2. ASSUME NEW q \in Replicas, NEW x \in Events, Consume(q, x) PROVE e.event = "malformed"
  BY <1>2, ZenonT(60) DEF Consume
<1>3. CASE UNCHANGED acked
  BY <1>3
<1>4. QED
  BY <1>1, <1>2, <1>3, ZenonT(60)
     DEF Next, WriterStep, vars, consumer, Tick, Publish, Crash, Flush, flushNow, FinalFlush,
         BeginShutdown, flushCancel, Exit, Restart, WriteModel, WriteFails, StageTimeout, EndStage,
         StartRead, UpdateSubscriptionRead, Quiescent

(* One step acks a message only when its sender's position and its mention
   badges are written, and takes neither back but by a late read. *)
LEMMA SubsAckedStep ==
  ASSUME TypeOK, HeldPublished, SubsInFlight, SenderHasRead, BadgeNotLost, [Next]_vars
  PROVE  SenderHasRead' /\ BadgeNotLost'
<1>1. acked \subseteq published /\ Members \subseteq Subs
  BY RoomsAssumption, Zenon DEF TypeOK
<1>2. ASSUME NEW k \in Members \ PoisonSubs, NEW e \in SentBy(acked', k)
      PROVE  subDoc'[k].lastSeenAt >= e.at \/ e \in overrun'[k]
  <2>1. e \in acked' /\ e.room = k[1] /\ e.event # "malformed"
    BY Zenon DEF SentBy, Created
  <2>2. SeenBy(k, e) /\ e \in published
    <3>1. CASE e \in acked
      BY <1>1, <3>1, Zenon DEF SenderHasRead, SentBy, Created, SeenBy
    <3>2. CASE e \notin acked
      <4>1. PICK w \in Writers : /\ flight[w].stage = "settle" /\ flight[w].outcome # "transient"
                                 /\ e \in flight[w].batch.held
        BY <2>1, <3>2, AckCases, Zenon
      <4>2. e \in SentBy(flight[w].batch.held, k) /\ e \in published
        BY <4>1, Zenon DEF SentBy, Created, HeldPublished
      <4>3. ~Awaits(flight[w], "lastSeen", <<"seen", k>>)
        BY <4>1, Zenon DEF Awaits, Ahead, Doomed
      <4>4. QED
        BY <4>2, <4>3, Zenon DEF SubsInFlight
    <3>3. QED
      BY <3>1, <3>2
  <2>3. SeenBy(k, e)'
    BY <1>1, <2>1, <2>2, SeenKept, Zenon
  <2>4. QED
    BY <2>3, ZenonT(60) DEF SeenBy
<1>3. ASSUME NEW k \in Members \ PoisonSubs, NEW e \in Mentioning(acked', k)
      PROVE  subDoc'[k].hasMention \/ subDoc'[k].lastSeenAt >= e.at \/ e \in overrun'[k]
  <2>1. e \in acked' /\ e.room = k[1] /\ e.event # "malformed"
    BY Zenon DEF Mentioning
  <2>2. Badged(k, e) /\ e \in published
    <3>1. CASE e \in acked
      BY <1>1, <3>1, Zenon DEF BadgeNotLost, Mentioning, SeenBy, Badged
    <3>2. CASE e \notin acked
      <4>1. PICK w \in Writers : /\ flight[w].stage = "settle" /\ flight[w].outcome # "transient"
                                 /\ e \in flight[w].batch.held
        BY <2>1, <3>2, AckCases, Zenon
      <4>2. e \in Mentioning(flight[w].batch.held, k) /\ e \in published
        BY <4>1, Zenon DEF Mentioning, HeldPublished
      <4>3. ~Awaits(flight[w], "mentions", <<"mention", k>>)
        BY <4>1, Zenon DEF Awaits, Ahead, Doomed
      <4>4. QED
        BY <4>2, <4>3, ZenonT(60) DEF SubsInFlight
    <3>3. QED
      BY <3>1, <3>2
  <2>3. Badged(k, e)'
    BY <1>1, <2>1, <2>2, SeenKept, Zenon
  <2>4. QED
    BY <2>3, Zenon DEF SeenBy, Badged
<1>4. QED
  BY <1>2, <1>3, Zenon DEF SenderHasRead, BadgeNotLost

(* What a model writes. *)
LEMMA ModelShape ==
  ASSUME NEW m \in ModelType
  PROVE  m[1] \in {"pointer", "max"} \/ (m[1] \in {"seen", "mention"} /\ m = <<m[1], m[2]>>)
  BY DEF ModelType

(* One step badges an account only for an unread mention that is not in its
   own message. *)
LEMMA BadgeStep ==
  ASSUME TypeOK, HeldPublished, Exact, StageToDo, SubsInFlight, [Next]_vars, NEW k \in Subs,
         ~subDoc[k].hasMention, subDoc'[k].hasMention
  PROVE  \E e \in Mentioning(published, k) :
           /\ e.at > subDoc[k].lastSeenAt
           /\ e.event = "updated" \/ e.account # k[2] \/ e \in overrun[k]
<1>1. subDoc[k] \in SubDocType
  BY Zenon DEF TypeOK, SubDocType
<1>2. PICK w \in Writers : \E m \in flight[w].todo : SubStep(w, m, k)
  <2>1. ASSUME NEW now, subDoc'[k] = [lastSeenAt |-> now, hasMention |-> FALSE] PROVE FALSE
    BY <2>1
  <2>2. subDoc'[k] # subDoc[k]
    BY Zenon
  <2>3. QED
    BY <2>1, <2>2, SubCases, ZenonT(60) DEF ReadStep
<1>3. PICK m \in flight[w].todo : SubStep(w, m, k)
  BY <1>2, Zenon
<1>4. /\ flight[w].batch \in BatchType /\ ExactBatch(flight[w].batch)
      /\ m \in Models(flight[w].stage, flight[w].batch) /\ m \in ModelType
      /\ m[1] \notin {"pointer", "max"} /\ m[2] = k /\ k \notin PoisonSubs
      /\ subDoc'[k] = subWrite(m, flight[w].batch)
  BY <1>3, Zenon DEF TypeOK, Exact, StageToDo, SubStep, Poison
<1>5. k \in Members /\ m[1] # "seen" /\ mentionFilter(subDoc[k], flight[w].batch.mentions[k])
  BY <1>1, <1>4, SMTT(60) DEF subWrite, SubDocType
<1>6. m = <<"mention", k>>
  <2>1. \/ m[1] \in {"pointer", "max"}
        \/ m[1] \in {"seen", "mention"} /\ m = <<m[1], m[2]>>
    BY <1>4, ModelShape, Zenon
  <2>2. m[1] = "mention" /\ m = <<m[1], m[2]>>
    BY <1>4, <1>5, <2>1, ZenonT(60)
  <2>3. QED
    BY <1>4, <2>2, Zenon
<1>7. flight[w].stage = "mentions"
  BY <1>4, <1>6, SMTT(60) DEF Models
<1>8. flight[w].batch.mentions[k] \in Nat /\ flight[w].batch.mentions[k] > subDoc[k].lastSeenAt
  <2>1. flight[w].batch.mentions \in [Subs -> Nat] /\ k \in Subs /\ subDoc[k].lastSeenAt \in Nat
    BY <1>1, <1>4, <1>5, RoomsAssumption, ZenonT(60) DEF BatchType, SubDocType
  <2>2. ~(subDoc[k].lastSeenAt >= flight[w].batch.mentions[k])
    BY <1>5, Zenon DEF mentionFilter
  <2>3. flight[w].batch.mentions[k] \in Nat
    BY <2>1, Zenon
  <2>4. QED
    BY <2>1, <2>2, <2>3
<1>9. PICK e \in Mentioning(flight[w].batch.held, k) : flight[w].batch.mentions[k] = e.at
  <2>1. flight[w].batch.mentions[k] # 0
    BY <1>1, <1>8 DEF SubDocType
  <2>2. IsLatest(flight[w].batch.mentions[k], Mentioning(flight[w].batch.held, k))
    BY <1>4, Zenon DEF ExactBatch
  <2>3. QED
    BY <2>1, <2>2, ZenonT(60) DEF IsLatest
<1>10. e \in Mentioning(published, k) /\ e.at > subDoc[k].lastSeenAt /\ e.at \in Nat
  BY <1>8, <1>9, ZenonT(60) DEF Mentioning, HeldPublished
<1>11. ASSUME e.event # "updated", e.account = k[2] PROVE e \in overrun[k]
  <2>1. e \in SentBy(flight[w].batch.held, k)
    BY <1>9, <1>11, Zenon DEF Mentioning, SentBy, Created
  <2>2. ~Awaits(flight[w], "lastSeen", <<"seen", k>>)
    BY <1>7, Zenon DEF Awaits, Ahead, Doomed
  <2>3. SeenBy(k, e)
    BY <1>4, <1>5, <2>1, <2>2, ZenonT(60) DEF SubsInFlight
  <2>4. QED
    BY <1>1, <1>10, <2>3 DEF SeenBy, SubDocType
<1>12. QED
  BY <1>10, <1>11, Zenon

-----------------------------------------------------------------------------
(* A step of a writer leaves an idle flight idle. *)
LEMMA IdleStays ==
  ASSUME TypeOK, NEW w \in Writers,
         WriteModel(w) \/ WriteFails(w) \/ StageTimeout(w) \/ EndStage(w) \/ settle(w)
  PROVE  /\ UNCHANGED <<mode, pending, due>>
         /\ \A x \in Writers : flight[x].stage = "idle" => flight'[x].stage = "idle"
<1>1. flight \in [Writers -> FlightType]
  BY Zenon DEF TypeOK, FlightType
<1>2. UNCHANGED <<mode, pending, due>> /\ flight[w].stage # "idle"
  BY Zenon DEF WriteModel, WriteFails, StageTimeout, EndStage, settle, Writing, Stages
<1>3. \A x \in Writers : x # w => flight'[x] = flight[x]
  BY <1>1, Zenon DEF WriteModel, WriteFails, StageTimeout, EndStage, settle
<1>4. QED
  BY <1>2, <1>3, ZenonT(60)

(* One step keeps the order of an orderly shutdown: consume loop drained, then
   the flusher cancelled, then the final batch settled. *)
LEMMA StoppingStep ==
  ASSUME TypeOK, Stopping, [Next]_vars
  PROVE  Stopping'
<1> USE DEF worker
<1>1. /\ flight \in [Writers -> FlightType] /\ pending \in [Replicas -> BatchType]
      /\ mode \in [Replicas -> {"running", "stopping", "cancelled", "final", "stopped"}]
      /\ due \in [Replicas -> BOOLEAN]
  BY Zenon DEF TypeOK, FlightType
<1> SUFFICES ASSUME NEW r \in Replicas
             PROVE  /\ mode'[r] \in {"cancelled", "final", "stopped"} =>
                         ~due'[r] /\ flight'[<<r, "loop">>].stage = "idle"
                    /\ mode'[r] \in {"final", "stopped"} => pending'[r].held = {}
                    /\ mode'[r] = "stopped" => flight'[<<r, "ticker">>].stage = "idle"
  BY Zenon DEF Stopping
<1>2. /\ mode[r] \in {"cancelled", "final", "stopped"} =>
           ~due[r] /\ flight[<<r, "loop">>].stage = "idle"
      /\ mode[r] \in {"final", "stopped"} => pending[r].held = {}
      /\ mode[r] = "stopped" => flight[<<r, "ticker">>].stage = "idle"
      /\ <<r, "loop">> \in Writers /\ <<r, "ticker">> \in Writers
  BY Zenon DEF Stopping, Writers
<1>3. CASE /\ mode'[r] = mode[r] /\ due'[r] = due[r] /\ pending'[r] = pending[r]
           /\ \A x \in Writers : x[1] = r => flight'[x] = flight[x]
  BY <1>2, <1>3, Zenon
<1>4. CASE mode'[r] \in {"running", "stopping"}
  BY <1>4, Zenon
<1>5. ASSUME NEW q \in Replicas, NEW e \in Events, Consume(q, e)
      PROVE  mode'[r] \in {"running", "stopping"} \/ UNCHANGED <<mode[r], due[r], pending[r], flight>>
  BY <1>1, <1>5, Zenon DEF Consume
<1>6. ASSUME NEW q \in Replicas, Crash(q)
      PROVE  \/ mode'[r] \in {"running", "stopping"}
             \/ /\ UNCHANGED <<mode[r], due[r], pending[r]>>
                /\ \A x \in Writers : x[1] = r => flight'[x] = flight[x]
  BY <1>1, <1>6, Zenon DEF Crash
<1>7. ASSUME NEW q \in Replicas, BeginShutdown(q) \/ Restart(q)
      PROVE  mode'[r] \in {"running", "stopping"} \/ UNCHANGED <<mode[r], due, pending, flight>>
  BY <1>1, <1>7, ZenonT(60) DEF BeginShutdown, Restart
<1>8. ASSUME NEW q \in Replicas, q # r, Flush(q) \/ flushNow(q) \/ FinalFlush(q) \/ flushCancel(q) \/ Exit(q)
      PROVE  /\ UNCHANGED <<mode[r], due[r], pending[r]>>
             /\ \A x \in Writers : x[1] = r => flight'[x] = flight[x]
  <2>1. UNCHANGED <<mode[r], due[r]>>
    BY <1>1, <1>8, ZenonT(60) DEF Flush, flushNow, FinalFlush, flushCancel, Exit
  <2>2. \/ \E y \in {<<q, "ticker">>, <<q, "loop">>} : SwapOut(q, y)
        \/ UNCHANGED <<pending, flight>>
    BY <1>8, ZenonT(60) DEF Flush, flushNow, FinalFlush, flushCancel, Exit
  <2>3. CASE UNCHANGED <<pending, flight>>
    BY <2>1, <2>3, Zenon
  <2>4. ASSUME NEW y \in {<<q, "ticker">>, <<q, "loop">>}, SwapOut(q, y)
        PROVE  pending'[r] = pending[r] /\ \A x \in Writers : x[1] = r => flight'[x] = flight[x]
    <3>1. \/ UNCHANGED <<pending, flight>>
          \/ \E f, b : flight' = [flight EXCEPT ![y] = f] /\ pending' = [pending EXCEPT ![q] = b]
      BY <2>4, Zenon DEF SwapOut
    <3>2. \A x \in Writers : x[1] = r => x # y
      BY <1>8 DEF Writers
    <3>3. QED
      BY <1>1, <1>8, <3>1, <3>2, ZenonT(60)
  <2>5. QED
    BY <2>1, <2>2, <2>3, <2>4, Zenon
<1>9. CASE Flush(r) \/ flushNow(r)
  <2>1. mode[r] \in {"running", "stopping"} \/ (due[r] /\ mode' = mode)
    BY <1>9, Zenon DEF Flush, flushNow
  <2>2. mode'[r] \in {"running", "stopping"}
    BY <1>1, <1>2, <1>9, <2>1, Zenon DEF Flush, flushNow
  <2>3. QED
    BY <1>4, <2>2, Zenon
<1>10. CASE flushCancel(r)
  BY <1>1, <1>2, <1>10, Zenon DEF flushCancel
<1>11. CASE Exit(r)
  BY <1>1, <1>2, <1>11, Zenon DEF Exit
<1>12. CASE FinalFlush(r)
  <2>1. mode[r] = "cancelled" /\ mode'[r] = "final" /\ due' = due
    BY <1>1, <1>12, Zenon DEF FinalFlush
  <2>2. pending'[r].held = {}
    BY <1>1, <1>12, NewBatch, Zenon DEF FinalFlush, SwapOut
  <2>3. flight'[<<r, "loop">>] = flight[<<r, "loop">>]
    BY <1>1, <1>2, <1>12, Zenon DEF FinalFlush, SwapOut
  <2>4. QED
    BY <1>2, <2>1, <2>2, <2>3, ZenonT(60)
<1>13. ASSUME NEW w \in Writers,
              WriteModel(w) \/ WriteFails(w) \/ StageTimeout(w) \/ EndStage(w) \/ settle(w)
       PROVE  /\ mode'[r] \in {"cancelled", "final", "stopped"} =>
                   ~due'[r] /\ flight'[<<r, "loop">>].stage = "idle"
              /\ mode'[r] \in {"final", "stopped"} => pending'[r].held = {}
              /\ mode'[r] = "stopped" => flight'[<<r, "ticker">>].stage = "idle"
  BY <1>2, <1>13, IdleStays, Zenon
<1>14. ASSUME NEW q \in Replicas,
              \/ Flush(q) \/ flushNow(q) \/ FinalFlush(q) \/ flushCancel(q) \/ Exit(q)
              \/ Crash(q) \/ BeginShutdown(q) \/ Restart(q)
       PROVE  /\ mode'[r] \in {"cancelled", "final", "stopped"} =>
                   ~due'[r] /\ flight'[<<r, "loop">>].stage = "idle"
              /\ mode'[r] \in {"final", "stopped"} => pending'[r].held = {}
              /\ mode'[r] = "stopped" => flight'[<<r, "ticker">>].stage = "idle"
  <2>1. CASE q = r
    <3>1. CASE Flush(r) \/ flushNow(r) \/ FinalFlush(r) \/ flushCancel(r) \/ Exit(r)
      BY <1>9, <1>10, <1>11, <1>12, <3>1, ZenonT(60)
    <3>2. CASE Crash(r)
      BY <1>3, <1>4, <1>6, <3>2, ZenonT(60)
    <3>3. CASE BeginShutdown(r) \/ Restart(r)
      BY <1>3, <1>4, <1>7, <3>3, ZenonT(60)
    <3>4. QED
      BY <1>14, <2>1, <3>1, <3>2, <3>3, ZenonT(60)
  <2>2. CASE q # r
    BY <1>3, <1>4, <1>6, <1>7, <1>8, <1>14, <2>2, ZenonT(60)
  <2>3. QED
    BY <2>1, <2>2, Zenon
<1>15. ASSUME NEW q \in Replicas, NEW e \in Events, Consume(q, e)
       PROVE  /\ mode'[r] \in {"cancelled", "final", "stopped"} =>
                   ~due'[r] /\ flight'[<<r, "loop">>].stage = "idle"
              /\ mode'[r] \in {"final", "stopped"} => pending'[r].held = {}
              /\ mode'[r] = "stopped" => flight'[<<r, "ticker">>].stage = "idle"
  BY <1>3, <1>4, <1>5, <1>15, ZenonT(60)
<1>16. CASE UNCHANGED <<mode, pending, due, flight>>
  BY <1>2, <1>16, Zenon
<1>17. QED
  BY <1>13, <1>14, <1>15, <1>16, ZenonT(60)
     DEF Next, WriterStep, vars, Tick, Publish, StartRead, UpdateSubscriptionRead, Quiescent

-----------------------------------------------------------------------------
(* The inductive invariant: XInv, with what flights owe
   subscriptions and how far a stopping replica has got. *)
EInv == XInv /\ SubsInFlight /\ Stopping /\ SenderHasRead /\ BadgeNotLost

(* The inductive invariant holds initially. *)
LEMMA InitSubs == Init => EInv
<1> SUFFICES ASSUME Init PROVE EInv
  OBVIOUS
<1>1. XInv
  BY InitExact
<1>2. /\ \A w \in Writers : flight[w] = Idle /\ flight[w].batch = newBatch
      /\ \A r \in Replicas : pending[r] = newBatch /\ mode[r] = "running"
  BY FlightShape, Zenon DEF Init
<1>3. Idle.todo = {} /\ Idle.batch.held = {}
  BY Zenon DEF Idle, newBatch
<1>4. SubsInFlight
  BY <1>2, <1>3, Zenon DEF SubsInFlight, SentBy, Created, Mentioning
<1>5. Stopping
  BY <1>2, Zenon DEF Stopping
<1>6. SenderHasRead /\ BadgeNotLost
  BY Zenon DEF Init, SenderHasRead, BadgeNotLost, SentBy, Created, Mentioning
<1>7. QED
  BY <1>1, <1>4, <1>5, <1>6, SMTT(60) DEF EInv

(* Every step keeps the inductive invariant. *)
LEMMA NextSubs == EInv /\ [Next]_vars => EInv'
<1> SUFFICES ASSUME EInv, [Next]_vars PROVE EInv'
  OBVIOUS
<1>1. /\ XInv' /\ IInv' /\ IInv /\ TypeOK /\ HeldPublished
      /\ Exact /\ StageToDo /\ Exact' /\ StageToDo'
  BY NextExact, Zenon DEF EInv, XInv, IInv
<1>2. SubsInFlight'
  BY <1>1, SubsInFlightStep DEF EInv
<1>3. SenderHasRead' /\ BadgeNotLost'
  BY <1>1, SubsAckedStep DEF EInv
<1>4. Stopping'
  BY <1>1, StoppingStep, SMTT(60) DEF EInv
<1>5. QED
  BY <1>1, <1>2, <1>3, <1>4, ZenonT(60) DEF EInv

(* The inductive invariant holds always: flights account for every subscription
   write their events call for. *)
THEOREM SubsInvariance == Spec => []EInv
  BY InitSubs, NextSubs, PTL DEF Spec

(* Once a message is acknowledged its sender has read it, whatever other document
   of the batch failed (BulkAdvanceLastSeen). *)
THEOREM SendersHaveRead == Spec => []SenderHasRead
<1>1. EInv => SenderHasRead
  BY DEF EInv
<1>2. QED
  BY <1>1, SubsInvariance, PTL

(* Once a mention is acknowledged the account is badged or has read past it,
   unless a read written late ran over it (BulkSetMentions). *)
THEOREM NoBadgeLost == Spec => []BadgeNotLost
<1>1. EInv => BadgeNotLost
  BY DEF EInv
<1>2. QED
  BY <1>1, SubsInvariance, PTL

(* No batch, however late or often it is written, badges an account for a
   mention it has read or made itself (mentionFilter after the lastSeen stage). *)
THEOREM NoFalseBadge == Spec => BadgeOnlyForUnread
<1>1. EInv /\ [Next]_vars =>
        [\A k \in Subs : ~subDoc[k].hasMention /\ subDoc'[k].hasMention =>
           \E e \in Mentioning(published, k) :
             /\ e.at > subDoc[k].lastSeenAt
             /\ e.event = "updated" \/ e.account # k[2] \/ e \in overrun[k]]_vars
  BY BadgeStep, Zenon DEF EInv, XInv, IInv
<1>2. QED
  BY <1>1, SubsInvariance, PTL DEF Spec, BadgeOnlyForUnread

(* A replica that stopped in order holds no batch and has none in flight (main:
   iterator, consume loop, flusher, in this order). *)
THEOREM OrderlyStop == Spec => []GracefulStopHoldsNothing
<1>1. EInv => GracefulStopHoldsNothing
  <2>1. \A w \in Writers : \A r \in Replicas : w[1] = r => w = <<r, "ticker">> \/ w = <<r, "loop">>
    BY DEF Writers
  <2>2. QED
    BY <2>1, Zenon DEF EInv, Stopping, GracefulStopHoldsNothing
<1>2. QED
  BY <1>1, SubsInvariance, PTL
=============================================================================
