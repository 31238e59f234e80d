---------------------- MODULE FederationConvergeProofs ----------------------
(***************************************************************************)
(* Proofs about Federation, continued: for an account that stays a member, *)
(* and with one operation in progress at a time, the replica is a past     *)
(* state of the origin, and its present state once nothing is in flight.   *)
(***************************************************************************)
EXTENDS FederationProofs

Steady == work.member /\ "add" \notin Ops(work) /\ "remove" \notin Ops(work)
Kept == Slots \ Unstamped

OriginMark(x) == MarkOf(origin, tsubs.origin, x)
OriginValue(x) == ValueOf(origin, x)
ReplicaMark(x) == MarkOf(replica, tsubs.replica, x)
ReplicaValue(x) == ValueOf(replica, x)

(* The step of a handler that writes a slot. *)
Writes(x) == IF x = "thread" THEN "tsub" ELSE "sub"

(* Published and not settled; among these, still to be applied. *)
Waiting(e) == (\E i \in 1..Len(ordered) : ordered[i] = e) \/ e \in concurrent
Sent(e) == Waiting(e) \/ \E m \in pool : m.e = e
Queued(e) == Waiting(e) \/ \E m \in pool : m.e = e /\ m.step = "apply"

(* Both documents stay, and nothing travels on the membership lane. *)
Exist == /\ SiteOK(origin, tsubs.origin)
         /\ origin.exists /\ replica.exists /\ tsubs.origin.exists /\ tsubs.replica.exists
         /\ membershipCh = <<>> /\ parked = {}
(* One operation at a time, its stamp not older than any mark. *)
OneRpc == /\ \A r, s \in rpcs : r = s
          /\ \A r \in rpcs : /\ r.at = clock
                             /\ r.op # "mention" => "publish" \in r.todo
                             /\ r.op = "rename" => r.ev.v = r.arg
          /\ \A x \in Slots : OriginMark(x) <= clock
(* A slot it carries has the stamp once its step is done, and not before; a rename
   that starts again finds its own. *)
Written(r, x) == OriginMark(x) = r.at /\ (x \in Kept => OriginValue(x) = CarriedValue(r.ev, x))
RpcWrites ==
  \A r \in rpcs : \A x \in Slots \cap Carried(r.ev.type) :
    /\ Writes(x) \in r.todo => OriginMark(x) < r.at \/ (r.op = "rename" /\ Written(r, x))
    /\ Writes(x) \notin r.todo => Written(r, x)
SentArePast ==
  \A e \in SentBy(work) : Sent(e) => \A x \in Slots \cap Carried(e.type) :
    /\ e.at <= OriginMark(x)
    /\ x \in Kept /\ e.at = OriginMark(x) => CarriedValue(e, x) = OriginValue(x)
ReplicaPast ==
  \A x \in Slots :
    /\ ReplicaMark(x) <= OriginMark(x)
    /\ x \in Kept /\ ReplicaMark(x) = OriginMark(x) => ReplicaValue(x) = OriginValue(x)
(* The newest event of a slot has been applied, is lost, or is on its way. *)
OnItsWay(x, e) == x \in Carried(e.type) /\ e.at = OriginMark(x)
Underway(x) == \/ ReplicaMark(x) = OriginMark(x) \/ Lost(OriginMark(x))
               \/ \E r \in rpcs : OnItsWay(x, r.ev)
               \/ \E e \in SentBy(work) : Queued(e) /\ OnItsWay(x, e)
AllUnderway == \A x \in Slots : Underway(x)

SInv == Exist /\ OneRpc /\ RpcWrites /\ SentArePast /\ ReplicaPast /\ AllUnderway
(* An account that was not a member gets its subscription from an add. *)
Known == origin.exists => work.member \/ "add" \in Ops(work)
CInv == MInv /\ Known /\ (Steady => SInv)

-----------------------------------------------------------------------------
(* The room's site: a write with a new stamp is the write inbox-worker makes of *)
(* its event.                                                              *)

(* Documents with the same marks and values. *)
Alike(d, d2) ==
  d2 \in Subs /\ d2.exists = d.exists /\ d2.at = d.at /\ d2.val = d.val /\ d2.seen = d.seen

(* Applying an event is about marks and values; other fields do not matter. *)
LEMMA AlikeRegisters ==
  ASSUME NEW e, NEW d, NEW th, NEW d2, NEW d3, NEW th2, InboxOK(e, d, th, d2, th2), Alike(d2, d3)
  PROVE  InboxOK(e, d, th, d3, th2)
<1>1. \A x \in Slots : MarkOf(d3, th2, x) = MarkOf(d2, th2, x) /\ ValueOf(d3, x) = ValueOf(d2, x)
  BY DEF Alike, MarkOf, ValueOf
<1>2. Registers(e, d, th, d3, th2)
  BY <1>1 DEF InboxOK, Registers
<1>3. QED
  BY <1>2 DEF InboxOK, SiteOK, Alike

(* The stamp is newer than what the event carries, or the write has been made. *)
Fresh(type, t) ==
  \A x \in Carried(type) : OriginMark(x) < t \/ (x \in {"name", "thread"} /\ OriginMark(x) = t)

(* StampIs for the favorite field. *)
LEMMA FavoriteStamp ==
  ASSUME NEW d \in Subs, NEW v \in Strings, NEW t \in Nat
  PROVE  /\ Stamp(d, "favorite", v, t) \in Subs
         /\ Stamp(d, "favorite", v, t).val = [d.val EXCEPT !["favorite"] = v]
<1>1. "favorite" \in Fields
  BY DEF Fields
<1>2. QED
  BY <1>1, Zenon DEF Stamp, Subs

(* Under a new stamp, what a handler writes at the origin is what inbox-worker would
   write there on the handler's event. *)
LEMMA HandlerWrites ==
  ASSUME Types, origin.exists, tsubs.origin.exists,
         NEW h, NEW op \in OpNames \ {"add", "remove"}, NEW arg, NEW t \in Nat, NEW inputs,
         HandledAs(h, op, arg, t, inputs), Fresh(EventType(op), t), h.sub \in Subs
  PROVE  LET e == Event(h, t) IN
         Alike(InboxWrite(e, origin), h.sub) /\ h.thread = InboxThreadWrite(e, tsubs.origin)
<1> DEFINE e == Event(h, t)
           th == tsubs.origin
<1>1. origin \in Subs /\ th \in Threads
  BY DEF Types
<1>2. e.type = h.type /\ e.v = h.v /\ e.at = t
  BY DEF Event
<1>3. \A f \in Fields : f \notin {"seen", "thread"}
  BY DEF Fields
<1> SUFFICES Alike(InboxWrite(e, origin), h.sub) /\ h.thread = InboxThreadWrite(e, th)
  OBVIOUS
<1> HIDE DEF e
<1>4. CASE op = "mute"
  <2>1. /\ e.type = "subscription_mute_toggled" /\ e.v = h.sub.val["mute"]
        /\ h.sub = Stamp(origin, "mute", Flip(origin.val["mute"]), t) /\ h.thread = th
    BY <1>2, <1>4, TypesOfOps, ZenonT(60) DEF HandledAs, Handles, ToggleSubscriptionMute
  <2>2. e.v = Flip(origin.val["mute"])
    BY <1>1, <2>1 DEF Stamp, Subs, Fields
  <2>3. Newer(origin, "mute", t)
    BY <1>4, TypesOfOps, CarriedIs DEF Fresh, OriginMark, MarkOf, Newer
  <2>4. QED
    BY <1>2, <2>1, <2>2, <2>3, Zenon DEF InboxWrite, InboxThreadWrite, inboxUpdateSubscriptionMute, Alike
<1>5. CASE op = "favorite"
  <2>1. /\ e.type = "subscription_favorite_toggled" /\ e.v = h.sub.val["favorite"]
        /\ h.sub = ToggleSubscriptionFavorite(origin, t) /\ h.thread = th
    BY <1>2, <1>5, TypesOfOps, ZenonT(60) DEF HandledAs, Handles
  <2> DEFINE v == Flip(origin.val["favorite"])
             s == Stamp(origin, "favorite", v, t)
  <2>2. h.sub = IF v = "off" THEN LeaveFavorites(s) ELSE s
    BY <2>1 DEF ToggleSubscriptionFavorite, Flip
  <2>3. v \in Strings /\ "favorite" \in Fields
    BY DEF Flip, Strings, Fields
  <2> HIDE DEF v
  <2>4. s \in Subs /\ s.val["favorite"] = v
    <3>1. s \in Subs /\ s.val = [origin.val EXCEPT !["favorite"] = v]
      BY <1>1, <2>3, FavoriteStamp
    <3>2. QED
      BY <1>1, <2>3, <3>1 DEF Subs
  <2>5. e.v = v
    BY <2>1, <2>2, <2>3, <2>4, LeaveIs
  <2>6. Newer(origin, "favorite", t)
    BY <1>5, TypesOfOps, CarriedIs DEF Fresh, OriginMark, MarkOf, Newer
  <2>7. QED
    BY <1>2, <2>1, <2>2, <2>5, <2>6, ZenonT(60) DEF InboxWrite, InboxThreadWrite, inboxUpdateSubscriptionFavorite, Alike
<1>6. CASE op = "move"
  <2>1. /\ e.type = "subscription_section_moved" /\ e.v = arg
        /\ h.sub = MoveSubscriptionSection(origin, arg, t) /\ h.thread = th
    BY <1>2, <1>6, TypesOfOps, ZenonT(60) DEF HandledAs, Handles
  <2>2. Newer(origin, "section", t)
    BY <1>6, TypesOfOps, CarriedIs DEF Fresh, OriginMark, MarkOf, Newer
  <2>3. QED
    BY <1>2, <2>1, <2>2 DEF InboxWrite, InboxThreadWrite, inboxUpdateSubscriptionSection, Alike
<1>7. CASE op = "role"
  <2>1. /\ e.type = "role_updated" /\ e.v = arg
        /\ h.sub = Stamp(origin, "roles", arg, t) /\ h.thread = th
    BY <1>2, <1>7, TypesOfOps, ZenonT(60) DEF HandledAs, Handles, SetOwnerRole
  <2>2. Newer(origin, "roles", t)
    BY <1>7, TypesOfOps, CarriedIs DEF Fresh, OriginMark, MarkOf, Newer
  <2>3. QED
    BY <1>2, <2>1, <2>2 DEF InboxWrite, InboxThreadWrite, inboxUpdateSubscriptionRoles, Alike
<1>8. CASE op = "restrict"
  <2>1. /\ e.type = "room_restricted" /\ e.v = arg
        /\ h.sub = ApplySubscriptionRestriction(origin, Restricted(arg), Owner(arg), t) /\ h.thread = th
    BY <1>2, <1>8, TypesOfOps, ZenonT(60) DEF HandledAs, Handles
  <2>2. Newer(origin, "restrict", t)
    BY <1>8, TypesOfOps, CarriedIs DEF Fresh, OriginMark, MarkOf, Newer
  <2>3. QED
    BY <1>2, <2>1, <2>2 DEF InboxWrite, InboxThreadWrite, inboxApplySubscriptionRestriction, Alike
<1>9. CASE op = "rename"
  <2>1. /\ e.type = "room_renamed" /\ e.v = arg
        /\ h.sub = UpdateSubscriptionNamesForRoom(origin, arg, t) /\ h.thread = th
    BY <1>2, <1>9, TypesOfOps, ZenonT(60) DEF HandledAs, Handles
  <2>2. QED
    BY <1>2, <2>1 DEF InboxWrite, InboxThreadWrite, Alike
<1>10. CASE op = "read"
  <2>1. /\ e.type = "subscription_read"
        /\ h.sub = UpdateSubscriptionRead(origin, t) /\ h.thread = th
    BY <1>2, <1>10, TypesOfOps, ZenonT(60) DEF HandledAs, Handles
  <2>2. origin.seen < t
    BY <1>10, TypesOfOps, CarriedIs DEF Fresh, OriginMark, MarkOf
  <2>3. InboxWrite(e, origin) = [origin EXCEPT !.seen = t]
    BY <1>2, <2>1, <2>2 DEF InboxWrite, inboxUpdateSubscriptionRead
  <2>4. InboxThreadWrite(e, th) = th
    BY <2>1 DEF InboxThreadWrite
  <2>5. QED
    BY <1>1, <2>1, <2>3, <2>4 DEF UpdateSubscriptionRead, Alike, Subs
<1>11. CASE op \in {"threadRead", "threadReadAll"}
  <2>1. /\ e.type \in {"thread_read", "thread_read_all"}
        /\ h.sub = PullThreadUnread(origin) /\ h.thread = SeenAt(th, t)
    BY <1>2, <1>11, TypesOfOps, ZenonT(60) DEF HandledAs, Handles
  <2>2. th.seen < t \/ th.seen = t
    BY <1>11, TypesOfOps, CarriedIs DEF Fresh, OriginMark, MarkOf
  <2>3. InboxWrite(e, origin) = origin
    BY <2>1 DEF InboxWrite
  <2>4. InboxThreadWrite(e, th) = IF th.seen < t THEN [th EXCEPT !.seen = t] ELSE th
    BY <1>2, <2>1 DEF InboxThreadWrite
  <2>5. h.thread = [th EXCEPT !.seen = t]
    BY <2>1 DEF SeenAt
  <2>6. th.seen = t => [th EXCEPT !.seen = t] = th
    BY <1>1 DEF Threads
  <2>7. h.thread = InboxThreadWrite(e, th)
    BY <2>2, <2>4, <2>5, <2>6
  <2>8. Alike(origin, h.sub)
    BY <1>1, <2>1, ZenonT(60) DEF PullThreadUnread, Alike, Subs
  <2>9. QED
    BY <2>3, <2>7, <2>8
<1>12. CASE op \in {"follow", "reply", "mention"}
  <2>1. /\ e.type \in {"thread_subscription_upserted", "thread_unread_added", "subscription_mention"}
        /\ h.sub \in {origin, AddThreadUnread(origin), SetMention(origin, t)} /\ h.thread = th
    BY <1>2, <1>12, TypesOfOps, ZenonT(60) DEF HandledAs, Handles
  <2>2. InboxWrite(e, origin) \in {origin, AddThreadUnread(origin), inboxSetSubscriptionMentions(origin, e.at)}
    BY <2>1 DEF InboxWrite
  <2>3. InboxThreadWrite(e, th) = th
    BY <2>1 DEF InboxThreadWrite
  <2> DEFINE d == InboxWrite(e, origin)
  <2>4. d.exists = origin.exists /\ d.at = origin.at /\ d.val = origin.val /\ d.seen = origin.seen
    <3> HIDE DEF d
    <3>1. QED
      BY <1>1, <2>2, ZenonT(60) DEF d, AddThreadUnread, inboxSetSubscriptionMentions, Subs
  <2>5. Alike(origin, h.sub)
    BY <1>1, <2>1, ZenonT(60) DEF AddThreadUnread, SetMention, Subs, Alike
  <2>6. QED
    BY <2>1, <2>3, <2>4, <2>5 DEF Alike
<1>13. QED
  BY <1>4, <1>5, <1>6, <1>7, <1>8, <1>9, <1>10, <1>11, <1>12, SMTT(60) DEF OpNames

(* Events carry slots. *)
LEMMA CarriedSlots ==
  ASSUME Types, NEW e \in SentBy(work)
  PROVE  Carried(e.type) \subseteq Slots
  BY SentByOps, CarriedIs DEF OrderedEventTypes, ConcurrentEventTypes, Slots, Fields

(* The operations of a member who stays one, and the step that writes what they carry. *)
LEMMA SteadyOps ==
  ASSUME Types, Steady, NEW r \in RpcsOf(work)
  PROVE  /\ r.op \in OpNames \ {"add", "remove"}
         /\ \A x \in Carried(r.ev.type) : x \in Slots /\ Writes(x) \in TodoOf(r.op)
         /\ "tsub" \in r.todo => Carried(r.ev.type) \subseteq {"thread"}
         /\ r.op = "mention" => Carried(r.ev.type) = {}
         /\ r.op = "rename" => Carried(r.ev.type) = {"name"}
         /\ r.op \in {"follow", "reply"} => Carried(r.ev.type) = {}
         /\ "publish" \in TodoOf(r.op)
<1>1. /\ r.ev.type = EventType(r.op) /\ <<r.op, r.arg>> \in work.ops /\ r.todo \subseteq TodoOf(r.op)
      /\ r.op \in OpNames
  BY DEF RpcsOf
<1> DEFINE op == r.op
<1>2. op \in Ops(work)
  BY <1>1 DEF Ops
<1>3. op \in OpNames \ {"add", "remove"}
  BY <1>1, <1>2 DEF Steady
<1> HIDE DEF op
<1>4. \A x \in Carried(EventType(op)) : x \in Slots /\ Writes(x) \in TodoOf(op)
  BY <1>3, TypesOfOps, CarriedIs DEF OpNames, Slots, Fields, Writes, TodoOf, Todo
<1>5. "tsub" \in TodoOf(op) => Carried(EventType(op)) \subseteq {"thread"}
  BY <1>3, TypesOfOps, CarriedIs DEF OpNames, TodoOf, Todo
<1>6. /\ op = "mention" => Carried(EventType(op)) = {}
      /\ op = "rename" => Carried(EventType(op)) = {"name"}
      /\ op \in {"follow", "reply"} => Carried(EventType(op)) = {}
  BY TypesOfOps, CarriedIs
<1>7. "publish" \in TodoOf(op)
  BY DEF TodoOf, Todo
<1>8. QED
  BY <1>1, <1>3, <1>4, <1>5, <1>6, <1>7, SMTT(60) DEF op

(* The stamp of an operation that has not written is new. *)
LEMMA RpcFresh ==
  ASSUME Types, Steady, RpcWrites, NEW r \in rpcs, "sub" \in r.todo \/ "tsub" \in r.todo
  PROVE  Fresh(r.ev.type, r.at)
<1>1. r \in RpcsOf(work)
  BY DEF Types
<1>2. /\ \A x \in Carried(r.ev.type) : x \in Slots /\ Writes(x) \in TodoOf(r.op)
      /\ "tsub" \in r.todo => Carried(r.ev.type) \subseteq {"thread"}
      /\ r.op = "rename" => Carried(r.ev.type) = {"name"}
  BY <1>1, SteadyOps
<1>3. ASSUME NEW x \in Carried(r.ev.type)
      PROVE  OriginMark(x) < r.at \/ (x \in {"name", "thread"} /\ OriginMark(x) = r.at)
  <2>1. /\ Writes(x) \in r.todo => OriginMark(x) < r.at \/ (r.op = "rename" /\ OriginMark(x) = r.at)
        /\ Writes(x) \notin r.todo => OriginMark(x) = r.at
    BY <1>2, <1>3 DEF RpcWrites, Written
  <2>2. x # "thread" => Writes(x) \in r.todo
    BY <1>2, <1>3 DEF Writes
  <2>3. QED
    BY <1>2, <1>3, <2>1, <2>2
<1>4. QED
  BY <1>3 DEF Fresh

(* Hence the origin's slots are registers too. *)
LEMMA OriginRegisters ==
  ASSUME Types, Apart(work), Steady, Exist, RpcWrites, NEW r \in rpcs, "sub" \in r.todo \/ "tsub" \in r.todo
  PROVE  /\ InboxOK(Event(Now(r), r.at), origin, tsubs.origin, Now(r).sub, Now(r).thread)
         /\ Now(r).found
<1>1. /\ r \in RpcsOf(work) /\ r.ev.type = EventType(r.op) /\ r.at \in Nat
  BY SMTT(60) DEF Types, RpcsOf
<1>2. /\ Now(r).sub \in Subs /\ Event(Now(r), r.at) \in SentBy(work)
  BY NowIs
<1>3. Fresh(r.ev.type, r.at) /\ r.op \in OpNames \ {"add", "remove"}
  BY <1>1, RpcFresh, SteadyOps
<1>4. origin.exists /\ tsubs.origin.exists /\ SiteOK(origin, tsubs.origin)
  BY DEF Exist
<1> DEFINE op == r.op
           arg == r.arg
           t == r.at
           in == r.inputs
           h == HandlerOf(op, arg, t, in)
           e == Event(h, t)
<1>5. Now(r) = h
  BY DEF Now
<1>6. /\ op \in OpNames \ {"add", "remove"} /\ t \in Nat /\ Fresh(EventType(op), t)
      /\ h.sub \in Subs /\ e \in SentBy(work)
  BY <1>1, <1>2, <1>3, <1>5
<1> HIDE DEF op, arg, t, in
<1>7. HandledAs(h, op, arg, t, in)
  BY HandlersAre
<1>8. h.found
  BY <1>4, <1>6, FoundIs
<1> HIDE DEF h
<1>9. Alike(InboxWrite(e, origin), h.sub) /\ h.thread = InboxThreadWrite(e, tsubs.origin)
  BY <1>4, <1>6, <1>7, HandlerWrites, ZenonT(60)
<1> HIDE DEF e
<1>10. InboxOK(e, origin, tsubs.origin, InboxWrite(e, origin), InboxThreadWrite(e, tsubs.origin))
  BY <1>4, <1>6, InboxRegisters
<1>11. InboxOK(e, origin, tsubs.origin, h.sub, h.thread)
  BY <1>9, <1>10, AlikeRegisters
<1>12. QED
  BY <1>5, <1>8, <1>11 DEF e, t

(* What one step of a handler does to the origin. *)
Moves(step, e, x) == x \in Carried(e.type) /\ Writes(x) = step /\ OriginMark(x) < e.at
SameAt(x) == OriginMark(x)' = OriginMark(x) /\ (x \in Kept => OriginValue(x)' = OriginValue(x))
MovesTo(step, e) ==
  \A x \in Slots :
    /\ Moves(step, e, x) => /\ OriginMark(x)' = e.at
                            /\ x \in Kept => OriginValue(x)' = CarriedValue(e, x)
    /\ ~Moves(step, e, x) => SameAt(x)
OriginExists == SiteOK(origin, tsubs.origin) /\ origin.exists /\ tsubs.origin.exists
Moved(r) ==
  \E step \in r.todo \ {"publish"} : \E e \in SentBy(work) :
    /\ Done(r, step, e) /\ e.type = r.ev.type /\ e.at = r.at
    /\ e = r.ev \/ (step = "sub" /\ (r.op = "rename" => e.v = r.arg))
    /\ MovesTo(step, e) /\ OriginExists'

(* The slots whose values are compared. *)
LEMMA KeptIs == \A x \in Kept : x \in Slots /\ x \notin Unstamped
  BY DEF Kept

(* The write of the room moves no slot. *)
LEMMA RoomMoves ==
  ASSUME Types, Exist, NEW r \in rpcs, WriteRoom(r)
  PROVE  Moved(r)
<1>1. /\ "room" \in r.todo /\ Done(r, "room", r.ev) /\ UNCHANGED <<origin, tsubs, work>>
      /\ r.ev \in SentBy(work) /\ r.ev.at = r.at
  BY NowIs, Zenon DEF WriteRoom, Ready, load, RpcsOf
<1>2. \A x \in Slots : ~Moves("room", r.ev, x) /\ SameAt(x)
  BY <1>1, Zenon DEF Moves, Writes, SameAt, OriginMark, OriginValue
<1>3. MovesTo("room", r.ev)
  BY <1>2 DEF MovesTo
<1>4. OriginExists'
  BY <1>1, Zenon DEF OriginExists, Exist, SiteOK, NoFavorites
<1>5. QED
  BY <1>1, <1>3, <1>4 DEF Moved

(* The write of the subscription moves the slots its event carries. *)
LEMMA SubMoves ==
  ASSUME Types, Apart(work), Steady, Exist, RpcWrites, NEW r \in rpcs, WriteSub(r)
  PROVE  Moved(r)
<1> DEFINE h == Now(r)
           e == Event(h, r.at)
           th == tsubs.origin
<1>1. "sub" \in r.todo /\ UNCHANGED <<tsubs, work>>
  BY Zenon DEF WriteSub, Ready, load
<1>2. InboxOK(e, origin, th, h.sub, h.thread) /\ h.found
  BY <1>1, OriginRegisters, Zenon
<1>3. origin' = h.sub /\ Done(r, "sub", e)
  BY <1>2, Zenon DEF WriteSub
<1>4. /\ e \in SentBy(work) /\ e.type = r.ev.type /\ e.at = r.ev.at /\ (r.op = "rename" => e.v = r.arg)
      /\ r.ev.at = r.at
  BY NowIs, Zenon DEF RpcsOf
<1>5. origin.exists /\ th.exists /\ SiteOK(origin, th)
  BY DEF Exist
<1> HIDE DEF e, h
<1>6. SiteOK(h.sub, h.thread) /\ h.sub.exists /\ Registers(e, origin, th, h.sub, h.thread)
  BY <1>2, <1>5, Zenon DEF InboxOK
<1>7. OriginExists'
  <2>1. SiteOK(h.sub, th)
    BY <1>5, <1>6, ZenonT(60) DEF SiteOK
  <2>2. QED
    BY <1>1, <1>3, <1>5, <1>6, <2>1, ZenonT(60) DEF OriginExists, SiteOK, NoFavorites
<1>8. ASSUME NEW x \in Slots, x # "thread"
      PROVE  /\ Moves("sub", e, x) => /\ OriginMark(x)' = e.at
                                      /\ x \in Kept => OriginValue(x)' = CarriedValue(e, x)
             /\ ~Moves("sub", e, x) => SameAt(x)
  <2>1. Moves("sub", e, x) <=> Applies(e, origin, th, x)
    BY <1>5, <1>8 DEF Moves, Applies, Writes, OriginMark
  <2>2. OriginMark(x)' = MarkOf(h.sub, h.thread, x) /\ OriginValue(x)' = ValueOf(h.sub, x)
    BY <1>3, <1>8 DEF OriginMark, OriginValue, MarkOf
  <2>3. /\ MarkOf(h.sub, h.thread, x) = IF Applies(e, origin, th, x) THEN e.at ELSE OriginMark(x)
        /\ x \in Kept => ValueOf(h.sub, x) = IF Applies(e, origin, th, x) THEN CarriedValue(e, x) ELSE OriginValue(x)
    BY <1>6, KeptIs, Zenon DEF Registers, OriginMark, OriginValue
  <2>4. QED
    BY <2>1, <2>2, <2>3 DEF SameAt
<1>9. ~Moves("sub", e, "thread") /\ SameAt("thread")
  BY <1>1, Zenon DEF Moves, Writes, SameAt, OriginMark, OriginValue, MarkOf, ValueOf, Fields
<1>10. MovesTo("sub", e)
  BY <1>8, <1>9 DEF MovesTo
<1>11. QED
  BY <1>1, <1>3, <1>4, <1>7, <1>10, ZenonT(60) DEF Moved

(* The write of the thread subscription moves the thread's slot. *)
LEMMA ThreadMoves ==
  ASSUME Types, Apart(work), Steady, Exist, RpcWrites, NEW r \in rpcs, WriteThread(r)
  PROVE  Moved(r)
<1> DEFINE h == Now(r)
           e == Event(h, r.at)
           th == tsubs.origin
<1>1. "tsub" \in r.todo /\ UNCHANGED <<origin, work>>
  BY DEF WriteThread, Ready, load
<1>2. InboxOK(e, origin, th, h.sub, h.thread) /\ h.found
  BY <1>1, OriginRegisters
<1>3. tsubs' = [tsubs EXCEPT !.origin = h.thread] /\ Done(r, "tsub", r.ev)
  BY <1>2 DEF WriteThread
<1>4. /\ e \in SentBy(work) /\ e.type = r.ev.type /\ e.at = r.ev.at /\ r.ev.at = r.at /\ r.ev \in SentBy(work)
  BY NowIs, Zenon DEF RpcsOf
<1>5. origin.exists /\ th.exists /\ SiteOK(origin, th) /\ tsubs'.origin = h.thread
  BY <1>3 DEF Exist, Types
<1> HIDE DEF e, h
<1>6. SiteOK(h.sub, h.thread) /\ h.thread.exists /\ Registers(e, origin, th, h.sub, h.thread)
  BY <1>2, <1>5, Zenon DEF InboxOK
<1>7. OriginExists'
  <2>1. SiteOK(origin, h.thread)
    BY <1>5, <1>6, Zenon DEF SiteOK
  <2>2. QED
    BY <1>1, <1>5, <1>6, <2>1, ZenonT(60) DEF OriginExists, SiteOK, NoFavorites
<1>8. ASSUME NEW x \in Slots, x # "thread" PROVE ~Moves("tsub", r.ev, x) /\ SameAt(x)
  BY <1>1, <1>8, Zenon DEF Moves, Writes, SameAt, OriginMark, OriginValue, MarkOf
<1>9. /\ Moves("tsub", r.ev, "thread") => OriginMark("thread")' = r.ev.at
      /\ ~Moves("tsub", r.ev, "thread") => OriginMark("thread")' = OriginMark("thread")
  <2>1. Moves("tsub", r.ev, "thread") <=> Applies(e, origin, th, "thread")
    BY <1>4, <1>5 DEF Moves, Applies, Writes, OriginMark
  <2>2. OriginMark("thread")' = MarkOf(h.sub, h.thread, "thread")
    BY <1>5 DEF OriginMark, MarkOf
  <2>3. MarkOf(h.sub, h.thread, "thread") = IF Applies(e, origin, th, "thread") THEN e.at ELSE OriginMark("thread")
    BY <1>6, Zenon DEF Registers, OriginMark, Slots
  <2>4. QED
    BY <1>4, <2>1, <2>2, <2>3, ZenonT(60)
<1>10. /\ OriginValue("thread") = "" /\ OriginValue("thread")' = "" /\ CarriedValue(r.ev, "thread") = ""
  BY DEF OriginValue, ValueOf, Fields, CarriedValue
<1>11. MovesTo("tsub", r.ev)
  BY <1>8, <1>9, <1>10, ZenonT(60) DEF MovesTo, SameAt
<1>12. QED
  BY <1>1, <1>3, <1>4, <1>7, <1>11 DEF Moved

-----------------------------------------------------------------------------
(* The invariant, step by step. *)

(* Marks are numbers. *)
LEMMA MarksAre ==
  ASSUME Types, NEW x \in Slots
  PROVE  OriginMark(x) \in Nat /\ ReplicaMark(x) \in Nat
<1>1. /\ origin \in Subs /\ replica \in Subs /\ tsubs.origin \in Threads /\ tsubs.replica \in Threads
  BY DEF Types
<1>2. QED
  BY <1>1 DEF OriginMark, ReplicaMark, MarkOf, Slots, Subs, Threads

(* Stamps are numbers. *)
LEMMA EventsAre ==
  ASSUME NEW e \in SentBy(work)
  PROVE  e.at \in Nat
  BY DEF SentBy

(* The workload determines the compared slots and the events there may be. *)
LEMMA SameOps ==
  ASSUME UNCHANGED work
  PROVE  Kept' = Kept /\ SentBy(work)' = SentBy(work)
  BY DEF Kept, Unstamped

(* What an event carries depends on its type and value. *)
LEMMA SameCarried ==
  ASSUME NEW e, NEW f, e.type = f.type, NEW x, e.v = f.v \/ x = "thread"
  PROVE  CarriedValue(e, x) = CarriedValue(f, x)
  BY Zenon DEF CarriedValue

(* What the outbox and the inbox hold is as it was. *)
Frame == /\ UNCHANGED <<work, clock, replica, membershipCh, parked, pool>> 
         /\ tsubs'.replica = tsubs.replica

(* The one operation goes on with one step less, or ends. *)
LEMMA MovedRpcs ==
  ASSUME Types, OneRpc, NEW r \in rpcs, NEW e \in SentBy(work), e.type = r.ev.type, e.at = r.at,
         NEW step, Done(r, step, e)
  PROVE  /\ \A s, t \in rpcs' : s = t
         /\ \A s \in rpcs' : /\ s.op = r.op /\ s.arg = r.arg /\ s.at = r.at /\ s.ev = e
                             /\ s.todo = r.todo \ {step}
         /\ r.todo # {step} => \E s \in rpcs' : s.ev = e
<1>1. rpcs = {r} /\ r.ev.at = r.at
  BY Zenon DEF OneRpc, Types, RpcsOf
<1>2. \A s, t \in rpcs' : s = t
  BY <1>1 DEF Done
<1>3. QED
  BY <1>1, <1>2, DoneIs

(* There is still one operation, with the newest stamp. *)
LEMMA MovedOneRpc ==
  ASSUME Types, Steady, OneRpc, NEW r \in rpcs, Moved(r), UNCHANGED <<work, clock>>
  PROVE  OneRpc'
<1>1. PICK step \in r.todo \ {"publish"}, e \in SentBy(work) :
        /\ Done(r, step, e) /\ e.type = r.ev.type /\ e.at = r.at
        /\ e = r.ev \/ (step = "sub" /\ (r.op = "rename" => e.v = r.arg))
        /\ MovesTo(step, e)
  BY Zenon DEF Moved
<1>2. /\ \A s, t \in rpcs' : s = t
      /\ \A s \in rpcs' : /\ s.op = r.op /\ s.arg = r.arg /\ s.at = r.at /\ s.ev = e
                          /\ s.todo = r.todo \ {step}
  BY <1>1, MovedRpcs
<1>3. /\ r.at = clock /\ (r.op # "mention" => "publish" \in r.todo)
      /\ r.op = "rename" => r.ev.v = r.arg
  BY DEF OneRpc
<1>4. ASSUME NEW x \in Slots PROVE OriginMark(x)' <= clock
  <2>1. OriginMark(x)' = e.at \/ OriginMark(x)' = OriginMark(x)
    BY <1>1, <1>4, ZenonT(60) DEF MovesTo, SameAt
  <2>2. OriginMark(x) <= clock /\ clock \in Nat
    BY <1>4 DEF OneRpc, Types
  <2>3. QED
    BY <1>1, <1>3, <2>1, <2>2
<1>5. \A s \in rpcs' : /\ s.at = clock
                       /\ s.op # "mention" => "publish" \in s.todo
                       /\ s.op = "rename" => s.ev.v = s.arg
  BY <1>1, <1>2, <1>3, Zenon
<1>6. QED
  BY <1>2, <1>4, <1>5 DEF OneRpc

(* It has written exactly what its steps so far write. *)
LEMMA MovedRpcWrites ==
  ASSUME Types, Steady, OneRpc, RpcWrites, NEW r \in rpcs, Moved(r), UNCHANGED <<work, clock>>
  PROVE  RpcWrites'
<1>1. PICK step \in r.todo \ {"publish"}, e \in SentBy(work) :
        /\ Done(r, step, e) /\ e.type = r.ev.type /\ e.at = r.at
        /\ e = r.ev \/ (step = "sub" /\ (r.op = "rename" => e.v = r.arg))
        /\ MovesTo(step, e)
  BY DEF Moved
<1>2. \A s \in rpcs' : s.op = r.op /\ s.at = r.at /\ s.ev = e /\ s.todo = r.todo \ {step}
  BY <1>1, MovedRpcs
<1>3. Kept' = Kept
  BY SameOps
<1> SUFFICES ASSUME NEW s \in rpcs', NEW x \in Slots \cap Carried(e.type)
             PROVE  /\ Writes(x) \in s.todo => \/ OriginMark(x)' < s.at
                                               \/ s.op = "rename" /\ Written(s, x)'
                    /\ Writes(x) \notin s.todo => Written(s, x)'
  BY <1>2, Zenon DEF RpcWrites
<1>4. /\ Writes(x) \in r.todo => OriginMark(x) < r.at \/ (r.op = "rename" /\ Written(r, x))
      /\ Writes(x) \notin r.todo => Written(r, x)
  BY <1>1, Zenon DEF RpcWrites
<1>5. CASE Moves(step, e, x)
  <2>1. Written(s, x)' /\ Writes(x) = step
    BY <1>1, <1>2, <1>3, <1>5, ZenonT(60) DEF MovesTo, Moves, Written
  <2>2. QED
    BY <1>2, <2>1, Zenon
<1>6. CASE ~Moves(step, e, x)
  <2>1. SameAt(x)
    BY <1>1, <1>6, Zenon DEF MovesTo
  <2>2. Written(r, x) /\ CarriedValue(e, x) = CarriedValue(r.ev, x) => Written(s, x)'
    BY <1>2, <1>3, <2>1, ZenonT(60) DEF Written, SameAt
  <2>3. CASE Writes(x) = step
    <3>1. r.op = "rename" /\ Written(r, x)
      BY <1>1, <1>4, <1>6, <2>3, ZenonT(60) DEF Moves
    <3>2. e.v = r.ev.v
      BY <1>1, <3>1, ZenonT(60) DEF OneRpc
    <3>3. CarriedValue(e, x) = CarriedValue(r.ev, x)
      BY <1>1, <3>2, SameCarried, ZenonT(60)
    <3>4. QED
      BY <1>2, <2>2, <2>3, <3>1, <3>3, ZenonT(60)
  <2>4. CASE Writes(x) # step
    <3>1. e = r.ev \/ x = "thread"
      BY <1>1, <2>4, ZenonT(60) DEF Writes
    <3>2. CarriedValue(e, x) = CarriedValue(r.ev, x)
      BY <1>1, <3>1, SameCarried, ZenonT(60)
    <3>3. OriginMark(x)' = OriginMark(x)
      BY <2>1, Zenon DEF SameAt
    <3>4. QED
      BY <1>2, <1>4, <2>2, <2>4, <3>2, <3>3, ZenonT(60)
  <2>5. QED
    BY <2>3, <2>4, ZenonT(60)
<1>7. QED
  BY <1>5, <1>6, ZenonT(60)

(* The origin only moves forward. *)
Grows == \A x \in Slots : SameAt(x) \/ (OriginMark(x) < OriginMark(x)' /\ OriginMark(x)' \in Nat)

(* Events in flight stay past writes when the origin moves forward. *)
LEMMA GrownPast ==
  ASSUME Types, UNCHANGED work, Grows, SentArePast, \A e \in SentBy(work) : Sent(e)' => Sent(e)
  PROVE  SentArePast'
<1>1. Kept' = Kept /\ SentBy(work)' = SentBy(work)
  BY SameOps
<1> SUFFICES ASSUME NEW e \in SentBy(work), Sent(e)', NEW x \in Slots \cap Carried(e.type)
             PROVE  /\ e.at <= OriginMark(x)'
                    /\ x \in Kept /\ e.at = OriginMark(x)' => CarriedValue(e, x) = OriginValue(x)'
  BY <1>1, ZenonT(60) DEF SentArePast
<1>2. /\ e.at <= OriginMark(x)
      /\ x \in Kept /\ e.at = OriginMark(x) => CarriedValue(e, x) = OriginValue(x)
  BY DEF SentArePast
<1>3. e.at \in Nat /\ OriginMark(x) \in Nat
  BY EventsAre, MarksAre
<1>4. CASE SameAt(x)
  BY <1>2, <1>4 DEF SameAt
<1>5. CASE OriginMark(x) < OriginMark(x)' /\ OriginMark(x)' \in Nat
  BY <1>2, <1>3, <1>5
<1>6. QED
  BY <1>4, <1>5, Zenon DEF Grows

(* So does the replica. *)
LEMMA GrownReplica ==
  ASSUME Types, UNCHANGED <<work, replica>>, tsubs'.replica = tsubs.replica, Grows, ReplicaPast
  PROVE  ReplicaPast'
<1>1. Kept' = Kept
  BY SameOps
<1>2. \A x \in Slots : ReplicaMark(x)' = ReplicaMark(x) /\ ReplicaValue(x)' = ReplicaValue(x)
  BY DEF ReplicaMark, ReplicaValue, MarkOf
<1>3. ASSUME NEW x \in Slots
      PROVE  /\ ReplicaMark(x) <= OriginMark(x)'
             /\ x \in Kept /\ ReplicaMark(x) = OriginMark(x)' => ReplicaValue(x) = OriginValue(x)'
  <2>1. /\ ReplicaMark(x) <= OriginMark(x)
        /\ x \in Kept /\ ReplicaMark(x) = OriginMark(x) => ReplicaValue(x) = OriginValue(x)
    BY <1>3, Zenon DEF ReplicaPast
  <2>2. ReplicaMark(x) \in Nat /\ OriginMark(x) \in Nat
    BY <1>3, MarksAre
  <2>3. CASE SameAt(x)
    BY <2>1, <2>3, SMTT(60) DEF SameAt
  <2>4. CASE OriginMark(x) < OriginMark(x)' /\ OriginMark(x)' \in Nat
    BY <2>1, <2>2, <2>4
  <2>5. QED
    BY <1>3, <2>3, <2>4, ZenonT(60) DEF Grows
<1>4. QED
  BY <1>1, <1>2, <1>3 DEF ReplicaPast

(* A write of an operation only moves the origin forward. *)
LEMMA MovedGrows ==
  ASSUME Types, NEW r \in rpcs, Moved(r)
  PROVE  Grows
<1>1. PICK step \in r.todo, e \in SentBy(work) : MovesTo(step, e)
  BY Zenon DEF Moved
<1>2. e.at \in Nat
  BY EventsAre
<1>3. QED
  BY <1>1, <1>2, ZenonT(60) DEF MovesTo, Grows, Moves

(* The newest write of a slot is underway: it is the operation's own. *)
LEMMA MovedUnderway ==
  ASSUME Types, Steady, OneRpc, NEW r \in rpcs, Moved(r), AllUnderway, Frame, UNCHANGED <<ordered, concurrent, dropped>>
  PROVE  AllUnderway'
<1>1. PICK step \in r.todo \ {"publish"}, e \in SentBy(work) :
        /\ Done(r, step, e) /\ e.type = r.ev.type /\ e.at = r.at
        /\ MovesTo(step, e)
  BY ZenonT(60) DEF Moved
<1>2. /\ \A s \in rpcs' : s.ev = e
      /\ r.todo # {step} => \E s \in rpcs' : s.ev = e
      /\ \A s \in rpcs : s = r
  BY <1>1, MovedRpcs DEF OneRpc
<1>3. r.op # "mention" => r.todo # {step}
  BY <1>1, ZenonT(60) DEF OneRpc
<1>4. r.op = "mention" => Carried(e.type) = {}
  BY <1>1, SteadyOps, ZenonT(60) DEF Types
<1>5. SentBy(work)' = SentBy(work) /\ r.ev.at = r.at
  BY SameOps, ZenonT(60) DEF Frame, Types, RpcsOf
<1> SUFFICES ASSUME NEW x \in Slots PROVE Underway(x)'
  BY SMTT(60) DEF AllUnderway
<1>6. CASE Moves(step, e, x)
  <2>1. x \in Carried(e.type) /\ OriginMark(x)' = e.at
    BY <1>1, <1>6, ZenonT(60) DEF MovesTo, Moves
  <2>2. \E s \in rpcs' : s.ev = e
    BY <1>2, <1>3, <1>4, <2>1, ZenonT(60)
  <2>3. QED
    BY <2>1, <2>2, ZenonT(60) DEF Underway, OnItsWay
<1>7. CASE ~Moves(step, e, x)
  <2>1. OriginMark(x)' = OriginMark(x) /\ ReplicaMark(x)' = ReplicaMark(x)
    BY <1>1, <1>7, Zenon DEF MovesTo, SameAt, ReplicaMark, Frame
  <2>2. CASE ReplicaMark(x) = OriginMark(x) \/ Lost(OriginMark(x))
    BY <2>1, <2>2, Zenon DEF Underway, Lost
  <2>3. CASE \E s \in rpcs : OnItsWay(x, s.ev)
    <3>1. x \in Carried(e.type) /\ e.at = OriginMark(x)
      BY <1>1, <1>2, <1>5, <2>3, ZenonT(60) DEF OnItsWay
    <3>2. \E s \in rpcs' : s.ev = e
      BY <1>2, <1>3, <1>4, <3>1, SMTT(60)
    <3>3. QED
      BY <2>1, <3>1, <3>2, ZenonT(60) DEF Underway, OnItsWay
  <2>4. CASE \E f \in SentBy(work) : Queued(f) /\ OnItsWay(x, f)
    <3>1. PICK f \in SentBy(work) : Queued(f) /\ OnItsWay(x, f)
      BY <2>4
    <3>2. Queued(f)' /\ OnItsWay(x, f)'
      BY <2>1, <3>1, ZenonT(60) DEF Queued, Waiting, OnItsWay, Frame
    <3>3. QED
      BY <1>5, <3>2, ZenonT(60) DEF Underway
  <2>5. QED
    BY <2>2, <2>3, <2>4, ZenonT(60) DEF AllUnderway, Underway
<1>8. QED
  BY <1>6, <1>7

(* The writes of an operation keep the invariant. *)
LEMMA MovedInv ==
  ASSUME Types, Steady, SInv, NEW r \in rpcs, Moved(r), Frame, UNCHANGED <<ordered, concurrent, dropped>>
  PROVE  SInv'
<1>1. Exist /\ OneRpc /\ RpcWrites /\ SentArePast /\ ReplicaPast /\ AllUnderway
  BY DEF SInv
<1>2. Exist'
  <2>1. OriginExists'
    BY DEF Moved
  <2>2. QED
    BY <1>1, <2>1, Zenon DEF Exist, OriginExists, Frame
<1>3. OneRpc' /\ RpcWrites'
  BY <1>1, MovedOneRpc, MovedRpcWrites DEF Frame
<1>4. Grows
  BY MovedGrows
<1>5. SentArePast'
  <2>1. \A e \in SentBy(work) : Sent(e)' => Sent(e)
    BY DEF Sent, Waiting, Frame
  <2>2. QED
    BY <1>1, <1>4, <2>1, GrownPast, ZenonT(60) DEF Frame
<1>6. ReplicaPast'
  BY <1>1, <1>4, GrownReplica, ZenonT(60) DEF Frame
<1>7. AllUnderway'
  BY <1>1, MovedUnderway
<1>8. QED
  BY <1>2, <1>3, <1>5, <1>6, <1>7 DEF SInv

(* Steps that leave both sites' documents as they are. *)
StillDocs == UNCHANGED <<work, origin, replica, tsubs>>

(* Documents that stay keep their marks and values. *)
LEMMA StillIs ==
  ASSUME StillDocs
  PROVE  /\ Kept' = Kept /\ SentBy(work)' = SentBy(work) /\ Grows
         /\ \A x : /\ OriginMark(x)' = OriginMark(x) /\ OriginValue(x)' = OriginValue(x)
                   /\ ReplicaMark(x)' = ReplicaMark(x) /\ ReplicaValue(x)' = ReplicaValue(x)
         /\ OriginExists' <=> OriginExists
<1>1. Kept' = Kept /\ SentBy(work)' = SentBy(work)
  BY SameOps DEF StillDocs
<1>2. \A x : /\ OriginMark(x)' = OriginMark(x) /\ OriginValue(x)' = OriginValue(x)
             /\ ReplicaMark(x)' = ReplicaMark(x) /\ ReplicaValue(x)' = ReplicaValue(x)
  BY DEF StillDocs, OriginMark, OriginValue, ReplicaMark, ReplicaValue
<1>3. Grows
  BY <1>2 DEF Grows, SameAt
<1>4. OriginExists' <=> OriginExists
  BY DEF StillDocs, OriginExists, SiteOK, NoFavorites
<1>5. QED
  BY <1>1, <1>2, <1>3, <1>4

(* Steps that touch no document keep what is said about documents and past writes. *)
LEMMA StillInv ==
  ASSUME Types, StillDocs, Frame, SInv
  PROVE  /\ Exist' /\ ReplicaPast' /\ \A x \in Slots : OriginMark(x) \in Nat
         /\ (\A e \in SentBy(work) : Sent(e)' => Sent(e)) => SentArePast'
<1>1. Exist'
  BY StillIs DEF SInv, Exist, OriginExists, StillDocs, Frame
<1>2. ReplicaPast'
  BY StillIs, GrownReplica DEF SInv, StillDocs
<1>3. (\A e \in SentBy(work) : Sent(e)' => Sent(e)) => SentArePast'
  BY StillIs, GrownPast DEF SInv, StillDocs
<1>4. QED
  BY <1>1, <1>2, <1>3, MarksAre, SMTT(60)

(* The start of an operation keeps the invariant. *)
LEMMA StartInv ==
  ASSUME Types, Steady, SInv, MaxConcurrent <= 1, NEW op, NEW arg, Start(op, arg)
  PROVE  SInv'
<1>1. /\ StillDocs /\ UNCHANGED <<ordered, concurrent, membershipCh, parked, pool, dropped>>
      /\ Cardinality(rpcs) < MaxConcurrent
  BY Zenon DEF Start, StillDocs, docs, outbox, inbox
<1>2. rpcs = {}
  BY <1>1, NoneYet, ZenonT(60) DEF SInv, OneRpc
<1>3. PICK r \in RpcsOf(work) : /\ rpcs' = rpcs \cup {r} /\ r.op = op /\ r.arg = arg
                                /\ r.at = clock + 1 /\ r.todo = TodoOf(op)
                                /\ op = "rename" => r.ev.v = arg
  BY StartIs
<1>4. clock' = clock + 1 /\ clock \in Nat
  BY StartIs, Zenon DEF Types
<1>5. /\ \A x \in Carried(r.ev.type) : x \in Slots /\ Writes(x) \in r.todo
      /\ "publish" \in r.todo
  BY <1>3, SteadyOps, ZenonT(60)
<1>6. \A x \in Slots : OriginMark(x)' = OriginMark(x) /\ OriginMark(x) \in Nat /\ OriginMark(x) <= clock
  BY <1>1, StillIs, MarksAre, ZenonT(60) DEF SInv, OneRpc
<1>7. OneRpc'
  BY <1>2, <1>3, <1>4, <1>5, <1>6, SMTT(60) DEF OneRpc
<1>8. RpcWrites'
  <2>1. ASSUME NEW s \in rpcs', NEW x \in Slots \cap Carried(s.ev.type)
        PROVE  Writes(x) \in s.todo /\ OriginMark(x)' < s.at
    BY <1>2, <1>3, <1>4, <1>5, <1>6, <2>1, SMTT(60)
  <2>2. QED
    BY <2>1, SMTT(60) DEF RpcWrites
<1>9. Exist' /\ ReplicaPast' /\ SentArePast'
  <2>1. \A e \in SentBy(work) : Sent(e)' => Sent(e)
    BY <1>1, ZenonT(60) DEF Sent, Waiting
  <2>2. Exist'
    BY <1>1, StillIs, ZenonT(60) DEF SInv, Exist, OriginExists, StillDocs
  <2>3. ReplicaPast' /\ SentArePast'
    BY <1>1, <2>1, StillIs, GrownPast, GrownReplica, ZenonT(60) DEF SInv, StillDocs
  <2>4. QED
    BY <2>2, <2>3
<1>10. AllUnderway'
  <2>1. ASSUME NEW x \in Slots PROVE Underway(x)'
    <3>1. OriginMark(x)' = OriginMark(x) /\ ReplicaMark(x)' = ReplicaMark(x) /\ SentBy(work)' = SentBy(work)
      BY <1>1, StillIs
    <3>2. \A e : Queued(e)' <=> Queued(e)
      BY <1>1, Zenon DEF Queued, Waiting
    <3>3. QED
      BY <1>1, <1>2, <2>1, <3>1, <3>2, ZenonT(60) DEF SInv, AllUnderway, Underway, OnItsWay, Lost
  <2>2. QED
    BY <2>1, SMTT(20) DEF AllUnderway
<1>11. QED
  BY <1>7, <1>8, <1>9, <1>10 DEF SInv

(* The account lives at another site. *)
LEMMA NowRemote ==
  ASSUME Types, Steady, Exist, NEW r \in rpcs
  PROVE  Now(r).remote
<1>1. r.op \in OpNames \ {"add", "remove"}
  BY SteadyOps, Zenon DEF Types
<1> DEFINE op == r.op
           arg == r.arg
           t == r.at
           in == r.inputs
<1>2. Now(r) = HandlerOf(op, arg, t, in) /\ op \in OpNames \ {"add"}
  BY <1>1 DEF Now
<1> HIDE DEF op, arg, t, in
<1>3. QED
  BY <1>2, FoundIs, ZenonT(60) DEF Exist

(* The rpc in progress is done with the event, or it is a mention, which carries nothing. *)
LEMMA DoneWrites ==
  ASSUME Types, Steady, SInv, NEW r \in rpcs, UNCHANGED <<work, clock>>, StillDocs,
         \/ rpcs' = {}
         \/ /\ r.op = "mention"
            /\ \A s, t \in rpcs' : s = t
            /\ \A s \in rpcs' : s.op = r.op /\ s.at = r.at /\ s.ev = r.ev
  PROVE  OneRpc' /\ RpcWrites'
<1>1. \A x \in Slots : OriginMark(x)' <= clock
  BY StillIs, Zenon DEF SInv, OneRpc
<1>2. r.at = clock
  BY Zenon DEF SInv, OneRpc
<1>3. CASE rpcs' = {}
  BY <1>1, <1>3, Zenon DEF OneRpc, RpcWrites
<1>4. CASE rpcs' # {}
  <2>1. /\ r.op = "mention" /\ \A s, t \in rpcs' : s = t
        /\ \A s \in rpcs' : s.op = r.op /\ s.at = r.at /\ s.ev = r.ev
    BY <1>4, Zenon
  <2>2. Carried(r.ev.type) = {}
    BY <2>1, SteadyOps, ZenonT(60) DEF Types
  <2>3. QED
    BY <1>1, <1>2, <2>1, <2>2, ZenonT(60) DEF OneRpc, RpcWrites
<1>5. QED
  BY <1>3, <1>4, Zenon

(* The publish of an operation keeps the invariant: its event is now in the outbox. *)
LEMMA PublishInv ==
  ASSUME Types, Steady, SInv, NEW r \in rpcs, Publish(r)
  PROVE  SInv'
<1>1. /\ StillDocs /\ UNCHANGED <<work, clock, membershipCh, parked, pool, dropped>> /\ Done(r, "publish", r.ev)
      /\ Ready(r, "publish")
  BY DEF Publish, StillDocs, docs, inbox, load
<1>2. /\ Exist /\ OneRpc /\ RpcWrites /\ SentArePast /\ ReplicaPast /\ AllUnderway
  BY DEF SInv
<1>3. /\ r.ev \in SentBy(work) /\ r.ev.at = r.at /\ r \in RpcsOf(work) /\ ordered \in Seq(SentBy(work))
  BY NowIs, Zenon DEF Types, RpcsOf
<1>4. \/ ordered' = Append(ordered, r.ev) /\ concurrent' = concurrent
      \/ concurrent' = concurrent \cup {r.ev} /\ ordered' = ordered
  <2>1. Now(r).remote
    BY <1>2, NowRemote
  <2>2. QED
    BY <2>1 DEF Publish
<1>5. ASSUME NEW e PROVE Waiting(e)' <=> Waiting(e) \/ e = r.ev
  <2>1. CASE ordered' = Append(ordered, r.ev) /\ concurrent' = concurrent
    <3>1. Len(ordered') = Len(ordered) + 1 /\ Len(ordered) \in Nat /\ ordered'[Len(ordered) + 1] = r.ev
      BY <1>3, <2>1
    <3>2. \A i \in 1..Len(ordered) : ordered'[i] = ordered[i]
      BY <1>3, <2>1
    <3>3. \A i \in 1..Len(ordered') : i \in 1..Len(ordered) \/ i = Len(ordered) + 1
      BY <3>1
    <3>4. Len(ordered) + 1 \in 1..Len(ordered') /\ \A i \in 1..Len(ordered) : i \in 1..Len(ordered')
      BY <3>1
    <3> HIDE <2>1
    <3>5. (\E i \in 1..Len(ordered') : ordered'[i] = e) <=> (\E i \in 1..Len(ordered) : ordered[i] = e) \/ e = r.ev
      BY <3>1, <3>2, <3>3, <3>4, ZenonT(60)
    <3>6. QED
      BY <2>1, <3>5, ZenonT(60) DEF Waiting
  <2>2. CASE concurrent' = concurrent \cup {r.ev} /\ ordered' = ordered
    BY <2>2, Zenon DEF Waiting
  <2>3. QED
    BY <1>4, <2>1, <2>2
<1>6. Exist'
  BY <1>1, <1>2, StillIs, ZenonT(60) DEF Exist, OriginExists, StillDocs
<1>7. ReplicaPast'
  BY <1>1, <1>2, StillIs, GrownReplica, ZenonT(60) DEF StillDocs
<1>8. rpcs' = {} \/ r.op = "mention"
  <2>1. r.op # "mention" => r.todo = {"publish"}
    BY <1>1, ZenonT(60) DEF Ready
  <2>2. rpcs = {r}
    BY <1>2, SMTT(20) DEF OneRpc
  <2>3. QED
    BY <1>1, <2>1, <2>2 DEF Done
<1>9. OneRpc' /\ RpcWrites'
  <2>1. /\ \A s, t \in rpcs' : s = t
        /\ \A s \in rpcs' : s.op = r.op /\ s.at = r.at /\ s.ev = r.ev
    BY <1>1, <1>2, <1>3, MovedRpcs
  <2>2. QED
    BY <1>1, <1>8, <2>1, DoneWrites, ZenonT(60)
<1>10. SentArePast'
  <2>1. ASSUME NEW e \in SentBy(work), Sent(e)', NEW x \in Slots \cap Carried(e.type)
        PROVE  /\ e.at <= OriginMark(x)
               /\ x \in Kept /\ e.at = OriginMark(x) => CarriedValue(e, x) = OriginValue(x)
    <3>1. CASE Sent(e)
      BY <1>2, <2>1, <3>1, ZenonT(60) DEF SentArePast
    <3>2. CASE ~Sent(e)
      <4>1. e = r.ev
        BY <1>1, <1>5, <2>1, <3>2, ZenonT(60) DEF Sent
      <4>2. r.op # "mention"
        BY <1>3, <2>1, <4>1, SteadyOps, ZenonT(60)
      <4>3. Writes(x) \notin r.todo
        BY <1>1, <4>2, ZenonT(60) DEF Ready, Writes
      <4>4. Written(r, x)
        BY <1>2, <2>1, <4>1, <4>3, ZenonT(60) DEF RpcWrites
      <4>5. OriginMark(x) \in Nat
        BY <2>1, MarksAre
      <4>6. QED
        BY <1>3, <4>1, <4>4, <4>5, SMTT(60) DEF Written
    <3>3. QED
      BY <3>1, <3>2, ZenonT(60)
  <2>2. QED
    BY <1>1, <2>1, StillIs, ZenonT(60) DEF SentArePast
<1>11. AllUnderway'
  <2>1. ASSUME NEW x \in Slots PROVE Underway(x)'
    <3>1. OriginMark(x)' = OriginMark(x) /\ ReplicaMark(x)' = ReplicaMark(x) /\ SentBy(work)' = SentBy(work)
      BY <1>1, StillIs, SMTT(20)
    <3>2. \A e : Queued(e) \/ e = r.ev => Queued(e)'
      BY <1>1, <1>5, ZenonT(60) DEF Queued
    <3>3. \A s \in rpcs : s = r
      BY <1>2, ZenonT(60) DEF OneRpc
    <3>4. Underway(x)
      BY <1>2, <2>1 DEF AllUnderway
    <3>5. CASE ReplicaMark(x) = OriginMark(x) \/ Lost(OriginMark(x))
      BY <1>1, <3>1, <3>5, ZenonT(60) DEF Underway, Lost
    <3>6. CASE OnItsWay(x, r.ev) 
      BY <1>3, <3>1, <3>2, <3>6, ZenonT(60) DEF Underway, OnItsWay
    <3>7. CASE \E e \in SentBy(work) : Queued(e) /\ OnItsWay(x, e)
      BY <3>1, <3>2, <3>7, ZenonT(60) DEF Underway, OnItsWay
    <3>8. QED
      BY <3>3, <3>4, <3>5, <3>6, <3>7, ZenonT(60) DEF Underway
  <2>2. QED
    BY <2>1, SMTT(20) DEF AllUnderway
<1>12. QED
  BY <1>6, <1>7, <1>9, <1>10, <1>11 DEF SInv

(* An rpc that gives up: an event whose write was made is lost; without the write there was none to lose. *)
LEMMA RpcFailsInv ==
  ASSUME Types, Steady, SInv, NEW r \in rpcs, RpcFails(r)
  PROVE  SInv'
<1>1. /\ StillDocs /\ Frame /\ UNCHANGED <<work, clock, ordered, concurrent>>
      /\ dropped' = IF r.op = "mention" \/ r.todo # Now(r).todo THEN dropped \cup {r.ev} ELSE dropped
      /\ \/ r.op \in RpcOps /\ rpcs' = rpcs \ {r}
         \/ r.op = "mention" /\ "publish" \in r.todo /\ Done(r, "publish", r.ev)
  BY Zenon DEF RpcFails, StillDocs, Frame, docs, outbox, inbox, load
<1>2. OneRpc /\ RpcWrites /\ AllUnderway /\ rpcs = {r}
  BY Zenon DEF SInv, OneRpc
<1>3. /\ r.ev \in SentBy(work) /\ r.ev.at = r.at /\ r \in RpcsOf(work) /\ Now(r).todo = TodoOf(r.op)
  BY NowIs, Zenon DEF RpcsOf
<1>4. OneRpc' /\ RpcWrites'
  <2>1. CASE r.op \in RpcOps /\ rpcs' = rpcs \ {r}
    <3>1. rpcs' = {}
      BY <1>2, <2>1
    <3>2. QED
      BY <1>1, <3>1, DoneWrites, ZenonT(60)
  <2>2. CASE r.op = "mention" /\ Done(r, "publish", r.ev)
    <3>1. /\ \A s, t \in rpcs' : s = t
          /\ \A s \in rpcs' : s.op = r.op /\ s.at = r.at /\ s.ev = r.ev
      BY <1>2, <1>3, <2>2, MovedRpcs, SMTT(60)
    <3>2. QED
      BY <1>1, <2>2, <3>1, DoneWrites, ZenonT(60)
  <2>3. QED
    BY <1>1, <2>1, <2>2, ZenonT(60)
<1>5. Exist' /\ ReplicaPast' /\ SentArePast'
  <2>1. \A e \in SentBy(work) : Sent(e)' => Sent(e)
    BY <1>1, ZenonT(60) DEF Sent, Waiting, Frame
  <2>2. QED
    BY <1>1, <2>1, StillInv, ZenonT(60)
<1>6. ASSUME NEW x \in Slots PROVE Underway(x)'
  <2>1. OriginMark(x)' = OriginMark(x) /\ ReplicaMark(x)' = ReplicaMark(x) /\ SentBy(work)' = SentBy(work)
    BY <1>1, StillIs, ZenonT(60)
  <2>2. \A e : Queued(e) => Queued(e)'
    BY <1>1, ZenonT(60) DEF Queued, Waiting, Frame
  <2>3. Underway(x)
    BY <1>2, <1>6 DEF AllUnderway
  <2>4. dropped \subseteq dropped'
    BY <1>1, Zenon
  <2>5. CASE ReplicaMark(x) = OriginMark(x) \/ Lost(OriginMark(x))
    BY <2>1, <2>4, <2>5, ZenonT(60) DEF Underway, Lost
  <2>6. CASE OnItsWay(x, r.ev)
    <3>1. x \in Carried(r.ev.type) /\ r.at = OriginMark(x) /\ OriginMark(x) \in Nat
      BY <1>3, <1>6, <2>6, MarksAre, ZenonT(60) DEF OnItsWay
    <3>2. Writes(x) \in TodoOf(r.op) /\ r.op # "mention"
      BY <1>3, <3>1, SteadyOps, ZenonT(60)
    <3>3. r.op # "rename"
      BY <1>1, <3>2, ZenonT(60) DEF RpcOps
    <3>4. Writes(x) \notin r.todo
      BY <1>2, <1>6, <3>1, <3>3 DEF RpcWrites
    <3>5. r.ev \in dropped'
      BY <1>1, <1>3, <3>2, <3>4, ZenonT(60)
    <3>6. QED
      BY <1>3, <2>1, <3>1, <3>5, ZenonT(60) DEF Underway, Lost
  <2>7. CASE \E e \in SentBy(work) : Queued(e) /\ OnItsWay(x, e)
    BY <2>1, <2>2, <2>7, Zenon DEF Underway, OnItsWay
  <2>8. QED
    BY <1>2, <2>3, <2>5, <2>6, <2>7, ZenonT(60) DEF Underway
<1>7. QED
  BY <1>4, <1>5, <1>6 DEF SInv, AllUnderway

(* A worker that starts again: of what it repeats only a rename has a mark, which it finds. *)
LEMMA WorkerFailsInv ==
  ASSUME Types, Steady, SInv, NEW r \in rpcs, WorkerFails(r)
  PROVE  SInv'
<1> DEFINE s == [r EXCEPT !.todo = Now(r).todo, !.inputs = room]
<1>1. /\ StillDocs /\ Frame /\ UNCHANGED <<work, clock, ordered, concurrent, dropped>>
      /\ r.op \in WorkerOps /\ rpcs' = (rpcs \ {r}) \cup {s}
  BY DEF WorkerFails, StillDocs, Frame, docs, outbox, inbox, load
<1>2. OneRpc /\ RpcWrites /\ AllUnderway /\ rpcs = {r}
  BY DEF SInv, OneRpc
<1>3. /\ r \in RpcsOf(work) /\ Now(r).todo = TodoOf(r.op)
  BY NowIs, Zenon
<1>4. /\ s.op = r.op /\ s.arg = r.arg /\ s.at = r.at /\ s.ev = r.ev /\ s.todo = TodoOf(r.op)
  BY <1>3 DEF RpcsOf
<1> HIDE DEF s
<1>5. /\ \A u, v \in rpcs' : u = v
      /\ \A u \in rpcs' : /\ u.op = r.op /\ u.arg = r.arg /\ u.at = r.at /\ u.ev = r.ev
                          /\ u.todo = TodoOf(r.op)
      /\ \E u \in rpcs' : u.ev = r.ev
  BY <1>1, <1>2, <1>4, ZenonT(60)
<1>6. /\ \A x \in Carried(r.ev.type) : x \in Slots /\ Writes(x) \in TodoOf(r.op)
      /\ "publish" \in TodoOf(r.op) /\ r.op \notin {"add", "remove"}
      /\ r.op \in {"follow", "reply"} => Carried(r.ev.type) = {}
  BY <1>3, SteadyOps, Zenon
<1>7. \A x : OriginMark(x)' = OriginMark(x) /\ OriginValue(x)' = OriginValue(x) /\ ReplicaMark(x)' = ReplicaMark(x)
  BY <1>1, StillIs, Zenon
<1>8. OneRpc'
  BY <1>1, <1>2, <1>5, <1>6, <1>7, ZenonT(60) DEF OneRpc
<1>9. RpcWrites'
  <2>1. ASSUME NEW u \in rpcs', NEW x \in Slots \cap Carried(u.ev.type)
        PROVE  Writes(x) \in u.todo /\ (OriginMark(x)' < u.at \/ (u.op = "rename" /\ Written(u, x)'))
    <3>1. /\ u.op = r.op /\ u.at = r.at /\ u.ev = r.ev /\ Writes(x) \in u.todo /\ r.op = "rename"
      BY <1>1, <1>5, <1>6, <2>1, ZenonT(60) DEF WorkerOps
    <3>2. OriginMark(x) < r.at \/ Written(r, x)
      BY <1>2, <2>1, <3>1, ZenonT(60) DEF RpcWrites
    <3>3. Kept' = Kept
      BY <1>1, StillIs, Zenon
    <3>4. QED
      BY <1>7, <3>1, <3>2, <3>3, ZenonT(60) DEF Written
  <2>2. QED
    BY <2>1, Zenon DEF RpcWrites
<1>10. Exist' /\ ReplicaPast' /\ SentArePast'
  <2>1. \A e \in SentBy(work) : Sent(e)' => Sent(e)
    BY <1>1, ZenonT(60) DEF Sent, Waiting, Frame
  <2>2. QED
    BY <1>1, <2>1, StillInv, ZenonT(60)
<1>11. ASSUME NEW x \in Slots PROVE Underway(x)'
  <2>1. SentBy(work)' = SentBy(work)
    BY <1>1, StillIs, Zenon
  <2>2. \A e : Queued(e) => Queued(e)'
    BY <1>1, ZenonT(60) DEF Queued, Waiting, Frame
  <2>3. Underway(x)
    BY <1>2, <1>11 DEF AllUnderway
  <2>4. QED
    BY <1>1, <1>2, <1>5, <1>7, <2>1, <2>2, <2>3, SMTT(60) DEF Underway, OnItsWay, Lost
<1>12. QED
  BY <1>8, <1>9, <1>10, <1>11, ZenonT(60) DEF SInv, AllUnderway

-----------------------------------------------------------------------------
(* outbox-worker and inbox-worker leave the origin alone. *)
Delivers ==
  /\ UNCHANGED <<work, clock, origin, rpcs>> /\ tsubs'.origin = tsubs.origin
  /\ replica'.exists /\ tsubs'.replica.exists /\ membershipCh' = <<>> /\ parked' = {}
  /\ dropped \subseteq dropped'
  /\ \A e \in SentBy(work) : Sent(e)' => Sent(e)
Stay == \A e \in SentBy(work) : Queued(e) => Queued(e)' \/ e \in dropped'
SameReplica == \A x \in Slots : ReplicaMark(x)' = ReplicaMark(x) /\ ReplicaValue(x)' = ReplicaValue(x)

(* What happens on the way to the replica keeps what is said about the origin. *)
LEMMA DeliversInv ==
  ASSUME Types, SInv, Delivers
  PROVE  Exist' /\ OneRpc' /\ RpcWrites' /\ SentArePast'
<1>1. /\ Kept' = Kept /\ UNCHANGED work
      /\ \A x : OriginMark(x)' = OriginMark(x) /\ OriginValue(x)' = OriginValue(x)
  BY SameOps, Zenon DEF Delivers, OriginMark, OriginValue
<1>2. Exist'
  BY Zenon DEF SInv, Delivers, Exist, SiteOK, NoFavorites
<1>3. OneRpc'
  BY <1>1, Zenon DEF SInv, Delivers, OneRpc
<1>4. RpcWrites'
  BY <1>1, Zenon DEF SInv, Delivers, RpcWrites, Written
<1>5. Grows
  BY <1>1 DEF Grows, SameAt
<1>6. SentArePast'
  BY <1>1, <1>5, GrownPast, ZenonT(60) DEF SInv, Delivers
<1>7. QED
  BY <1>2, <1>3, <1>4, <1>6

(* A step that loses no event and keeps the replica keeps the invariant. *)
LEMMA StayInv ==
  ASSUME Types, SInv, Delivers, Stay, SameReplica
  PROVE  SInv'
<1>1. /\ Kept' = Kept /\ SentBy(work)' = SentBy(work)
      /\ \A x : OriginMark(x)' = OriginMark(x) /\ OriginValue(x)' = OriginValue(x)
  BY SameOps, ZenonT(60) DEF Delivers, OriginMark, OriginValue
<1>2. ReplicaPast'
  BY <1>1, ZenonT(60) DEF SInv, ReplicaPast, SameReplica
<1>3. ASSUME NEW x \in Slots PROVE Underway(x)'
  <2>1. Underway(x) /\ rpcs' = rpcs /\ ReplicaMark(x)' = ReplicaMark(x)
    BY <1>3, ZenonT(60) DEF SInv, AllUnderway, Delivers, SameReplica
  <2>2. CASE ReplicaMark(x) = OriginMark(x) \/ Lost(OriginMark(x)) \/ \E r \in rpcs : OnItsWay(x, r.ev)
    BY <1>1, <2>1, <2>2, ZenonT(60) DEF Underway, Lost, OnItsWay, Delivers
  <2>3. CASE \E e \in SentBy(work) : Queued(e) /\ OnItsWay(x, e)
    <3>1. PICK e \in SentBy(work) : Queued(e) /\ OnItsWay(x, e)
      BY <2>3
    <3>2. CASE Queued(e)'
      BY <1>1, <3>1, <3>2, ZenonT(60) DEF Underway, OnItsWay
    <3>3. CASE e \in dropped'
      BY <1>1, <3>1, <3>3, ZenonT(60) DEF Underway, OnItsWay, Lost
    <3>4. QED
      BY <3>1, <3>2, <3>3, SMTT(60) DEF Stay
  <2>4. QED
    BY <2>1, <2>2, <2>3, ZenonT(60) DEF Underway
<1>4. QED
  BY <1>2, <1>3, DeliversInv, SMTT(60) DEF SInv, AllUnderway

(* The pool applies event f. *)
LEMMA AppliedInv ==
  ASSUME Types, SInv, Delivers, NEW f \in SentBy(work), Sent(f),
         \A e \in SentBy(work) : Queued(e) => Queued(e)' \/ e \in dropped' \/ e = f,
         Registers(f, replica, tsubs.replica, replica', tsubs'.replica)
  PROVE  SInv'
<1>1. /\ Kept' = Kept /\ SentBy(work)' = SentBy(work)
      /\ \A x : OriginMark(x)' = OriginMark(x) /\ OriginValue(x)' = OriginValue(x)
  BY SameOps, ZenonT(60) DEF Delivers, OriginMark, OriginValue
<1> DEFINE On(x) == x \in Carried(f.type) /\ ReplicaMark(x) < f.at
<1>2. ASSUME NEW x \in Slots
      PROVE  /\ ReplicaMark(x)' = IF On(x) THEN f.at ELSE ReplicaMark(x)
             /\ x \in Kept => ReplicaValue(x)' = IF On(x) THEN CarriedValue(f, x) ELSE ReplicaValue(x)
  <2>1. On(x) <=> Applies(f, replica, tsubs.replica, x)
    BY Zenon DEF SInv, Exist, Applies, ReplicaMark
  <2> HIDE DEF On
  <2>2. QED
    BY <1>2, <2>1, KeptIs, ZenonT(60) DEF Registers, ReplicaMark, ReplicaValue
<1>3. ASSUME NEW x \in Slots
      PROVE  /\ OriginMark(x) \in Nat /\ ReplicaMark(x) \in Nat /\ f.at \in Nat
             /\ x \in Carried(f.type) => /\ f.at <= OriginMark(x)
                                         /\ x \in Kept /\ f.at = OriginMark(x) => CarriedValue(f, x) = OriginValue(x)
             /\ ReplicaMark(x) <= OriginMark(x)
             /\ x \in Kept /\ ReplicaMark(x) = OriginMark(x) => ReplicaValue(x) = OriginValue(x)
  BY <1>3, MarksAre, EventsAre, ZenonT(60) DEF SInv, SentArePast, ReplicaPast
<1>4. ReplicaPast'
  <2>1. ASSUME NEW x \in Slots
        PROVE  /\ ReplicaMark(x)' <= OriginMark(x)
               /\ x \in Kept /\ ReplicaMark(x)' = OriginMark(x) => ReplicaValue(x)' = OriginValue(x)
    <3>1. CASE On(x)
      BY <1>2, <1>3, <2>1, <3>1, ZenonT(60)
    <3>2. CASE ~On(x)
      <4> HIDE DEF On
      <4>1. QED
        BY <1>2, <1>3, <2>1, <3>2, ZenonT(60)
    <3>3. QED
      BY <3>1, <3>2, Zenon
  <2>2. QED
    BY <1>1, <2>1, ZenonT(60) DEF ReplicaPast
<1>5. ASSUME NEW x \in Slots PROVE Underway(x)'
  <2>1. Underway(x) /\ rpcs' = rpcs
    BY <1>5, Zenon DEF SInv, AllUnderway, Delivers
  <2>2. CASE ReplicaMark(x) = OriginMark(x)
    <3>1. ~On(x)
      BY <1>3, <1>5, <2>2
    <3> HIDE DEF On
    <3>2. QED
      BY <1>1, <1>2, <1>5, <2>2, <3>1, ZenonT(60) DEF Underway
  <2>3. CASE Lost(OriginMark(x)) \/ \E r \in rpcs : OnItsWay(x, r.ev)
    BY <1>1, <2>1, <2>3, ZenonT(60) DEF Underway, Lost, OnItsWay, Delivers
  <2>4. CASE \E e \in SentBy(work) : Queued(e) /\ OnItsWay(x, e)
    <3>1. PICK e \in SentBy(work) : Queued(e) /\ OnItsWay(x, e)
      BY <2>4, Zenon
    <3>2. CASE Queued(e)'
      <4>1. OnItsWay(x, e)' /\ SentBy(work') = SentBy(work)
        BY <1>1, <3>1, Zenon DEF OnItsWay
      <4>2. QED
        BY <3>1, <3>2, <4>1, ZenonT(60) DEF Underway
    <3>3. CASE e \in dropped'
      BY <1>1, <3>1, <3>3, ZenonT(60) DEF Underway, OnItsWay, Lost
    <3>4. CASE e = f
      <4>1. x \in Carried(f.type) /\ f.at = OriginMark(x)
        BY <3>1, <3>4, SMTT(60) DEF OnItsWay
      <4>2. ReplicaMark(x)' = OriginMark(x)
        BY <1>2, <1>3, <1>5, <4>1, SMTT(60)
      <4>3. QED
        BY <1>1, <4>2, ZenonT(60) DEF Underway
    <3>5. QED
      BY <3>1, <3>2, <3>3, <3>4, ZenonT(60)
  <2>5. QED
    BY <2>1, <2>2, <2>3, <2>4, ZenonT(60) DEF Underway
<1>6. QED
  BY <1>4, <1>5, DeliversInv, ZenonT(60) DEF SInv, AllUnderway

(* An event leaves the outbox for the pool. *)
Arrives(e) ==
  /\ Waiting(e) /\ UNCHANGED <<work, clock, room, origin, replica, tsubs, rpcs, parked, dropped>>
  /\ Arrive(e, 1) \/ Arrive(e, 2)
  /\ \A g : /\ Waiting(g)' => Waiting(g)
            /\ Waiting(g) => Waiting(g)' \/ g = e

(* outbox-worker takes one event to the other site, once or once more. *)
LEMMA RelayIs ==
  ASSUME Types, Relay
  PROVE  \E e \in SentBy(work) : Arrives(e)
<1>1. UNCHANGED <<work, clock, room, origin, replica, tsubs, rpcs, parked, dropped>>
  BY Zenon DEF Relay, ForwardOrdered, ForwardConcurrent, load, docs
<1>2. ordered \in Seq(SentBy(work)) /\ concurrent \subseteq SentBy(work)
  BY ZenonT(60) DEF Types
<1>3. CASE ForwardOrdered
  <2> DEFINE e == Head(ordered)
  <2>1. ordered # <<>> /\ concurrent' = concurrent /\ ordered' \in {ordered, Tail(ordered)} /\ (Arrive(e, 1) \/ Arrive(e, 2))
    BY <1>3, ZenonT(60) DEF ForwardOrdered
  <2>2. /\ Len(ordered) \in Nat /\ 1 \in 1..Len(ordered) /\ e = ordered[1] /\ e \in SentBy(work)
    BY <1>2, <2>1
  <2> HIDE DEF e
  <2>3. CASE ordered' = ordered
    BY <1>1, <2>1, <2>2, <2>3, ZenonT(60) DEF Arrives, Waiting
  <2>4. CASE ordered' = Tail(ordered)
    <3>1. Len(ordered') = Len(ordered) - 1 /\ \A i \in 1..(Len(ordered) - 1) : ordered'[i] = ordered[i + 1]
      BY <1>2, <2>1, <2>4, SMTT(60)
    <3>2. \A i \in 1..Len(ordered) : i = 1 \/ i - 1 \in 1..(Len(ordered) - 1)
      BY <2>2
    <3>3. \A i \in 1..(Len(ordered) - 1) : i + 1 \in 1..Len(ordered)
      BY <2>2
    <3>4. \A i \in 1..Len(ordered) : (i - 1) + 1 = i
      BY <2>2
    <3> HIDE <2>4
    <3>5. ASSUME NEW g, Waiting(g)' PROVE Waiting(g)
      BY <2>1, <3>1, <3>3, <3>5, SMTT(60) DEF Waiting
    <3>6. ASSUME NEW g, Waiting(g) PROVE Waiting(g)' \/ g = e
      <4>1. CASE g \in concurrent
        BY <2>1, <4>1, ZenonT(60) DEF Waiting
      <4>2. CASE g \notin concurrent
        <5>1. PICK i \in 1..Len(ordered) : ordered[i] = g
          BY <3>6, <4>2 DEF Waiting
        <5>2. CASE i = 1
          BY <2>2, <5>1, <5>2, SMTT(60)
        <5>3. CASE i # 1
          <6>1. i - 1 \in 1..Len(ordered') /\ ordered'[i - 1] = g
            BY <3>1, <3>2, <3>4, <5>1, <5>3, ZenonT(60)
          <6>2. QED
            BY <6>1 DEF Waiting
        <5>4. QED
          BY <5>2, <5>3
      <4>3. QED
        BY <4>1, <4>2
    <3>7. Waiting(e)
      BY <2>2 DEF Waiting
    <3>8. QED
      BY <1>1, <2>1, <2>2, <3>5, <3>6, <3>7, ZenonT(60) DEF Arrives
  <2>5. QED
    BY <2>1, <2>3, <2>4
<1>4. CASE ForwardConcurrent
  <2>1. PICK e \in concurrent : /\ Arrive(e, 1) \/ Arrive(e, 2)
                                /\ concurrent' = concurrent \ {e} \/ concurrent' = concurrent
    BY <1>4 DEF ForwardConcurrent
  <2>2. ordered' = ordered /\ e \in SentBy(work)
    BY <1>2, <1>4, ZenonT(60) DEF ForwardConcurrent
  <2>3. QED
    BY <1>1, <2>1, <2>2, ZenonT(60) DEF Arrives, Waiting
<1>5. QED
  BY <1>3, <1>4 DEF Relay

(* outbox-worker keeps the invariant. *)
LEMMA RelayInv ==
  ASSUME Types, Steady, SInv, Relay
  PROVE  SInv'
<1>1. PICK e \in SentBy(work) : Arrives(e)
  BY RelayIs
<1>2. ~isMembershipSubject(e)
  BY SentByOps DEF Steady, isMembershipSubject
<1>3. PICK d \in {Delivery(e, 1), Delivery(e, 2)} : pool' = pool \cup {d} /\ membershipCh' = membershipCh
  BY <1>1, <1>2, ZenonT(60) DEF Arrives, Arrive
<1>4. d.e = e /\ d.step = "apply"
  BY <1>3, DeliveryIs, SMTT(60)
<1>5. \A g : /\ Sent(g)' => Sent(g)
             /\ Queued(g) => Queued(g)'
  <2>1. ASSUME NEW g, Sent(g)' PROVE Sent(g)
    BY <1>1, <1>3, <1>4, <2>1, ZenonT(60) DEF Sent, Arrives
  <2>2. ASSUME NEW g, Queued(g) PROVE Queued(g)'
    BY <1>1, <1>3, <1>4, <2>2, ZenonT(60) DEF Queued, Arrives
  <2>3. QED
    BY <2>1, <2>2
<1>6. Delivers /\ Stay /\ SameReplica
  <2>1. UNCHANGED <<work, clock, origin, replica, tsubs, rpcs, parked, dropped>>
    BY <1>1, ZenonT(60) DEF Arrives
  <2>2. Delivers
    BY <1>3, <1>5, <2>1, ZenonT(60) DEF Delivers, SInv, Exist
  <2>3. QED
    BY <1>5, <2>1, <2>2, ZenonT(60) DEF Stay, SameReplica, ReplicaMark, ReplicaValue
<1>7. QED
  BY <1>6, StayInv

(* One delivery of the pool is settled, retried or goes on to its next step. *)
LEMMA PoolDelivers ==
  ASSUME Types, SInv, NEW m \in pool,
         UNCHANGED <<work, clock, origin, rpcs, ordered, concurrent, membershipCh, parked>>,
         tsubs'.origin = tsubs.origin, replica'.exists, tsubs'.replica.exists,
         \A n \in pool' : n \in pool \/ n.e = m.e, dropped \subseteq dropped'
  PROVE  Delivers
<1>1. \A g : Waiting(g)' <=> Waiting(g)
  BY Zenon DEF Waiting
<1>2. \A g : Sent(g)' => Sent(g)
  BY <1>1, Zenon DEF Sent
<1>3. QED
  BY <1>2, Zenon DEF Delivers, SInv, Exist

(* The write of the pool keeps the invariant. *)
LEMMA PoolApplyInv ==
  ASSUME MInv, Apart(work), SInv, PoolApply
  PROVE  SInv'
<1>0. Types /\ SiteOK(replica, tsubs.replica) /\ replica.exists /\ tsubs.replica.exists
  BY Zenon DEF MInv, SInv, Exist
<1>1. UNCHANGED <<work, clock, origin, rpcs, ordered, concurrent, membershipCh, parked>>
  BY DEF PoolApply, load, outbox
<1>2. PICK m \in pool :
        /\ m.step = "apply" /\ replica' = InboxWrite(m.e, replica)
        /\ tsubs' = [tsubs EXCEPT !.replica = InboxThreadWrite(m.e, @)]
        /\ IF NextStep(m.e) = "ack" THEN Settle(m)
           ELSE /\ pool' = (pool \ {m}) \cup {[m EXCEPT !.step = NextStep(m.e)]}
                /\ UNCHANGED dropped
  BY SMTT(60) DEF PoolApply
<1>3. m \in DeliveriesOf(work) /\ m.e \in SentBy(work)
  BY <1>0, Zenon DEF Types, DeliveriesOf
<1>4. /\ \A n \in pool' : n \in pool \/ n.e = m.e
      /\ \A n \in pool : n # m => n \in pool'
      /\ dropped \subseteq dropped'
  <2>1. CASE NextStep(m.e) = "ack"
    <3>1. Ack(m) \/ Nak(m)
      BY <1>2, <2>1, SettleIs
    <3>2. QED
      BY <1>0, <3>1, NakIs, ZenonT(60)
  <2>2. CASE NextStep(m.e) # "ack"
    <3>1. NextStep(m.e) \in {"apply", "check", "clear"}
      BY <2>2, NextStepIs
    <3>2. [m EXCEPT !.step = NextStep(m.e)].e = m.e
      BY <1>3, <3>1, StepIs, SMTT(60)
    <3>3. QED
      BY <1>2, <2>2, <3>2, ZenonT(60)
  <2>3. QED
    BY <2>1, <2>2, ZenonT(60)
<1> DEFINE f == m.e
           th == tsubs.replica
<1>5. /\ replica' = InboxWrite(f, replica) /\ tsubs'.replica = InboxThreadWrite(f, th)
      /\ tsubs'.origin = tsubs.origin
  BY <1>0, <1>2, SMTT(60) DEF Types
<1>6. f \in SentBy(work)
  BY <1>3
<1> HIDE DEF f
<1>7. InboxOK(f, replica, th, replica', tsubs'.replica)
  <2>1. InboxOK(f, replica, th, InboxWrite(f, replica), InboxThreadWrite(f, th))
    BY <1>0, <1>6, InboxRegisters, ZenonT(60)
  <2>2. QED
    BY <1>5, <2>1, ZenonT(60)
<1>8. replica'.exists /\ tsubs'.replica.exists /\ Registers(f, replica, th, replica', tsubs'.replica)
  BY <1>0, <1>7, ZenonT(60) DEF InboxOK
<1>9. Delivers
  BY <1>0, <1>1, <1>4, <1>5, <1>8, PoolDelivers, ZenonT(60)
<1>10. Sent(f)
  BY DEF Sent, f
<1>11. ASSUME NEW e \in SentBy(work), Queued(e) PROVE Queued(e)' \/ e = f
  <2>1. CASE Waiting(e)
    BY <1>1, <2>1, ZenonT(60) DEF Queued, Waiting
  <2>2. CASE ~Waiting(e)
    <3>1. PICK n \in pool : n.e = e /\ n.step = "apply"
      BY <1>11, <2>2 DEF Queued
    <3>2. n = m \/ n \in pool'
      BY <1>4
    <3>3. QED
      BY <3>1, <3>2 DEF Queued, f
  <2>3. QED
    BY <2>1, <2>2
<1>12. QED
  BY <1>0, <1>6, <1>8, <1>9, <1>10, <1>11, AppliedInv, ZenonT(60)

(* The other steps of the pool change no mark. *)
LEMMA PoolOthersInv ==
  ASSUME MInv, SInv, PoolCheck \/ PoolClear \/ PoolFails
  PROVE  SInv'
<1>0. Types /\ replica \in Subs /\ replica.exists /\ tsubs.replica.exists
  BY ZenonT(60) DEF MInv, Types, SInv, Exist
<1>1. UNCHANGED <<work, clock, origin, tsubs, rpcs, ordered, concurrent, membershipCh, parked>>
  BY Zenon DEF PoolCheck, PoolClear, PoolFails, load, docs, outbox
<1>2. replica' = replica \/ replica' = PullThreadUnread(replica)
  BY ZenonT(60) DEF PoolCheck, PoolClear, PoolFails, docs
<1>3. Alike(replica, replica')
  BY <1>0, <1>2, ZenonT(60) DEF Alike, PullThreadUnread, Subs
<1>4. SameReplica
  BY <1>1, <1>3, ZenonT(60) DEF SameReplica, ReplicaMark, ReplicaValue, MarkOf, ValueOf, Alike
<1>5. PICK m \in pool : (Nak(m) \/ Ack(m)) /\ (m.step = "apply" => Nak(m))
  <2>1. CASE PoolCheck
    <3>1. PICK m \in pool : m.step = "check" /\ (Settle(m) \/ Nak(m))
      BY <2>1 DEF PoolCheck
    <3>2. QED
      BY <3>1, SettleIs, SMTT(60)
  <2>2. CASE PoolClear
    <3>1. PICK m \in pool : m.step = "clear" /\ Settle(m)
      BY <2>2, ZenonT(60) DEF PoolClear
    <3>2. QED
      BY <3>1, SettleIs
  <2>3. CASE PoolFails
    BY <2>3 DEF PoolFails
  <2>4. QED
    BY <2>1, <2>2, <2>3, SMTT(60)
<1>6. /\ \A n \in pool' : n \in pool \/ n.e = m.e
      /\ \A n \in pool : n # m => n \in pool'
      /\ dropped \subseteq dropped'
      /\ Nak(m) => m.e \in dropped' \/ \E n \in pool' : n.e = m.e /\ n.step = "apply"
  BY <1>0, <1>5, NakIs, ZenonT(60)
<1>7. Delivers
  BY <1>0, <1>1, <1>3, <1>6, PoolDelivers, ZenonT(60) DEF Alike
<1>8. ASSUME NEW e \in SentBy(work), Queued(e) PROVE Queued(e)' \/ e \in dropped'
  <2>1. CASE Waiting(e)
    BY <1>1, <2>1, ZenonT(60) DEF Queued, Waiting
  <2>2. CASE ~Waiting(e)
    <3>1. PICK n \in pool : n.e = e /\ n.step = "apply"
      BY <1>8, <2>2 DEF Queued
    <3>2. CASE n # m
      BY <1>6, <3>1, <3>2, ZenonT(60) DEF Queued
    <3>3. CASE n = m
      BY <1>5, <1>6, <3>1, <3>3, ZenonT(60) DEF Queued
    <3>4. QED
      BY <3>2, <3>3
  <2>3. QED
    BY <2>1, <2>2
<1>9. QED
  BY <1>0, <1>4, <1>7, <1>8, StayInv, SMTT(60) DEF Stay

(* A crash of inbox-worker keeps the invariant: deliveries start again or are given up. *)
LEMMA CrashInv ==
  ASSUME Types, SInv, Crash
  PROVE  SInv'
<1>1. UNCHANGED <<work, clock, origin, replica, tsubs, rpcs, ordered, concurrent>>
  BY Zenon DEF Crash, load, docs, outbox
<1>2. membershipCh = <<>> /\ parked = {} /\ replica.exists /\ tsubs.replica.exists
  BY DEF SInv, Exist
<1>3. {membershipCh[i] : i \in DOMAIN membershipCh} = {}
  BY <1>2
<1>4. /\ membershipCh' = <<>> /\ parked' = {}
      /\ pool' = {Again(m) : m \in {h \in pool : CanRetry(h)}}
      /\ dropped' = dropped \cup {m.e : m \in {h \in pool : ~CanRetry(h)}}
  <2>1. /\ membershipCh' = <<>>
        /\ parked' = parked \cup {Again(m) : m \in {h \in {membershipCh[i] : i \in DOMAIN membershipCh} : CanRetry(h)}}
    BY Zenon DEF Crash
  <2>2. pool' = {Again(m) : m \in {h \in pool : CanRetry(h)}}
    BY Zenon DEF Crash
  <2>3. dropped' = dropped \cup {m.e : m \in {h \in {membershipCh[i] : i \in DOMAIN membershipCh} \cup pool : ~CanRetry(h)}}
    BY Zenon DEF Crash
  <2>4. QED
    BY <1>2, <1>3, <2>1, <2>2, <2>3, ZenonT(60)
<1>5. \A m \in pool : Again(m).e = m.e /\ Again(m).step = "apply"
  BY AgainIs, ZenonT(60) DEF Types
<1>6. \A g : Waiting(g)' <=> Waiting(g)
  BY <1>1 DEF Waiting
<1>7. ASSUME NEW g, Sent(g)' PROVE Sent(g)
  BY <1>4, <1>5, <1>6, <1>7, ZenonT(60) DEF Sent
<1>8. ASSUME NEW g, Queued(g) PROVE Queued(g)' \/ g \in dropped'
  BY <1>4, <1>5, <1>6, <1>8, ZenonT(60) DEF Queued
<1>9. Delivers
  BY <1>1, <1>2, <1>4, <1>7, ZenonT(60) DEF Delivers
<1>10. SameReplica
  BY <1>1 DEF SameReplica, ReplicaMark, ReplicaValue
<1>11. QED
  BY <1>8, <1>9, <1>10, StayInv, SMTT(60) DEF Stay

-----------------------------------------------------------------------------
(* No step makes a member of an account except an add. *)
LEMMA KnownStep ==
  ASSUME Types, Known, [Next]_vars
  PROVE  Known'
<1>1. work' = work
  BY ZenonT(60) DEF Next, vars, Start, StepOf, WriteRoom, WriteSub, WriteThread, Publish, RpcFails, WorkerFails,
     Relay, ForwardOrdered, ForwardConcurrent, Apply, HandleMembership, Redeliver, PoolApply, PoolCheck,
     PoolClear, MembershipFails, PoolFails, Crash, Rest, load
<1>2. CASE origin' = origin
  BY <1>1, <1>2 DEF Known
<1>3. CASE origin' # origin
  <2>1. PICK r \in rpcs : WriteSub(r)
    BY <1>3, ZenonT(60) DEF Next, vars, Start, StepOf, WriteRoom, WriteThread, Publish, RpcFails, WorkerFails,
       Relay, ForwardOrdered, ForwardConcurrent, Apply, HandleMembership, Redeliver, PoolApply, PoolCheck,
       PoolClear, MembershipFails, PoolFails, Crash, Rest, docs
  <2>2. origin' = Now(r).sub
    BY <1>3, <2>1, ZenonT(60) DEF WriteSub
  <2>3. r.op \in OpNames /\ r.at \in Nat /\ <<r.op, r.arg>> \in work.ops
    BY Zenon DEF Types, RpcsOf
  <2> DEFINE op == r.op
             arg == r.arg
             t == r.at
             in == r.inputs
             h == HandlerOf(op, arg, t, in)
  <2>4. Now(r) = h /\ op \in OpNames /\ t \in Nat /\ <<op, arg>> \in work.ops
    BY <2>3, ZenonT(60) DEF Now
  <2> HIDE DEF op, arg, t, in
  <2>5. HandledAs(h, op, arg, t, in)
    BY HandlersAre
  <2> HIDE DEF h
  <2>6. CASE op = "add"
    BY <1>1, <2>4, <2>6 DEF Known, Ops
  <2>7. CASE op # "add"
    <3>1. h.sub.exists => origin.exists
      <4>1. op = "restrict" => arg \in {"self", "other", "lift"}
        BY <2>4, OpsAre, ZenonT(60) DEF Types
      <4>2. QED
        BY <2>4, <2>5, <2>7, <4>1, HandlerExists, ZenonT(60) DEF Types
    <3>2. QED
      BY <1>1, <2>2, <2>4, <3>1, ZenonT(60) DEF Known
  <2>8. QED
    BY <2>6, <2>7
<1>4. QED
  BY <1>2, <1>3, SMTT(60)

(* Every step keeps the invariant. *)
LEMMA SInvStep ==
  ASSUME MInv, Apart(work), MaxConcurrent <= 1, Steady, SInv, [Next]_vars
  PROVE  SInv'
<1>1. Types /\ membershipCh = <<>> /\ parked = {}
  BY ZenonT(60) DEF MInv, SInv, Exist
<1>2. ASSUME NEW o \in work.ops, Start(o[1], o[2]) PROVE SInv'
  <2> DEFINE op == o[1]
             arg == o[2]
  <2>1. Start(op, arg)
    BY <1>2, SMTT(60)
  <2> HIDE DEF op, arg
  <2>2. QED
    BY <1>1, <2>1, StartInv, ZenonT(60)
<1>3. ASSUME NEW r \in rpcs, WriteRoom(r) \/ WriteSub(r) \/ WriteThread(r) PROVE SInv'
  <2>1. Frame /\ UNCHANGED <<ordered, concurrent, dropped>>
    BY <1>1, <1>3, OriginSteps, ZenonT(60) DEF WriteRoom, WriteSub, WriteThread, Frame, load, outbox, inbox, StepOf, OriginTypes
  <2>2. Moved(r)
    BY <1>1, <1>3, RoomMoves, SubMoves, ThreadMoves, SMTT(60) DEF SInv
  <2>3. QED
    BY <1>1, <1>3, <2>1, <2>2, MovedInv, SMTT(60)
<1>4. CASE OriginActs
  BY <1>1, <1>2, <1>3, <1>4, PublishInv, RpcFailsInv, WorkerFailsInv, ZenonT(60) DEF OriginActs, StepOf
<1>5. CASE Relay
  BY <1>1, <1>5, RelayInv, SMTT(20)
<1>6. ~HandleMembership /\ ~MembershipFails /\ ~Redeliver
  BY <1>1, ZenonT(60) DEF HandleMembership, MembershipFails, Redeliver
<1>7. CASE PoolApply
  BY <1>7, PoolApplyInv
<1>8. CASE PoolCheck \/ PoolClear \/ PoolFails
  BY <1>8, PoolOthersInv
<1>9. CASE Crash
  BY <1>1, <1>9, CrashInv
<1>10. CASE UNCHANGED vars
  <2>1. Delivers
    BY <1>10, Zenon DEF vars, Delivers, SInv, Exist, Sent, Waiting
  <2>2. Stay /\ SameReplica
    BY <1>10, Zenon DEF vars, Stay, Queued, Waiting, SameReplica, ReplicaMark, ReplicaValue
  <2>3. QED
    BY <1>1, <2>1, <2>2, StayInv, SMTT(60)
<1>11. QED
  BY <1>4, <1>5, <1>6, <1>7, <1>8, <1>9, <1>10, Cases, SMTT(60)

(* The inductive invariant holds initially. *)
LEMMA InitCInv == Init => CInv
<1> SUFFICES ASSUME Init PROVE CInv
  OBVIOUS
<1>1. MInv /\ Types
  BY InitMInv DEF MInv
<1>2. /\ origin = IF work.member THEN newSub("general", "off") ELSE NoSub
      /\ replica = origin /\ clock = 0 /\ rpcs = {} /\ ordered = <<>> /\ concurrent = {}
      /\ tsubs = [s \in {"origin", "replica"} |-> [exists |-> work.member, seen |-> 0]]
      /\ membershipCh = <<>> /\ parked = {} /\ pool = {}
  BY Zenon DEF Init
<1>3. Known
  BY <1>2, NoSubIs, ZenonT(60) DEF Known
<1>4. ASSUME Steady PROVE SInv
  <2>1. work.member = TRUE
    <3>1. work.member /\ work.member \in BOOLEAN
      BY <1>1, <1>4, Bounds, ZenonT(60) DEF Steady, Types
    <3>2. QED
      BY <3>1
  <2>2. /\ origin = newSub("general", "off") /\ tsubs.origin = [exists |-> TRUE, seen |-> 0]
        /\ tsubs.replica = tsubs.origin
    BY <1>2, <2>1, ZenonT(60)
  <2>3. /\ origin \in Subs /\ origin.exists /\ origin.seen = 0 /\ \A f \in Fields : origin.at[f] = 0
    <3>1. "general" \in Names /\ "off" \in {"off", "on"}
      BY SMTT(20) DEF Names
    <3>2. QED
      BY <2>2, <3>1, NewSubIs, ZenonT(60)
  <2>4. \A x \in Slots : OriginMark(x) = 0 /\ ReplicaMark(x) = 0 /\ ReplicaValue(x) = OriginValue(x)
    BY <1>2, <2>2, <2>3, ZenonT(60) DEF Slots, OriginMark, ReplicaMark, ReplicaValue, OriginValue, MarkOf
  <2>5. Exist
    <3>1. "favorite" \in Fields /\ "section" \in Fields /\ tsubs.origin \in Threads
      BY <2>2 DEF Fields, Threads
    <3>2. SiteOK(origin, tsubs.origin)
      <4>1. tsubs.origin.exists /\ origin.at["favorite"] = origin.at["section"]
        BY <2>2, <2>3, <3>1, SMTT(60)
      <4>2. QED
        BY <2>3, <3>1, <4>1, ZenonT(60) DEF SiteOK
    <3>3. QED
      BY <1>2, <2>2, <2>3, <3>2, ZenonT(60) DEF Exist
  <2>6. OneRpc /\ RpcWrites
    <3>1. rpcs = {} /\ clock = 0
      BY <1>2, ZenonT(60)
    <3>2. QED
      BY <2>4, <3>1 DEF OneRpc, RpcWrites
  <2>7. SentArePast
    <3>1. \A e : ~Sent(e)
      BY <1>2 DEF Sent, Waiting
    <3>2. QED
      BY <3>1 DEF SentArePast
  <2>8. ReplicaPast /\ AllUnderway
    BY <2>4 DEF ReplicaPast, AllUnderway, Underway
  <2>9. QED
    BY <2>5, <2>6, <2>7, <2>8 DEF SInv
<1>5. QED
  BY <1>1, <1>3, <1>4 DEF CInv

(* The inductive invariant holds always. *)
LEMMA CInvariance == ASSUME FavoritesApart, MaxConcurrent <= 1 PROVE Spec => []CInv
<1>1. Init => CInv
  BY InitCInv
<1>2. CInv /\ [Next]_vars => CInv'
  <2> SUFFICES ASSUME CInv, [Next]_vars PROVE CInv'
    OBVIOUS
  <2>1. MInv /\ Known /\ Types /\ Apart(work)
    BY ZenonT(60) DEF CInv, MInv, Types, FavoritesApart
  <2>2. MInv' /\ Known'
    BY <2>1, MInvStep, KnownStep, SMTT(60)
  <2>3. Steady' => Steady
    <3>1. work' = work
      BY ZenonT(60) DEF Next, vars, Start, StepOf, WriteRoom, WriteSub, WriteThread, Publish, RpcFails, WorkerFails,
         Relay, ForwardOrdered, ForwardConcurrent, Apply, HandleMembership, Redeliver, PoolApply, PoolCheck,
         PoolClear, MembershipFails, PoolFails, Crash, Rest, load
    <3>2. QED
      BY <3>1, SMTT(60) DEF Steady
  <2>4. Steady => SInv'
    BY <2>1, SInvStep, SMTT(60) DEF CInv
  <2>5. QED
    BY <2>2, <2>3, <2>4, SMTT(60) DEF CInv
<1>3. QED
  BY <1>1, <1>2, PTL DEF Spec

(* An account whose documents exist and that no operation adds or removes was a
   member from the start. *)
LEMMA SameSubIs ==
  ASSUME CInv, SameSub
  PROVE  SInv
<1>1. "add" \notin Ops(work) /\ "remove" \notin Ops(work) /\ origin.exists
  BY DEF SameSub, BothExist, Ops
<1>2. QED
  BY <1>1 DEF CInv, Known, Steady

(* The slots of the fields. *)
LEMMA FieldsAre ==
  ASSUME NEW f \in Fields
  PROVE  /\ f \in Slots /\ OriginMark(f) = origin.at[f] /\ ReplicaMark(f) = replica.at[f]
         /\ OriginValue(f) = origin.val[f] /\ ReplicaValue(f) = replica.val[f]
         /\ f \notin Unstamped => f \in Kept
  BY Zenon DEF Slots, Fields, OriginMark, ReplicaMark, OriginValue, ReplicaValue, MarkOf, ValueOf, Kept

(* The slots of the read positions. *)
LEMMA PositionsAre ==
  /\ OriginMark("seen") = origin.seen /\ ReplicaMark("seen") = replica.seen
  /\ OriginMark("thread") = tsubs.origin.seen /\ ReplicaMark("thread") = tsubs.replica.seen
  /\ "seen" \in Slots /\ "thread" \in Slots
  BY Zenon DEF OriginMark, ReplicaMark, MarkOf, Slots

(* With one operation at a time, any number of faults, duplicates and redeliveries,
   and whatever order the lanes and the pool take: the replica of an account that
   stays a member is never ahead of the origin, and under the mark it has it holds
   the value the origin had. *)
THEOREM ReplicaIsPast ==
  ASSUME FavoritesApart, MaxConcurrent <= 1 PROVE Spec => []ReplicaIsPastOrigin
<1>1. CInv => ReplicaIsPastOrigin
  <2> SUFFICES ASSUME CInv, SameSub
               PROVE  /\ \A f \in Fields \ Unstamped :
                           /\ replica.at[f] <= origin.at[f]
                           /\ replica.at[f] = origin.at[f] => replica.val[f] = origin.val[f]
                      /\ replica.seen <= origin.seen
    BY Zenon DEF ReplicaIsPastOrigin
  <2>1. ReplicaPast
    BY SameSubIs, SMTT(20) DEF SInv
  <2>2. QED
    BY <2>1, FieldsAre, PositionsAre, ZenonT(60) DEF ReplicaPast
<1>2. QED
  BY <1>1, CInvariance, PTL

(* Under the same hypotheses: once nothing is in flight, every field, mark and read
   position of the replica is the origin's, unless its newest event was given up. *)
THEOREM ReplicaAgrees ==
  ASSUME FavoritesApart, MaxConcurrent <= 1 PROVE Spec => []ReplicaConverges
<1>1. CInv => ReplicaConverges
  <2> SUFFICES ASSUME CInv, SameSub, Quiescent
               PROVE  /\ \A f \in Fields \ Unstamped : Lost(origin.at[f]) \/ Agree(f)
                      /\ Lost(origin.seen) \/ replica.seen = origin.seen
                      /\ Lost(tsubs.origin.seen) \/ tsubs.replica.seen = tsubs.origin.seen
    BY Zenon DEF ReplicaConverges
  <2>1. ReplicaPast /\ AllUnderway
    BY SameSubIs DEF SInv
  <2>2. \A e : ~Queued(e)
    BY DEF Quiescent, Queued, Waiting
  <2>3. rpcs = {}
    BY DEF Quiescent
  <2>4. \A x \in Slots : ReplicaMark(x) = OriginMark(x) \/ Lost(OriginMark(x))
    BY <2>1, <2>2, <2>3, ZenonT(60) DEF AllUnderway, Underway
  <2>5. ASSUME NEW f \in Fields \ Unstamped PROVE Lost(origin.at[f]) \/ Agree(f)
    BY <2>1, <2>4, <2>5, FieldsAre, ZenonT(60) DEF ReplicaPast, Agree
  <2>6. QED
    BY <2>4, <2>5, PositionsAre, ZenonT(60)
<1>2. QED
  BY <1>1, CInvariance, PTL
=============================================================================
