-------------------------- MODULE FederationProofs --------------------------
(***************************************************************************)
(* Proofs about Federation: the replica keeps last-writer-wins registers,  *)
(* whose marks never regress; and, as long as nothing failed, the home     *)
(* site ends with the membership the room's site decided.                  *)
(* FederationConvergeProofs goes on from here.                             *)
(***************************************************************************)
EXTENDS Federation, TLAPS

-----------------------------------------------------------------------------
(* Types, and where events come from: every event in flight has the type of *)
(* an operation of the workload.                                           *)

OpNames == {"mute", "favorite", "read", "mention", "follow", "reply", "threadRead",
            "threadReadAll", "add", "remove", "move", "role", "restrict", "rename"}
Strings == Sections \cup Names \cup {"", "on", "off", "user", "owner", "self", "other", "lift"}
EventType(op) ==
  CASE op = "mute" -> "subscription_mute_toggled"
    [] op = "favorite" -> "subscription_favorite_toggled"
    [] op = "move" -> "subscription_section_moved"
    [] op = "role" -> "role_updated"
    [] op = "restrict" -> "room_restricted"
    [] op = "read" -> "subscription_read"
    [] op = "threadRead" -> "thread_read"
    [] op = "threadReadAll" -> "thread_read_all"
    [] op = "follow" -> "thread_subscription_upserted"
    [] op = "reply" -> "thread_unread_added"
    [] op = "mention" -> "subscription_mention"
    [] op = "add" -> "member_added"
    [] op = "remove" -> "member_removed"
    [] op = "rename" -> "room_renamed"
Todo(op) ==
  {"sub", "publish"} \cup (IF op \in {"restrict", "rename"} THEN {"room"} ELSE {})
  \cup (IF op \in {"threadRead", "threadReadAll", "remove"} THEN {"tsub"} ELSE {})
TodoOf(op) == IF op = "follow" THEN {"tsub", "publish"} ELSE Todo(op)

Subs == [exists: BOOLEAN, val: [Fields -> Strings], at: [Fields -> Nat], seen: Nat,
         mention: BOOLEAN, unread: BOOLEAN]
Threads == [exists: BOOLEAN, seen: Nat]
RoomDocs == [name: Names, restricted: {"off", "on"}]
Ops(w) == {o[1] : o \in w.ops}
SentBy(w) == {e \in [type: OrderedEventTypes \cup ConcurrentEventTypes, v: Strings, at: Nat] :
                /\ \E op \in Ops(w) : e.type = EventType(op)
                /\ e.type = "room_restricted" => e.v \in {"self", "other", "lift"}
                /\ e.type = "member_added" => e.v \in Names}
DeliveriesOf(w) == [e: SentBy(w), n: Nat, step: {"apply", "check", "clear"}, copy: Nat]
RpcsOf(w) == {r \in [op: OpNames, arg: Strings, at: Nat, todo: SUBSET Steps,
                     ev: SentBy(w), inputs: RoomDocs] :
                /\ <<r.op, r.arg>> \in w.ops /\ r.todo \subseteq TodoOf(r.op)
                /\ r.ev.type = EventType(r.op) /\ r.ev.at = r.at}

Types ==
  /\ work \in Workloads /\ clock \in Nat
  /\ room \in RoomDocs /\ origin \in Subs /\ replica \in Subs
  /\ tsubs \in [{"origin", "replica"} -> Threads]
  /\ rpcs \subseteq RpcsOf(work)
  /\ ordered \in Seq(SentBy(work)) /\ concurrent \subseteq SentBy(work)
  /\ membershipCh \in Seq(DeliveriesOf(work))
  /\ parked \subseteq DeliveriesOf(work) /\ pool \subseteq DeliveriesOf(work)

-----------------------------------------------------------------------------
(* The slots of a subscription that have a mark, and what an event carries. *)

Slots == Fields \cup {"seen", "thread"}
MarkOf(d, th, x) ==
  IF x = "seen" THEN d.seen ELSE IF x = "thread" THEN th.seen ELSE d.at[x]
ValueOf(d, x) == IF x \in Fields THEN d.val[x] ELSE ""

Carried(type) ==
  CASE type = "subscription_mute_toggled" -> {"mute"}
    [] type = "subscription_favorite_toggled" -> {"favorite"}
    [] type = "subscription_section_moved" -> {"section", "favorite"}
    [] type = "role_updated" -> {"roles"}
    [] type = "room_restricted" -> {"restrict"}
    [] type = "room_renamed" -> {"name"}
    [] type = "subscription_read" -> {"seen"}
    [] type \in {"thread_read", "thread_read_all"} -> {"thread"}
    [] OTHER -> {}
CarriedValue(e, x) ==
  CASE x \in {"seen", "thread"} -> ""
    [] x = "favorite" /\ e.type = "subscription_section_moved" ->
         IF e.v = "favorites" THEN "on" ELSE "off"
    [] x = "restrict" -> Restricted(e.v)
    [] OTHER -> e.v

-----------------------------------------------------------------------------
(* The inductive invariant. *)

NoFavorites == "favorite" \notin Ops(work)
SiteOK(d, th) == /\ d \in Subs /\ th \in Threads /\ (~th.exists => th.seen = 0)
                 /\ NoFavorites => d.at["favorite"] = d.at["section"]
MInv == Types /\ SiteOK(replica, tsubs.replica)

-----------------------------------------------------------------------------
(* Types. *)

(* The operations of a workload and their arguments. *)
LEMMA OpsAre ==
  ASSUME NEW w \in Workloads, NEW op, NEW arg, <<op, arg>> \in w.ops
  PROVE  /\ op \in OpNames /\ arg \in Strings /\ op \in Ops(w)
         /\ op = "move" => arg \in Sections
         /\ op = "role" => arg \in {"user", "owner"}
         /\ op = "restrict" => arg \in {"self", "other", "lift"}
         /\ op = "rename" => arg \in Names
<1>1. <<op, arg>> \in AllOps
  BY Bounds
<1>2. op \in Ops(w)
  BY DEF Ops
<1>3. QED
  BY <1>1, <1>2, Zenon DEF AllOps, OpNames, Strings

(* One event type for each operation. *)
LEMMA TypesOfOps ==
  /\ EventType("mute") = "subscription_mute_toggled"
  /\ EventType("favorite") = "subscription_favorite_toggled"
  /\ EventType("move") = "subscription_section_moved"
  /\ EventType("role") = "role_updated"
  /\ EventType("restrict") = "room_restricted"
  /\ EventType("read") = "subscription_read"
  /\ EventType("threadRead") = "thread_read"
  /\ EventType("threadReadAll") = "thread_read_all"
  /\ EventType("follow") = "thread_subscription_upserted"
  /\ EventType("reply") = "thread_unread_added"
  /\ EventType("mention") = "subscription_mention"
  /\ EventType("add") = "member_added"
  /\ EventType("remove") = "member_removed"
  /\ EventType("rename") = "room_renamed"
  BY DEF EventType

(* An operation's event is on one of the lanes, and its type tells the operation. *)
LEMMA EventTypes ==
  ASSUME NEW op \in OpNames
  PROVE  /\ EventType(op) \in OrderedEventTypes \cup ConcurrentEventTypes /\ TodoOf(op) \subseteq Steps
         /\ EventType(op) = "subscription_favorite_toggled" <=> op = "favorite"
         /\ EventType(op) = "room_restricted" <=> op = "restrict"
         /\ EventType(op) = "member_added" <=> op = "add"
         /\ EventType(op) = "member_removed" <=> op = "remove"
         /\ EventType(op) = "subscription_section_moved" <=> op = "move"
<1>1. TodoOf(op) \subseteq Steps
  BY DEF TodoOf, Todo, Steps
<1>2. EventType(op) \in OrderedEventTypes \cup ConcurrentEventTypes
  BY TypesOfOps DEF OpNames, OrderedEventTypes, ConcurrentEventTypes
<1>3. QED
  BY <1>1, <1>2, TypesOfOps DEF OpNames

(* A stamp changes one field and its mark. *)
LEMMA StampIs ==
  ASSUME NEW d \in Subs, NEW f \in Fields, NEW v \in Strings, NEW t \in Nat
  PROVE  /\ Stamp(d, f, v, t) \in Subs
         /\ Stamp(d, f, v, t).at = [d.at EXCEPT ![f] = t]
         /\ Stamp(d, f, v, t).val = [d.val EXCEPT ![f] = v]
         /\ Stamp(d, f, v, t).seen = d.seen
         /\ Stamp(d, f, v, t).exists = d.exists
  BY Zenon DEF Stamp, Subs

(* What changes the value of a field without its mark. *)
LEMMA LeaveIs ==
  ASSUME NEW d \in Subs
  PROVE  LET e == LeaveFavorites(d) IN
         /\ e \in Subs /\ e.at = d.at /\ e.seen = d.seen /\ e.exists = d.exists
         /\ \A f \in Fields : f # "section" => e.val[f] = d.val[f]
<1>1. "none" \in Strings
  BY DEF Strings, Sections
<1>2. QED
  BY <1>1 DEF LeaveFavorites, Subs, Fields

(* A change of owner writes roles and stamps nothing. *)
LEMMA OwnerIs ==
  ASSUME NEW d \in Subs, NEW owner \in {"self", "other", ""}
  PROVE  LET e == OwnerRoles(d, owner) IN
         /\ e \in Subs /\ e.at = d.at /\ e.seen = d.seen /\ e.exists = d.exists
         /\ \A f \in Fields : f # "roles" => e.val[f] = d.val[f]
<1>1. "owner" \in Strings /\ "user" \in Strings
  BY Zenon DEF Strings
<1>2. QED
  BY <1>1, Zenon DEF OwnerRoles, Subs, Fields

(* A new subscription has no marks. *)
LEMMA NewSubIs ==
  ASSUME NEW name \in Names, NEW restricted \in {"off", "on"}
  PROVE  /\ newSub(name, restricted) \in Subs
         /\ newSub(name, restricted).exists
         /\ \A f \in Fields : newSub(name, restricted).at[f] = 0
         /\ newSub(name, restricted).seen = 0
  BY Zenon DEF newSub, Subs, Strings, Sections, Names, Fields

(* Neither has one that was removed. *)
LEMMA NoSubIs == /\ NoSub \in Subs /\ ~NoSub.exists 
                 /\ \A f \in Fields : NoSub.at[f] = 0
  BY Zenon DEF NoSub, newSub, Subs, Strings, Sections, Names, Fields

-----------------------------------------------------------------------------
(* What each handler is about. *)

Handles(h, op, v, sub, thread) ==
  /\ h.type = EventType(op) /\ h.v = v /\ h.todo = TodoOf(op)
  /\ h.sub = sub /\ h.thread = thread
HandledAs(h, op, arg, t, inputs) ==
  /\ op = "mute" =>
        Handles(h, op, ToggleSubscriptionMute(origin, t).val["mute"],
                ToggleSubscriptionMute(origin, t), tsubs.origin)
  /\ op = "favorite" =>
        Handles(h, op, ToggleSubscriptionFavorite(origin, t).val["favorite"],
                ToggleSubscriptionFavorite(origin, t), tsubs.origin)
  /\ op = "move" => Handles(h, op, arg, MoveSubscriptionSection(origin, arg, t), tsubs.origin)
  /\ op = "role" => Handles(h, op, arg, SetOwnerRole(origin, arg, t), tsubs.origin)
  /\ op = "restrict" =>
        Handles(h, op, arg,
                ApplySubscriptionRestriction(origin, Restricted(arg), Owner(arg), t), tsubs.origin)
  /\ op = "read" => Handles(h, op, "", UpdateSubscriptionRead(origin, t), tsubs.origin)
  /\ op = "threadRead" => Handles(h, op, "", PullThreadUnread(origin), SeenAt(tsubs.origin, t))
  /\ op = "threadReadAll" => Handles(h, op, "", PullThreadUnread(origin), SeenAt(tsubs.origin, t))
  /\ op = "follow" =>
        Handles(h, op, "",
                origin, (IF tsubs.origin.exists THEN tsubs.origin ELSE [exists |-> TRUE, seen |-> 0]))
  /\ op = "reply" => Handles(h, op, "", AddThreadUnread(origin), tsubs.origin)
  /\ op = "mention" => Handles(h, op, "", SetMention(origin, t), tsubs.origin)
  /\ op = "add" => Handles(h, op, inputs.name, newSub(inputs.name, inputs.restricted), tsubs.origin)
  /\ op = "remove" => Handles(h, op, "", NoSub, NoThread)
  /\ op = "rename" => Handles(h, op, arg, UpdateSubscriptionNamesForRoom(origin, arg, t), tsubs.origin)

(* Each handler builds the event and the documents HandledAs says. *)
LEMMA HandlersAre ==
  ASSUME NEW op, NEW arg, NEW t, NEW inputs
  PROVE  HandledAs(HandlerOf(op, arg, t, inputs), op, arg, t, inputs)
<1> DEFINE h == HandlerOf(op, arg, t, inputs)
<1>1. op = "mute" =>
      Handles(h, op, ToggleSubscriptionMute(origin, t).val["mute"],
              ToggleSubscriptionMute(origin, t), tsubs.origin)
  BY TypesOfOps DEF Handles, HandlerOf, muteToggle, Handler, TodoOf, Todo
<1>2. op = "favorite" =>
      Handles(h, op, ToggleSubscriptionFavorite(origin, t).val["favorite"],
              ToggleSubscriptionFavorite(origin, t), tsubs.origin)
  BY TypesOfOps DEF Handles, HandlerOf, favoriteToggle, Handler, TodoOf, Todo
<1>3. op = "move" => Handles(h, op, arg, MoveSubscriptionSection(origin, arg, t), tsubs.origin)
  BY TypesOfOps DEF Handles, HandlerOf, moveChat, Handler, TodoOf, Todo
<1>4. op = "role" => Handles(h, op, arg, SetOwnerRole(origin, arg, t), tsubs.origin)
  BY TypesOfOps, Zenon DEF Handles, HandlerOf, updateRole, Handler, TodoOf, Todo
<1>5. op = "restrict" =>
      Handles(h, op, arg,
              ApplySubscriptionRestriction(origin, Restricted(arg), Owner(arg), t), tsubs.origin)
  BY TypesOfOps, ZenonT(60) DEF Handles, HandlerOf, roomRestricted, Handler, TodoOf, Todo
<1>6. op = "read" => Handles(h, op, "", UpdateSubscriptionRead(origin, t), tsubs.origin)
  BY TypesOfOps, Zenon DEF Handles, HandlerOf, messageRead, Handler, TodoOf, Todo
<1>7. op = "threadRead" => Handles(h, op, "", PullThreadUnread(origin), SeenAt(tsubs.origin, t))
  BY TypesOfOps, ZenonT(60) DEF Handles, HandlerOf, messageThreadRead, Handler, TodoOf, Todo
<1>8. op = "threadReadAll" => Handles(h, op, "", PullThreadUnread(origin), SeenAt(tsubs.origin, t))
  BY TypesOfOps, ZenonT(60) DEF Handles, HandlerOf, clearAllThreadRead, Handler, TodoOf, Todo
<1>9. op = "follow" =>
      Handles(h, op, "",
              origin, (IF tsubs.origin.exists THEN tsubs.origin ELSE [exists |-> TRUE, seen |-> 0]))
  BY TypesOfOps, ZenonT(60) DEF Handles, HandlerOf, healParentThreadSub, Handler, TodoOf, Todo
<1>10. op = "reply" => Handles(h, op, "", AddThreadUnread(origin), tsubs.origin)
  BY TypesOfOps, ZenonT(60) DEF Handles, HandlerOf, fanOutThreadUnread, Handler, TodoOf, Todo
<1>11. op = "mention" => Handles(h, op, "", SetMention(origin, t), tsubs.origin)
  BY TypesOfOps, ZenonT(60) DEF Handles, HandlerOf, federateMentions, Handler, TodoOf, Todo
<1>12. op = "add" => Handles(h, op, inputs.name, newSub(inputs.name, inputs.restricted), tsubs.origin)
  BY TypesOfOps, ZenonT(60) DEF Handles, HandlerOf, processAddMembers, Handler, TodoOf, Todo
<1>13. op = "remove" => Handles(h, op, "", NoSub, NoThread)
  BY TypesOfOps, ZenonT(60) DEF Handles, HandlerOf, processRemoveIndividual, Handler, TodoOf, Todo
<1>14. op = "rename" => Handles(h, op, arg, UpdateSubscriptionNamesForRoom(origin, arg, t), tsubs.origin)
  BY TypesOfOps, ZenonT(60) DEF Handles, HandlerOf, processRoomRename, Handler, TodoOf, Todo
<1> HIDE DEF h
<1>15. HandledAs(h, op, arg, t, inputs)
  BY <1>1, <1>2, <1>3, <1>4, <1>5, <1>6, <1>7, <1>8, <1>9, <1>10, <1>11, <1>12, <1>13, <1>14,
     Zenon DEF HandledAs
<1>16. QED
  BY <1>15 DEF h

(* The handlers find the documents of a member, who lives at another site. *)
LEMMA FoundIs ==
  ASSUME NEW op \in OpNames \ {"add"}, NEW arg, NEW t, NEW inputs, origin.exists, tsubs.origin.exists
  PROVE  HandlerOf(op, arg, t, inputs).found /\ HandlerOf(op, arg, t, inputs).remote
  BY ZenonT(60) DEF OpNames, HandlerOf, muteToggle, favoriteToggle, moveChat, updateRole, roomRestricted,
     messageRead, messageThreadRead, clearAllThreadRead, healParentThreadSub, fanOutThreadUnread,
     federateMentions, processRemoveIndividual, processRoomRename, Handler

(* A handler leaves a room document. *)
LEMMA RoomIs ==
  ASSUME room \in RoomDocs, NEW op \in OpNames, NEW arg, op = "rename" => arg \in Names, NEW t, NEW inputs
  PROVE  HandlerOf(op, arg, t, inputs).room \in RoomDocs
<1>1. CASE op \notin {"restrict", "rename"}
  <2>1. HandlerOf(op, arg, t, inputs).room = room
    BY <1>1 DEF OpNames, HandlerOf, muteToggle, favoriteToggle, moveChat, updateRole,
       messageRead, messageThreadRead, clearAllThreadRead, healParentThreadSub, fanOutThreadUnread,
       federateMentions, processAddMembers, processRemoveIndividual, Handler
  <2>2. QED
    BY <2>1
<1>2. CASE op = "restrict"
  BY <1>2, Zenon DEF HandlerOf, roomRestricted, Handler, RoomDocs, Restricted
<1>3. CASE op = "rename"
  BY <1>3, Zenon DEF HandlerOf, processRoomRename, Handler, RoomDocs
<1>4. QED
  BY <1>1, <1>2, <1>3

(* Every write of the origin keeps the types. *)
LEMMA SubWrites ==
  ASSUME origin \in Subs, NEW t \in Nat
  PROVE  /\ ToggleSubscriptionMute(origin, t) \in Subs
         /\ ToggleSubscriptionFavorite(origin, t) \in Subs
         /\ \A s \in Sections : MoveSubscriptionSection(origin, s, t) \in Subs
         /\ \A role \in {"user", "owner"} : SetOwnerRole(origin, role, t) \in Subs
         /\ \A arg \in {"self", "other", "lift"} :
              ApplySubscriptionRestriction(origin, Restricted(arg), Owner(arg), t) \in Subs
         /\ UpdateSubscriptionRead(origin, t) \in Subs /\ PullThreadUnread(origin) \in Subs
         /\ AddThreadUnread(origin) \in Subs /\ SetMention(origin, t) \in Subs
         /\ \A name \in Names : UpdateSubscriptionNamesForRoom(origin, name, t) \in Subs
<1>1. /\ \A v \in {"on", "off", "user", "owner"} : v \in Strings
      /\ Sections \subseteq Strings /\ Names \subseteq Strings
      /\ \A f \in {"mute", "favorite", "section", "roles", "restrict", "name"} : f \in Fields
      /\ \A v : Flip(v) \in {"on", "off"}
  BY Zenon DEF Strings, Fields, Flip
<1>2. ToggleSubscriptionMute(origin, t) \in Subs
  BY <1>1, StampIs, ZenonT(60) DEF ToggleSubscriptionMute
<1>3. ToggleSubscriptionFavorite(origin, t) \in Subs
  <2>1. Stamp(origin, "favorite", Flip(origin.val["favorite"]), t) \in Subs
    BY <1>1, StampIs, ZenonT(60)
  <2>2. QED
    BY <2>1, LeaveIs DEF ToggleSubscriptionFavorite
<1>4. ASSUME NEW s \in Sections PROVE MoveSubscriptionSection(origin, s, t) \in Subs
  BY <1>1, StampIs, Zenon DEF MoveSubscriptionSection
<1>5. ASSUME NEW role \in {"user", "owner"} PROVE SetOwnerRole(origin, role, t) \in Subs
  BY <1>1, StampIs, Zenon DEF SetOwnerRole
<1>6. ASSUME NEW arg \in {"self", "other", "lift"}
      PROVE  ApplySubscriptionRestriction(origin, Restricted(arg), Owner(arg), t) \in Subs
  <2>1. Restricted(arg) \in Strings /\ Owner(arg) \in {"self", "other", ""}
    BY <1>1, Zenon DEF Restricted, Owner
  <2>2. Stamp(origin, "restrict", Restricted(arg), t) \in Subs
    BY <1>1, <2>1, StampIs, Zenon
  <2>3. QED
    BY <2>1, <2>2, OwnerIs, Zenon DEF ApplySubscriptionRestriction
<1>7. /\ UpdateSubscriptionRead(origin, t) \in Subs /\ PullThreadUnread(origin) \in Subs
      /\ AddThreadUnread(origin) \in Subs /\ SetMention(origin, t) \in Subs
  BY Zenon DEF UpdateSubscriptionRead, PullThreadUnread, AddThreadUnread, SetMention, Subs
<1>8. ASSUME NEW name \in Names PROVE UpdateSubscriptionNamesForRoom(origin, name, t) \in Subs
  BY <1>1, StampIs, Zenon DEF UpdateSubscriptionNamesForRoom
<1>9. QED
  BY <1>2, <1>3, <1>4, <1>5, <1>6, <1>7, <1>8

(* What a handler writes and sends has its type. *)
LEMMA HandlerTypes ==
  ASSUME Types, NEW op, NEW arg, <<op, arg>> \in work.ops, NEW t \in Nat, NEW inputs \in RoomDocs
  PROVE  LET h == HandlerOf(op, arg, t, inputs) IN
         /\ h.type = EventType(op) /\ h.v \in Strings /\ h.todo = TodoOf(op)
         /\ h.room \in RoomDocs /\ h.sub \in Subs /\ h.thread \in Threads
         /\ Event(h, t) \in SentBy(work)
         /\ op = "rename" => h.v = arg
<1> DEFINE h == HandlerOf(op, arg, t, inputs)
<1>1. /\ op \in OpNames /\ arg \in Strings /\ op \in Ops(work)
      /\ op = "move" => arg \in Sections
      /\ op = "role" => arg \in {"user", "owner"}
      /\ op = "rename" => arg \in Names
      /\ op = "restrict" => arg \in {"self", "other", "lift"}
  BY OpsAre DEF Types
<1>2. origin \in Subs /\ tsubs.origin \in Threads /\ room \in RoomDocs
  BY DEF Types
<1>0. HandledAs(h, op, arg, t, inputs)
  BY HandlersAre
<1>3. h.room \in RoomDocs
  BY <1>1, <1>2, RoomIs, Zenon
<1> HIDE DEF h
<1>4. h.type = EventType(op) /\ h.todo = TodoOf(op)
  BY <1>1, <1>0, Zenon DEF OpNames, HandledAs, Handles
<1>5. h.sub \in Subs
  <2>1. op \in {"mute", "favorite", "move", "role", "restrict"} => h.sub \in Subs
    BY <1>1, <1>2, SubWrites, <1>0, Zenon DEF HandledAs, Handles
  <2>2. op \in {"read", "threadRead", "threadReadAll", "follow", "reply", "mention", "rename"} => h.sub \in Subs
    BY <1>1, <1>2, SubWrites, <1>0, Zenon DEF HandledAs, Handles
  <2>3. op \in {"add", "remove"} => h.sub \in Subs
    BY <1>1, <1>2, NewSubIs, NoSubIs, <1>0, ZenonT(60) DEF HandledAs, Handles, RoomDocs
  <2>4. QED
    BY <1>1, <2>1, <2>2, <2>3 DEF OpNames
<1>6. h.thread \in Threads
  <2>1. /\ NoThread \in Threads /\ SeenAt(tsubs.origin, t) \in Threads
        /\ (IF tsubs.origin.exists THEN tsubs.origin ELSE [exists |-> TRUE, seen |-> 0]) \in Threads
    BY <1>2 DEF NoThread, SeenAt, Threads
  <2>2. QED
    BY <1>1, <1>2, <2>1, <1>0, Zenon DEF OpNames, HandledAs, Handles
<1>7. h.v \in Strings
  <2>1. /\ \A v \in {"", "on", "off"} : v \in Strings /\ Names \subseteq Strings
        /\ inputs.name \in Names /\ "mute" \in Fields /\ "favorite" \in Fields
    BY Zenon DEF Strings, RoomDocs, Fields
  <2>2. \A d \in Subs : d.val["mute"] \in Strings /\ d.val["favorite"] \in Strings
    BY <2>1, Zenon DEF Subs
  <2>3. op \in {"mute", "favorite"} => h.v \in Strings
    BY <1>1, <1>2, <2>2, SubWrites, <1>0, Zenon DEF HandledAs, Handles
  <2>4. op \notin {"mute", "favorite"} => h.v \in {arg, "", inputs.name}
    BY <1>1, <1>0, Zenon DEF OpNames, HandledAs, Handles
  <2>5. QED
    BY <1>1, <2>1, <2>3, <2>4, Zenon
<1>8. Event(h, t) \in SentBy(work)
  <2>1. op = "add" => h.v \in Names
    BY <1>0, Zenon DEF HandledAs, Handles, RoomDocs
  <2>2. op = "restrict" => h.v = arg
    BY <1>0, Zenon DEF HandledAs, Handles
  <2>3. QED
    BY <1>1, <1>4, <1>7, <2>1, <2>2, EventTypes DEF Event, SentBy
<1>9. op = "rename" => h.v = arg
  BY <1>0, Zenon DEF HandledAs, Handles
<1>10. QED
  BY <1>3, <1>4, <1>5, <1>6, <1>7, <1>8, <1>9 DEF h

-----------------------------------------------------------------------------
(* The replica's slots are last-writer-wins registers: an event is applied to *)
(* the slots it carries and is newer than, and to nothing else -- but for the *)
(* fields in Unstamped.                                                    *)

Apart(w) == "favorite" \notin Ops(w) \/ "move" \notin Ops(w)
Applies(e, d, th, x) ==
  x \in Carried(e.type) /\ (IF x = "thread" THEN th.exists ELSE d.exists) /\ MarkOf(d, th, x) < e.at
Registers(e, d, th, d2, th2) ==
  \A x \in Slots :
    /\ MarkOf(d2, th2, x) = IF Applies(e, d, th, x) THEN e.at ELSE MarkOf(d, th, x)
    /\ x \notin Unstamped =>
         ValueOf(d2, x) = IF Applies(e, d, th, x) THEN CarriedValue(e, x) ELSE ValueOf(d, x)

(* The slots each event type carries. *)
LEMMA CarriedIs ==
  /\ Carried("subscription_mute_toggled") = {"mute"}
  /\ Carried("subscription_favorite_toggled") = {"favorite"}
  /\ Carried("subscription_section_moved") = {"section", "favorite"}
  /\ Carried("role_updated") = {"roles"}
  /\ Carried("room_restricted") = {"restrict"}
  /\ Carried("room_renamed") = {"name"}
  /\ Carried("subscription_read") = {"seen"}
  /\ Carried("thread_read") = {"thread"}
  /\ Carried("thread_read_all") = {"thread"}
  /\ Carried("thread_subscription_upserted") = {}
  /\ Carried("thread_unread_added") = {}
  /\ Carried("subscription_mention") = {}
  /\ Carried("member_added") = {}
  /\ Carried("member_removed") = {}
  BY DEF Carried

(* A field's own guarded update. *)
LEMMA StampRegisters ==
  ASSUME NEW d \in Subs, NEW th, NEW f \in Fields, NEW e, e.at \in Nat, NEW v \in Strings,
         Carried(e.type) = {f}, CarriedValue(e, f) = v
  PROVE  LET d2 == IF Newer(d, f, e.at) THEN Stamp(d, f, v, e.at) ELSE d IN
         d2 \in Subs /\ d2.exists = d.exists /\ Registers(e, d, th, d2, th)
<1> DEFINE s == Stamp(d, f, v, e.at)
<1>1. /\ s \in Subs /\ s.exists = d.exists /\ s.seen = d.seen
      /\ s.at = [d.at EXCEPT ![f] = e.at] /\ s.val = [d.val EXCEPT ![f] = v]
  BY StampIs
<1>2. d.at \in [Fields -> Nat] /\ d.val \in [Fields -> Strings] /\ f \notin {"seen", "thread"}
  BY DEF Subs, Fields
<1> HIDE DEF s
<1>3. CASE Newer(d, f, e.at)
  <2>1. \A x \in Slots : Applies(e, d, th, x) <=> x = f
    BY <1>2, <1>3 DEF Applies, Newer, MarkOf
  <2>2. \A x \in Slots : /\ MarkOf(s, th, x) = IF x = f THEN e.at ELSE MarkOf(d, th, x)
                         /\ ValueOf(s, x) = IF x = f THEN v ELSE ValueOf(d, x)
    BY <1>1, <1>2, Zenon DEF MarkOf, ValueOf, Slots
  <2>3. Registers(e, d, th, s, th)
    BY <2>1, <2>2 DEF Registers
  <2>4. QED
    BY <1>1, <1>3, <2>3 DEF s
<1>4. CASE ~Newer(d, f, e.at)
  <2>1. \A x \in Slots : ~Applies(e, d, th, x)
    BY <1>2, <1>4 DEF Applies, Newer, MarkOf
  <2>2. QED
    BY <1>4, <2>1 DEF Registers
<1>5. QED
  BY <1>3, <1>4

(* Events come from operations of the workload. *)
LEMMA SentByOps ==
  ASSUME Types, NEW e \in SentBy(work)
  PROVE  /\ e.type = "subscription_favorite_toggled" => "favorite" \in Ops(work)
         /\ e.type = "room_restricted" => "restrict" \in Ops(work)
         /\ e.type = "subscription_section_moved" => "move" \in Ops(work)
         /\ e.type = "member_added" => "add" \in Ops(work)
         /\ e.type = "member_removed" => "remove" \in Ops(work)
         /\ e.type \in OrderedEventTypes \cup ConcurrentEventTypes
<1>1. PICK op \in Ops(work) : e.type = EventType(op)
  BY DEF SentBy
<1>2. PICK o \in work.ops : op = o[1]
  BY DEF Ops
<1>3. o \in AllOps
  BY Bounds DEF Types
<1>4. op \in OpNames
  BY <1>2, <1>3, Zenon DEF AllOps, OpNames
<1>5. QED
  BY <1>1, <1>4, EventTypes

(* The fields that are written without a stamp, and by which operations. *)
LEMMA UnstampedIs ==
  ASSUME Types
  PROVE  /\ Unstamped \subseteq {"roles", "section"}
         /\ "roles" \in Unstamped <=> "restrict" \in Ops(work)
         /\ "section" \in Unstamped <=> "favorite" \in Ops(work)
  BY DEF Unstamped, Ops

(* An event that carries nothing and leaves the marked slots as they are. *)
LEMMA NoRegister ==
  ASSUME NEW d \in Subs, NEW th, NEW e, NEW d2, NEW th2, Carried(e.type) = {},
         d2.at = d.at, d2.val = d.val, d2.seen = d.seen, th2.seen = th.seen
  PROVE  Registers(e, d, th, d2, th2)
<1>1. \A x : ~Applies(e, d, th, x)
  BY DEF Applies
<1>2. QED
  BY <1>1, Zenon DEF Registers, MarkOf, ValueOf

(* A favorite event is applied to the favorite slot only, the unstamped section aside. *)
LEMMA FavoriteRegisters ==
  ASSUME Types, NEW d \in Subs, NEW th, NEW e \in SentBy(work), e.type = "subscription_favorite_toggled"
  PROVE  LET d2 == inboxUpdateSubscriptionFavorite(d, e.v, e.at) IN
         d2 \in Subs /\ d2.exists = d.exists /\ Registers(e, d, th, d2, th)
<1> DEFINE s == IF Newer(d, "favorite", e.at) THEN Stamp(d, "favorite", e.v, e.at) ELSE d
           d2 == inboxUpdateSubscriptionFavorite(d, e.v, e.at)
<1>1. e.v \in Strings /\ e.at \in Nat /\ "favorite" \in Fields
  BY DEF SentBy, Fields
<1>2. CarriedValue(e, "favorite") = e.v /\ Carried(e.type) = {"favorite"}
  BY CarriedIs DEF CarriedValue
<1>3. s \in Subs /\ s.exists = d.exists /\ Registers(e, d, th, s, th)
  BY <1>1, <1>2, StampRegisters, Zenon
<1>4. "section" \in Unstamped
  BY SentByOps, UnstampedIs
<1>5. d2 = s \/ d2 = LeaveFavorites(s)
  BY DEF inboxUpdateSubscriptionFavorite
<1> HIDE DEF s, d2
<1>6. /\ d2 \in Subs /\ d2.at = s.at /\ d2.seen = s.seen /\ d2.exists = s.exists
      /\ \A f \in Fields : f # "section" => d2.val[f] = s.val[f]
  BY <1>3, <1>5, LeaveIs
<1>7. \A x \in Slots : /\ MarkOf(d2, th, x) = MarkOf(s, th, x)
                       /\ x # "section" => ValueOf(d2, x) = ValueOf(s, x)
  BY <1>6, Zenon DEF MarkOf, ValueOf
<1>8. Registers(e, d, th, d2, th)
  BY <1>3, <1>4, <1>7 DEF Registers
<1>9. QED
  BY <1>3, <1>6, <1>8 DEF d2

(* A restriction is applied to the restrict slot only, unstamped roles aside. *)
LEMMA RestrictRegisters ==
  ASSUME Types, NEW d \in Subs, NEW th, NEW e \in SentBy(work), e.type = "room_restricted"
  PROVE  LET d2 == inboxApplySubscriptionRestriction(d, Restricted(e.v), Owner(e.v), e.at) IN
         d2 \in Subs /\ d2.exists = d.exists /\ Registers(e, d, th, d2, th)
<1> DEFINE s == IF Newer(d, "restrict", e.at) THEN Stamp(d, "restrict", Restricted(e.v), e.at) ELSE d
           d2 == inboxApplySubscriptionRestriction(d, Restricted(e.v), Owner(e.v), e.at)
<1>1. /\ Restricted(e.v) \in Strings /\ e.at \in Nat /\ "restrict" \in Fields
      /\ Owner(e.v) \in {"self", "other", ""}
  BY Zenon DEF SentBy, Fields, Restricted, Strings, Owner
<1>2. CarriedValue(e, "restrict") = Restricted(e.v) /\ Carried(e.type) = {"restrict"}
  BY CarriedIs DEF CarriedValue
<1>3. s \in Subs /\ s.exists = d.exists /\ Registers(e, d, th, s, th)
  BY <1>1, <1>2, StampRegisters, Zenon
<1>4. "roles" \in Unstamped
  BY SentByOps, UnstampedIs
<1>5. d2 = s \/ d2 = OwnerRoles(s, Owner(e.v))
  BY DEF inboxApplySubscriptionRestriction, ApplySubscriptionRestriction
<1> HIDE DEF s, d2
<1>6. /\ d2 \in Subs /\ d2.at = s.at /\ d2.seen = s.seen /\ d2.exists = s.exists
      /\ \A f \in Fields : f # "roles" => d2.val[f] = s.val[f]
  <2>1. CASE d2 = s
    BY <1>3, <2>1
  <2>2. CASE d2 = OwnerRoles(s, Owner(e.v))
    <3> DEFINE o == Owner(e.v)
    <3>1. o \in {"self", "other", ""} /\ d2 = OwnerRoles(s, o)
      BY <1>1, <2>2, Zenon
    <3> HIDE DEF o
    <3>2. QED
      BY <1>3, <3>1, OwnerIs, ZenonT(60)
  <2>3. QED
    BY <1>5, <2>1, <2>2
<1>7. \A x \in Slots : /\ MarkOf(d2, th, x) = MarkOf(s, th, x)
                       /\ x # "roles" => ValueOf(d2, x) = ValueOf(s, x)
  BY <1>6, Zenon DEF MarkOf, ValueOf
<1>8. Registers(e, d, th, d2, th)
  BY <1>3, <1>4, <1>7 DEF Registers
<1>9. QED
  BY <1>3, <1>6, <1>8, Zenon DEF d2

(* A section move stamps both fields under the section's mark: sound where the
   two marks move together. *)
LEMMA MoveRegisters ==
  ASSUME Types, NEW d \in Subs, NEW th, NEW e \in SentBy(work), e.type = "subscription_section_moved",
         d.at["favorite"] = d.at["section"]
  PROVE  LET d2 == inboxUpdateSubscriptionSection(d, e.v, e.at) IN
         /\ d2 \in Subs /\ d2.exists = d.exists /\ Registers(e, d, th, d2, th)
         /\ d2.at["favorite"] = d2.at["section"]
<1> DEFINE v == IF e.v = "favorites" THEN "on" ELSE "off"
           s == Stamp(d, "section", e.v, e.at)
           m == Stamp(s, "favorite", v, e.at)
<1>1. e.v \in Strings /\ e.at \in Nat /\ "favorite" \in Fields /\ "section" \in Fields /\ v \in Strings
  BY Zenon DEF SentBy, Fields, Strings
<1>4. /\ CarriedValue(e, "favorite") = v /\ CarriedValue(e, "section") = e.v
      /\ Carried(e.type) = {"section", "favorite"}
  BY CarriedIs DEF CarriedValue
<1> HIDE DEF v
<1>2. /\ s \in Subs /\ s.exists = d.exists /\ s.seen = d.seen
      /\ s.at = [d.at EXCEPT !["section"] = e.at] /\ s.val = [d.val EXCEPT !["section"] = e.v]
  BY <1>1, StampIs
<1> HIDE DEF s
<1>3. /\ m \in Subs /\ m.exists = s.exists /\ m.seen = s.seen
      /\ m.at = [s.at EXCEPT !["favorite"] = e.at] /\ m.val = [s.val EXCEPT !["favorite"] = v]
  <2>1. s \in Subs
    BY <1>2
  <2>2. QED
    BY <1>1, <2>1, StampIs
<1>5. d.at \in [Fields -> Nat] /\ d.val \in [Fields -> Strings]
  BY DEF Subs
<1> HIDE DEF m
<1>6. CASE Newer(d, "section", e.at)
  <2>1. \A x \in Slots : Applies(e, d, th, x) <=> x \in {"section", "favorite"}
    BY <1>4, <1>5, <1>6, Zenon DEF Applies, Newer, MarkOf
  <2>6. /\ m.at = [[d.at EXCEPT !["section"] = e.at] EXCEPT !["favorite"] = e.at] /\ m.seen = d.seen
        /\ m.val = [[d.val EXCEPT !["section"] = e.v] EXCEPT !["favorite"] = v]
    BY <1>2, <1>3
  <2>7. \A f \in Fields :
           /\ m.at[f] = IF f \in {"section", "favorite"} THEN e.at ELSE d.at[f]
           /\ m.val[f] = IF f = "favorite" THEN v ELSE IF f = "section" THEN e.v ELSE d.val[f]
    BY <1>5, <2>6
  <2>2. \A x \in Slots : /\ MarkOf(m, th, x) = IF x \in {"section", "favorite"} THEN e.at ELSE MarkOf(d, th, x)
                         /\ ValueOf(m, x) = IF x = "favorite" THEN v
                                            ELSE IF x = "section" THEN e.v ELSE ValueOf(d, x)
    BY <1>1, <2>6, <2>7, Zenon DEF MarkOf, ValueOf, Slots
  <2>3. Registers(e, d, th, m, th)
    BY <1>4, <2>1, <2>2 DEF Registers
  <2>4. m.at["favorite"] = m.at["section"]
    BY <1>1, <1>2, <1>3, <1>5
  <2>5. QED
    BY <1>2, <1>3, <1>6, <2>3, <2>4, ZenonT(60) DEF m, s, v, inboxUpdateSubscriptionSection, MoveSubscriptionSection
<1>7. CASE ~Newer(d, "section", e.at)
  <2>1. \A x \in Slots : ~Applies(e, d, th, x)
    BY <1>4, <1>5, <1>7 DEF Applies, Newer, MarkOf
  <2>2. QED
    BY <1>7, <2>1, Zenon DEF Registers, inboxUpdateSubscriptionSection
<1>8. QED
  BY <1>6, <1>7, Zenon

(* A read event moves the read position only, and only forward. *)
LEMMA SeenRegisters ==
  ASSUME NEW d \in Subs, NEW th, NEW e, e.at \in Nat, Carried(e.type) = {"seen"}
  PROVE  LET d2 == inboxUpdateSubscriptionRead(d, e.at) IN
         d2 \in Subs /\ d2.exists = d.exists /\ d2.at = d.at /\ Registers(e, d, th, d2, th)
<1> DEFINE d2 == inboxUpdateSubscriptionRead(d, e.at)
<1>1. d2 \in Subs /\ d2.exists = d.exists /\ d2.at = d.at /\ d2.val = d.val
  BY DEF inboxUpdateSubscriptionRead, Subs
<1>2. d2.seen = IF d.exists /\ d.seen < e.at THEN e.at ELSE d.seen
  BY DEF inboxUpdateSubscriptionRead, Subs
<1>3. CarriedValue(e, "seen") = "" /\ ValueOf(d, "seen") = ""
  BY DEF CarriedValue, ValueOf, Fields
<1> HIDE DEF d2
<1>4. \A x \in Slots : Applies(e, d, th, x) <=> x = "seen" /\ d.exists /\ d.seen < e.at
  BY DEF Applies, MarkOf
<1>5. \A x \in Slots : /\ MarkOf(d2, th, x) = IF x = "seen" THEN d2.seen ELSE MarkOf(d, th, x)
                       /\ ValueOf(d2, x) = ValueOf(d, x)
  BY <1>1 DEF MarkOf, ValueOf
<1>6. Registers(e, d, th, d2, th)
  BY <1>2, <1>3, <1>4, <1>5, Zenon DEF Registers, MarkOf
<1>7. QED
  BY <1>1, <1>6 DEF d2

(* A thread read moves the thread's read position only, and only forward. *)
LEMMA ThreadRegisters ==
  ASSUME NEW d \in Subs, NEW th \in Threads, NEW e, e.at \in Nat, Carried(e.type) = {"thread"}
  PROVE  LET th2 == IF th.exists /\ th.seen < e.at THEN [th EXCEPT !.seen = e.at] ELSE th IN
         th2 \in Threads /\ th2.exists = th.exists /\ Registers(e, d, th, d, th2)
<1> DEFINE th2 == IF th.exists /\ th.seen < e.at THEN [th EXCEPT !.seen = e.at] ELSE th
<1>1. /\ th2 \in Threads /\ th2.exists = th.exists
      /\ th2.seen = IF th.exists /\ th.seen < e.at THEN e.at ELSE th.seen
  BY DEF Threads
<1>2. CarriedValue(e, "thread") = "" /\ ValueOf(d, "thread") = ""
  BY DEF CarriedValue, ValueOf, Fields
<1> HIDE DEF th2
<1>3. \A x \in Slots : Applies(e, d, th, x) <=> x = "thread" /\ th.exists /\ th.seen < e.at
  BY DEF Applies, MarkOf
<1>4. \A x \in Slots : MarkOf(d, th2, x) = IF x = "thread" THEN th2.seen ELSE MarkOf(d, th, x)
  BY DEF MarkOf
<1>5. Registers(e, d, th, d, th2)
  BY <1>1, <1>2, <1>3, <1>4, Zenon DEF Registers, MarkOf
<1>6. QED
  BY <1>1, <1>5 DEF th2

InboxOK(e, d, th, d2, th2) ==
  /\ SiteOK(d2, th2) /\ d2.exists = d.exists /\ (th.exists => th2.exists)
  /\ Registers(e, d, th, d2, th2)

(* Every write of inbox-worker's pool, type by type. *)
LEMMA InboxRegisters ==
  ASSUME Types, Apart(work), NEW d, NEW th, SiteOK(d, th), NEW e \in SentBy(work)
  PROVE  InboxOK(e, d, th, InboxWrite(e, d), InboxThreadWrite(e, th))
<1>1. /\ d \in Subs /\ th \in Threads /\ (~th.exists => th.seen = 0) /\ e.at \in Nat /\ e.v \in Strings
      /\ NoFavorites => d.at["favorite"] = d.at["section"]
  BY Zenon DEF SiteOK, SentBy
<1>2. ASSUME NEW f \in Fields \ {"favorite", "section"}, Carried(e.type) = {f}, CarriedValue(e, f) = e.v,
             InboxThreadWrite(e, th) = th,
             InboxWrite(e, d) = IF Newer(d, f, e.at) THEN Stamp(d, f, e.v, e.at) ELSE d
      PROVE  InboxOK(e, d, th, InboxWrite(e, d), InboxThreadWrite(e, th))
  <2> DEFINE d2 == IF Newer(d, f, e.at) THEN Stamp(d, f, e.v, e.at) ELSE d
  <2>1. d2 \in Subs /\ d2.exists = d.exists /\ Registers(e, d, th, d2, th)
    BY <1>1, <1>2, StampRegisters, ZenonT(60)
  <2> HIDE DEF d2
  <2>2. \A x \in {"favorite", "section"} : MarkOf(d2, th, x) = MarkOf(d, th, x)
    BY <1>2, <2>1, Zenon DEF Registers, Applies, Slots, Fields
  <2>4. d2.at["favorite"] = d.at["favorite"] /\ d2.at["section"] = d.at["section"]
    BY <2>2 DEF MarkOf
  <2>5. QED
    BY <1>1, <1>2, <2>1, <2>4, Zenon DEF InboxOK, SiteOK, d2
<1>3. CASE e.type = "subscription_mute_toggled"
  <2>1. Carried(e.type) = {"mute"} /\ CarriedValue(e, "mute") = e.v /\ "mute" \in Fields
    BY <1>3, CarriedIs DEF CarriedValue, Fields
  <2>2. QED
    BY <1>2, <1>3, <2>1 DEF InboxWrite, InboxThreadWrite, inboxUpdateSubscriptionMute
<1>4. CASE e.type = "role_updated"
  <2>1. Carried(e.type) = {"roles"} /\ CarriedValue(e, "roles") = e.v /\ "roles" \in Fields
    BY <1>4, CarriedIs DEF CarriedValue, Fields
  <2>2. QED
    BY <1>2, <1>4, <2>1 DEF InboxWrite, InboxThreadWrite, inboxUpdateSubscriptionRoles
<1>5. CASE e.type = "room_renamed"
  <2>1. Carried(e.type) = {"name"} /\ CarriedValue(e, "name") = e.v /\ "name" \in Fields
    BY <1>5, CarriedIs DEF CarriedValue, Fields
  <2>2. QED
    BY <1>2, <1>5, <2>1 DEF InboxWrite, InboxThreadWrite, UpdateSubscriptionNamesForRoom
<1>6. CASE e.type = "subscription_favorite_toggled"
  <2>1. InboxWrite(e, d) = inboxUpdateSubscriptionFavorite(d, e.v, e.at) /\ InboxThreadWrite(e, th) = th
    BY <1>6 DEF InboxWrite, InboxThreadWrite
  <2>2. ~NoFavorites
    BY <1>6, SentByOps DEF NoFavorites
  <2>3. QED
    BY <1>1, <1>6, <2>1, <2>2, FavoriteRegisters, Zenon DEF InboxOK, SiteOK
<1>7. CASE e.type = "subscription_section_moved"
  <2>1. InboxWrite(e, d) = inboxUpdateSubscriptionSection(d, e.v, e.at) /\ InboxThreadWrite(e, th) = th
    BY <1>7 DEF InboxWrite, InboxThreadWrite
  <2>2. NoFavorites
    BY <1>7, SentByOps DEF NoFavorites, Apart
  <2>3. QED
    BY <1>1, <1>7, <2>1, <2>2, MoveRegisters, ZenonT(60) DEF InboxOK, SiteOK

<1>8. CASE e.type = "room_restricted"
  <2>1. /\ InboxWrite(e, d) = inboxApplySubscriptionRestriction(d, Restricted(e.v), Owner(e.v), e.at)
        /\ InboxThreadWrite(e, th) = th
    BY <1>8 DEF InboxWrite, InboxThreadWrite
  <2> DEFINE d2 == inboxApplySubscriptionRestriction(d, Restricted(e.v), Owner(e.v), e.at)
  <2>2. d2 \in Subs /\ d2.exists = d.exists /\ Registers(e, d, th, d2, th)
    BY <1>1, <1>8, RestrictRegisters, Zenon
  <2> HIDE DEF d2
  <2>3. \A x \in {"favorite", "section"} : MarkOf(d2, th, x) = MarkOf(d, th, x)
    <3>1. Carried(e.type) = {"restrict"}
      BY <1>8, CarriedIs
    <3>2. QED
      BY <2>2, <3>1 DEF Registers, Applies, Slots, Fields
  <2>4. d2.at["favorite"] = d.at["favorite"] /\ d2.at["section"] = d.at["section"]
    BY <2>3 DEF MarkOf
  <2>5. QED
    BY <1>1, <2>1, <2>2, <2>4, Zenon DEF InboxOK, SiteOK, d2
<1>9. CASE e.type = "subscription_read"
  <2>1. /\ InboxWrite(e, d) = inboxUpdateSubscriptionRead(d, e.at) /\ InboxThreadWrite(e, th) = th
        /\ Carried(e.type) = {"seen"}
    BY <1>9, CarriedIs DEF InboxWrite, InboxThreadWrite
  <2>2. QED
    BY <1>1, <2>1, SeenRegisters, ZenonT(60) DEF InboxOK, SiteOK
<1>10. CASE e.type \in {"thread_read", "thread_read_all"}
  <2> DEFINE th2 == IF th.exists /\ th.seen < e.at THEN [th EXCEPT !.seen = e.at] ELSE th
  <2>1. InboxWrite(e, d) = d /\ InboxThreadWrite(e, th) = th2 /\ Carried(e.type) = {"thread"}
    BY <1>10, CarriedIs DEF InboxWrite, InboxThreadWrite
  <2>2. th2 \in Threads /\ th2.exists = th.exists /\ Registers(e, d, th, d, th2)
    BY <1>1, <2>1, ThreadRegisters
  <2>3. ~th.exists => th2.seen = th.seen
    OBVIOUS
  <2> HIDE DEF th2
  <2>4. QED
    BY <1>1, <2>1, <2>2, <2>3, Zenon DEF InboxOK, SiteOK
<1>11. CASE e.type \in {"thread_subscription_upserted", "thread_unread_added", "subscription_mention",
                        "member_added", "member_removed"}
  <2> DEFINE d2 == InboxWrite(e, d)
             th2 == InboxThreadWrite(e, th)
  <2>1. Carried(e.type) = {}
    BY <1>11, CarriedIs
  <2>2. d2 = d \/ d2 = AddThreadUnread(d) \/ d2 = inboxSetSubscriptionMentions(d, e.at)
    BY <1>11, Zenon DEF InboxWrite
  <2>3. th2 = th \/ th2 = IF th.exists THEN th ELSE [exists |-> TRUE, seen |-> 0]
    BY <1>11 DEF InboxThreadWrite
  <2> HIDE DEF d2, th2
  <2>4. d2 \in Subs /\ d2.exists = d.exists /\ d2.at = d.at /\ d2.val = d.val /\ d2.seen = d.seen
    BY <1>1, <2>2, ZenonT(60) DEF AddThreadUnread, inboxSetSubscriptionMentions, Subs
  <2>5. th2 \in Threads /\ (th.exists => th2.exists) /\ th2.seen = th.seen /\ (~th2.exists => th2.seen = 0)
    <3>1. CASE th2 = th
      BY <1>1, <3>1
    <3>2. CASE th2 # th
      <4>1. ~th.exists /\ th2 = [exists |-> TRUE, seen |-> 0]
        BY <2>3, <3>2, SMTT(60)
      <4>2. QED
        BY <1>1, <4>1 DEF Threads
    <3>3. QED
      BY <3>1, <3>2
  <2>6. Registers(e, d, th, d2, th2)
    BY <1>1, <2>1, <2>4, <2>5, NoRegister, Zenon
  <2>7. QED
    BY <1>1, <2>4, <2>5, <2>6, Zenon DEF InboxOK, SiteOK, d2, th2
<1>12. QED
  BY <1>3, <1>4, <1>5, <1>6, <1>7, <1>8, <1>9, <1>10, <1>11, SentByOps, Zenon
     DEF OrderedEventTypes, ConcurrentEventTypes

-----------------------------------------------------------------------------
(* Types, step by step. *)

(* A redelivery carries the same event and starts again. *)
LEMMA AgainIs ==
  ASSUME NEW w, NEW m \in DeliveriesOf(w)
  PROVE  /\ Again(m) \in DeliveriesOf(w) /\ Again(m).e = m.e /\ Again(m).step = "apply"
         /\ m.e \in SentBy(w)
<1>1. m.n + 1 \in Nat /\ m \in [e: SentBy(w), n: Nat, step: {"apply", "check", "clear"}, copy: Nat]
  BY DEF DeliveriesOf
<1>2. QED
  BY <1>1, Zenon DEF Again, DeliveriesOf

(* A delivery that goes on to its next call carries the same event. *)
LEMMA StepIs ==
  ASSUME NEW w, NEW m \in DeliveriesOf(w), NEW s \in {"apply", "check", "clear"}
  PROVE  LET n == [m EXCEPT !.step = s] IN n \in DeliveriesOf(w) /\ n.e = m.e /\ n.step = s
  BY DEF DeliveriesOf

(* A first delivery carries the event and starts at its first call. *)
LEMMA DeliveryIs ==
  ASSUME NEW w, NEW e \in SentBy(w), NEW copy \in Nat
  PROVE  /\ Delivery(e, copy) \in DeliveriesOf(w) /\ Delivery(e, copy).e = e
         /\ Delivery(e, copy).step = "apply"
  BY DEF Delivery, DeliveriesOf

(* A handler run again for an operation sends an event of the same type and stamp. *)
LEMMA NowIs ==
  ASSUME Types, NEW r \in rpcs
  PROVE  LET h == Now(r) IN
         /\ h.todo = TodoOf(r.op) /\ h.room \in RoomDocs /\ h.sub \in Subs /\ h.thread \in Threads
         /\ Event(h, r.at) \in SentBy(work) /\ Event(h, r.at).type = r.ev.type
         /\ Event(h, r.at).at = r.ev.at /\ (r.op = "rename" => Event(h, r.at).v = r.arg)
         /\ r \in RpcsOf(work) /\ r.ev \in SentBy(work) /\ TodoOf(r.op) \subseteq Steps
<1>1. /\ r \in RpcsOf(work) /\ r.ev \in SentBy(work) /\ <<r.op, r.arg>> \in work.ops /\ r.op \in OpNames
      /\ r.at \in Nat /\ r.inputs \in RoomDocs /\ r.ev.type = EventType(r.op) /\ r.ev.at = r.at
  BY Zenon DEF Types, RpcsOf
<1> DEFINE op == r.op
           arg == r.arg
           t == r.at
           in == r.inputs
           h == HandlerOf(op, arg, t, in)
<1>2. Now(r) = h
  BY DEF Now
<1>3. <<op, arg>> \in work.ops /\ op \in OpNames /\ t \in Nat /\ in \in RoomDocs
  BY <1>1
<1> HIDE DEF op, arg, t, in
<1>4. /\ h.type = EventType(op) /\ h.v \in Strings /\ h.todo = TodoOf(op)
      /\ h.room \in RoomDocs /\ h.sub \in Subs /\ h.thread \in Threads
      /\ Event(h, t) \in SentBy(work) /\ (op = "rename" => h.v = arg)
  BY <1>3, HandlerTypes
<1>5. Event(h, t).type = h.type /\ Event(h, t).at = t /\ Event(h, t).v = h.v
  BY DEF Event
<1>6. TodoOf(op) \subseteq Steps
  BY <1>3, EventTypes
<1> HIDE DEF h
<1>7. QED
  BY <1>1, <1>2, <1>4, <1>5, <1>6, Zenon DEF op, arg, t

(* A step that is done leaves the operation with one step less, or ends it. *)
LEMMA DoneIs ==
  ASSUME Types, NEW r \in rpcs, NEW ev \in SentBy(work), ev.type = r.ev.type, ev.at = r.ev.at,
         NEW step, Done(r, step, ev)
  PROVE  /\ rpcs' \subseteq RpcsOf(work)
         /\ \A s \in rpcs' :
              \/ s # r /\ s \in rpcs
              \/ /\ s.op = r.op /\ s.arg = r.arg /\ s.at = r.at /\ s.ev = ev
                 /\ s.todo = r.todo \ {step} /\ r.todo # {step}
         /\ r.todo # {step} => \E s \in rpcs' : s.ev = ev /\ s.at = r.at
<1> DEFINE s == [r EXCEPT !.todo = @ \ {step}, !.ev = ev]
<1>1. r \in RpcsOf(work)
  BY Zenon DEF Types
<1>2. /\ s \in RpcsOf(work) /\ s.op = r.op /\ s.arg = r.arg /\ s.at = r.at
      /\ s.todo = r.todo \ {step} /\ s.ev = ev
  BY <1>1, Zenon DEF RpcsOf
<1>3. rpcs' = (rpcs \ {r}) \cup IF r.todo = {step} THEN {} ELSE {s}
  BY DEF Done
<1> HIDE DEF s
<1>4. QED
  BY <1>2, <1>3, Zenon DEF Types

(* The lanes, from one end to the other. *)
LanesOK(w) ==
  /\ ordered \in Seq(SentBy(w)) /\ concurrent \subseteq SentBy(w)
  /\ membershipCh \in Seq(DeliveriesOf(w))
  /\ parked \subseteq DeliveriesOf(w) /\ pool \subseteq DeliveriesOf(w)

(* An event that arrives goes to the membership lane or to the pool. *)
LEMMA ArriveIs ==
  ASSUME Types, NEW e \in SentBy(work), NEW copy \in Nat, Arrive(e, copy)
  PROVE  membershipCh' \in Seq(DeliveriesOf(work)) /\ pool' \subseteq DeliveriesOf(work)
<1> DEFINE d == Delivery(e, copy)
<1>1. d \in DeliveriesOf(work)
  BY DeliveryIs
<1>2. \/ membershipCh' = Append(membershipCh, d) /\ pool' = pool
      \/ pool' = pool \cup {d} /\ membershipCh' = membershipCh
  BY DEF Arrive
<1>3. membershipCh \in Seq(DeliveriesOf(work)) /\ pool \subseteq DeliveriesOf(work)
  BY DEF Types
<1> HIDE DEF d
<1>4. QED
  BY <1>1, <1>2, <1>3

(* outbox-worker keeps the lanes' types. *)
LEMMA ForwardTypes ==
  ASSUME Types, Relay
  PROVE  LanesOK(work)'
<1>1. work' = work /\ parked' = parked /\ 1 \in Nat /\ 2 \in Nat
  BY DEF Relay, ForwardOrdered, ForwardConcurrent, load
<1>2. LanesOK(work)
  BY DEF Types, LanesOK
<1>3. CASE ForwardOrdered
  <2>1. Head(ordered) \in SentBy(work) /\ Tail(ordered) \in Seq(SentBy(work))
    BY <1>2, <1>3 DEF ForwardOrdered, LanesOK
  <2>2. /\ ordered' \in {ordered, Tail(ordered)} /\ concurrent' = concurrent
        /\ Arrive(Head(ordered), 1) \/ Arrive(Head(ordered), 2)
    BY <1>3 DEF ForwardOrdered
  <2>3. membershipCh' \in Seq(DeliveriesOf(work)) /\ pool' \subseteq DeliveriesOf(work)
    BY <1>1, <2>1, <2>2, ArriveIs
  <2>4. QED
    BY <1>1, <1>2, <2>1, <2>2, <2>3, SMTT(60) DEF LanesOK
<1>4. CASE ForwardConcurrent
  <2>1. PICK e \in concurrent : /\ Arrive(e, 1) \/ Arrive(e, 2)
                                /\ concurrent' \subseteq concurrent
    BY <1>4 DEF ForwardConcurrent
  <2>2. e \in SentBy(work) /\ ordered' = ordered
    BY <1>2, <1>4 DEF LanesOK, ForwardConcurrent
  <2>3. membershipCh' \in Seq(DeliveriesOf(work)) /\ pool' \subseteq DeliveriesOf(work)
    BY <1>1, <2>1, <2>2, ArriveIs
  <2>4. QED
    BY <1>1, <1>2, <2>1, <2>2, <2>3 DEF LanesOK
<1>5. QED
  BY <1>3, <1>4 DEF Relay

(* Settling one delivery of the pool leaves the others; a nak'd event is delivered
   again or given up. *)
LEMMA NakIs ==
  ASSUME Types, NEW m \in pool, Ack(m) \/ Nak(m)
  PROVE  /\ pool' \subseteq DeliveriesOf(work)
         /\ \A n \in pool' : (n \in pool /\ n # m) \/ (n.e = m.e /\ n.step = "apply")
         /\ \A n \in pool : n # m => n \in pool'
         /\ dropped \subseteq dropped'
         /\ Nak(m) => m.e \in dropped' \/ \E n \in pool' : n.e = m.e /\ n.step = "apply"
<1>1. Again(m) \in DeliveriesOf(work) /\ Again(m).e = m.e /\ Again(m).step = "apply"
  BY AgainIs DEF Types
<1>2. CASE Ack(m) /\ ~Nak(m)
  BY <1>2, Zenon DEF Ack, Types
<1>3. CASE Nak(m)
  BY <1>1, <1>3, Zenon DEF Nak, Types
<1>4. QED
  BY <1>2, <1>3

(* A delivery is settled by an ack or a nak. *)
LEMMA SettleIs ==
  ASSUME NEW m, Settle(m)
  PROVE  Ack(m) \/ Nak(m)
  BY DEF Settle

(* What a membership event does to the replica. *)
MembershipWrites ==
  /\ replica' \in Subs /\ tsubs' \in [{"origin", "replica"} -> Threads]
  /\ tsubs'.origin = tsubs.origin
  /\ replica.exists /\ replica'.exists => replica' = replica
  /\ replica'.at["favorite"] = replica'.at["section"] \/ replica' = replica
  /\ tsubs'.replica = tsubs.replica \/ tsubs'.replica = NoThread

(* A membership event inserts or removes the replica, or leaves it. *)
LEMMA MembershipIs ==
  ASSUME Types, NEW e \in SentBy(work),
         \/ UNCHANGED <<replica, tsubs>>
         \/ e.type = "member_removed" /\ replica' = NoSub /\ UNCHANGED tsubs
         \/ ApplyMembership(e)
  PROVE  MembershipWrites
<1>1. /\ replica \in Subs /\ tsubs \in [{"origin", "replica"} -> Threads] /\ NoThread \in Threads
      /\ "favorite" \in Fields /\ "section" \in Fields
  BY DEF Types, NoThread, Threads, Fields
<1>2. /\ NoSub \in Subs /\ ~NoSub.exists /\ NoSub.at["favorite"] = NoSub.at["section"]
  BY <1>1, NoSubIs, Zenon
<1>3. CASE UNCHANGED <<replica, tsubs>>
  BY <1>1, <1>3 DEF MembershipWrites
<1>4. CASE replica' = NoSub /\ (UNCHANGED tsubs \/ tsubs' = [tsubs EXCEPT !.replica = NoThread])
  <2>1. replica' \in Subs /\ ~replica'.exists /\ replica'.at["favorite"] = replica'.at["section"]
    BY <1>2, <1>4
  <2>2. /\ tsubs' \in [{"origin", "replica"} -> Threads] /\ tsubs'.origin = tsubs.origin
        /\ tsubs'.replica = tsubs.replica \/ tsubs'.replica = NoThread
    BY <1>1, <1>4
  <2>3. QED
    BY <2>1, <2>2, Zenon DEF MembershipWrites
<1>5. CASE e.type = "member_added" /\ handleMemberAdded(e)
  <2>1. replica' = IF replica.exists THEN replica ELSE newSub(e.v, "off")
    BY <1>5 DEF handleMemberAdded, inboxBulkCreateSubscriptions
  <2>2. e.v \in Names
    BY <1>5 DEF SentBy
  <2>3. newSub(e.v, "off") \in Subs /\ newSub(e.v, "off").at["favorite"] = newSub(e.v, "off").at["section"]
    BY <1>1, <2>2, NewSubIs, Zenon
  <2>4. QED
    BY <1>1, <1>5, <2>1, <2>3 DEF handleMemberAdded, MembershipWrites
<1>6. QED
  BY <1>3, <1>4, <1>5 DEF ApplyMembership, handleMemberRemoved

(* The membership handler keeps the lanes' types and writes membership only. *)
LEMMA MembershipTypes ==
  ASSUME Types, HandleMembership \/ MembershipFails
  PROVE  LanesOK(work)' /\ MembershipWrites
<1> DEFINE m == Head(membershipCh)
<1>1. /\ membershipCh \in Seq(DeliveriesOf(work)) /\ membershipCh # <<>>
      /\ membershipCh' = Tail(membershipCh) /\ work' = work
      /\ UNCHANGED <<ordered, concurrent, pool>>
  BY Zenon DEF Types, HandleMembership, MembershipFails, load, outbox
<1>2. m \in DeliveriesOf(work) /\ m = membershipCh[1] /\ 1 \in 1..Len(membershipCh)
  BY <1>1
<1>3. /\ Again(m) \in DeliveriesOf(work) /\ Again(m).e = m.e /\ m.e \in SentBy(work)
  BY <1>2, AgainIs, SMTT(20)
<1>5. parked' = parked \/ parked' = parked \cup {Again(m)}
  BY Zenon DEF HandleMembership, MembershipFails
<1>7. MembershipWrites
  <2>1. \/ UNCHANGED <<replica, tsubs>>
        \/ m.e.type = "member_removed" /\ replica' = NoSub /\ UNCHANGED tsubs
        \/ ApplyMembership(m.e)
    BY Zenon DEF HandleMembership, MembershipFails
  <2> HIDE DEF m
  <2>2. QED
    BY <1>3, <2>1, MembershipIs, ZenonT(60)
<1> HIDE DEF m
<1>8. Tail(membershipCh) \in Seq(DeliveriesOf(work))
  BY <1>1
<1>10. LanesOK(work)'
  BY <1>1, <1>3, <1>5, <1>8, Zenon DEF LanesOK, Types
<1>11. QED
  BY <1>7, <1>10, SMTT(20)

(* What the pool does to the replica. *)
PoolWrites ==
  \/ UNCHANGED <<replica, tsubs>>
  \/ replica' = PullThreadUnread(replica) /\ UNCHANGED tsubs
  \/ \E m \in pool : /\ m.step = "apply" /\ replica' = InboxWrite(m.e, replica)
                     /\ tsubs' = [tsubs EXCEPT !.replica = InboxThreadWrite(m.e, @)]

(* After its write a delivery checks, clears or is acked. *)
LEMMA NextStepIs == \A e : NextStep(e) \in {"check", "clear", "ack"}
  BY DEF NextStep

(* The pool keeps the lanes' types and writes the replica as InboxWrite says. *)
LEMMA PoolTypes ==
  ASSUME Types, PoolApply \/ PoolCheck \/ PoolClear \/ PoolFails
  PROVE  LanesOK(work)' /\ PoolWrites
<1>1. UNCHANGED <<work, ordered, concurrent, membershipCh, parked>>
  BY DEF PoolApply, PoolCheck, PoolClear, PoolFails, load, outbox
<1>2. pool \subseteq DeliveriesOf(work) /\ LanesOK(work)
  BY DEF Types, LanesOK
<1>3. pool' \subseteq DeliveriesOf(work) /\ PoolWrites
  <2>1. CASE PoolApply
    <3>1. PICK m \in pool :
            /\ m.step = "apply" /\ replica' = InboxWrite(m.e, replica)
            /\ tsubs' = [tsubs EXCEPT !.replica = InboxThreadWrite(m.e, @)]
            /\ IF NextStep(m.e) = "ack" THEN Settle(m)
               ELSE pool' = (pool \ {m}) \cup {[m EXCEPT !.step = NextStep(m.e)]}
      BY <2>1, SMTT(60) DEF PoolApply
    <3>2. CASE NextStep(m.e) = "ack"
      BY <3>1, <3>2, SettleIs, NakIs DEF PoolWrites
    <3>3. CASE NextStep(m.e) # "ack"
      <4>1. m \in DeliveriesOf(work) /\ NextStep(m.e) \in {"apply", "check", "clear"}
        BY <1>2, <3>3, NextStepIs
      <4>2. [m EXCEPT !.step = NextStep(m.e)] \in DeliveriesOf(work)
        BY <4>1, StepIs, Zenon
      <4>3. QED
        BY <1>2, <3>1, <3>3, <4>2, SMTT(60) DEF PoolWrites
    <3>4. QED
      BY <3>2, <3>3
  <2>2. CASE PoolCheck
    <3>1. PICK m \in pool : Settle(m) \/ Nak(m)
      BY <2>2 DEF PoolCheck
    <3>2. QED
      BY <2>2, <3>1, SettleIs, NakIs DEF PoolCheck, PoolWrites, docs
  <2>3. CASE PoolClear
    <3>1. PICK m \in pool : Settle(m) /\ replica' = PullThreadUnread(replica)
      BY <2>3 DEF PoolClear
    <3>2. QED
      BY <2>3, <3>1, SettleIs, NakIs DEF PoolClear, PoolWrites
  <2>4. CASE PoolFails
    <3>1. PICK m \in pool : Nak(m)
      BY <2>4 DEF PoolFails
    <3>2. QED
      BY <2>4, <3>1, NakIs DEF PoolFails, PoolWrites, docs
  <2>5. QED
    BY <2>1, <2>2, <2>3, <2>4
<1>4. QED
  BY <1>1, <1>2, <1>3 DEF LanesOK

(* Redelivery and crashes keep the lanes' types and touch no document. *)
LEMMA RestartTypes ==
  ASSUME Types, Redeliver \/ Crash
  PROVE  LanesOK(work)' /\ UNCHANGED docs
<1>1. LanesOK(work) /\ UNCHANGED <<work, docs, ordered, concurrent>>
  BY Zenon DEF Types, LanesOK, Redeliver, Crash, load, outbox
<1>2. CASE Redeliver
  <2>1. PICK m \in parked : parked' = parked \ {m} /\ membershipCh' = Append(membershipCh, m)
    BY <1>2 DEF Redeliver
  <2>2. m \in DeliveriesOf(work)
    BY <1>1, <2>1 DEF LanesOK
  <2>3. Append(membershipCh, m) \in Seq(DeliveriesOf(work)) /\ pool' = pool
    BY <1>1, <1>2, <2>2 DEF LanesOK, Redeliver
  <2>4. QED
    BY <1>1, <2>1, <2>3 DEF LanesOK
<1>3. CASE Crash
  <2>1. {membershipCh[i] : i \in DOMAIN membershipCh} \subseteq DeliveriesOf(work)
    BY <1>1 DEF LanesOK
  <2>2. \A m \in DeliveriesOf(work) : Again(m) \in DeliveriesOf(work)
    BY AgainIs, SMTT(60)
  <2>3. membershipCh' \in Seq(DeliveriesOf(work))
    <3>1. membershipCh' = <<>>
      BY <1>3, Zenon DEF Crash
    <3>2. QED
      BY <3>1
  <2>4. parked' \subseteq DeliveriesOf(work)
    BY <1>1, <1>3, <2>1, <2>2, Zenon DEF Crash, LanesOK
  <2>5. pool' \subseteq DeliveriesOf(work)
    BY <1>1, <1>3, <2>2, ZenonT(60) DEF Crash, LanesOK
  <2>6. QED
    BY <1>1, <2>3, <2>4, <2>5, SMTT(60) DEF LanesOK
<1>4. QED
  BY <1>1, <1>2, <1>3

(* The room's site leaves the replica alone. *)
OriginTypes ==
  /\ work' = work /\ clock' \in Nat /\ rpcs' \subseteq RpcsOf(work)
  /\ room' \in RoomDocs /\ origin' \in Subs /\ tsubs' \in [{"origin", "replica"} -> Threads]
  /\ UNCHANGED replica /\ tsubs'.replica = tsubs.replica /\ LanesOK(work)'

(* A new operation has a new stamp and all of its steps before it. *)
LEMMA StartIs ==
  ASSUME Types, NEW op, NEW arg, Start(op, arg)
  PROVE  /\ clock' = clock + 1
         /\ \E r \in RpcsOf(work) : /\ rpcs' = rpcs \cup {r} /\ r.op = op /\ r.arg = arg
                                    /\ r.at = clock + 1 /\ r.todo = TodoOf(op)
                                    /\ op = "rename" => r.ev.v = arg
<1> DEFINE t == clock + 1
           h == HandlerOf(op, arg, t, room)
           ev == Event(h, t)
           r == [op |-> op, arg |-> arg, at |-> t, todo |-> TodoOf(op), ev |-> ev, inputs |-> room]
<1>1. <<op, arg>> \in work.ops /\ t \in Nat /\ room \in RoomDocs /\ clock' = t
  <2>1. <<op, arg>> \in work.ops /\ clock' = t
    BY ZenonT(60) DEF Start
  <2>2. clock \in Nat /\ room \in RoomDocs
    BY Zenon DEF Types
  <2>3. QED
    BY <2>1, <2>2
<1>2. op \in OpNames /\ arg \in Strings
  BY <1>1, OpsAre, Zenon DEF Types
<1>3. rpcs' = rpcs \cup {[op |-> op, arg |-> arg, at |-> t, todo |-> h.todo, ev |-> ev, inputs |-> room]}
  BY ZenonT(60) DEF Start
<1> HIDE DEF t
<1>4. /\ h.type = EventType(op) /\ h.todo = TodoOf(op) /\ ev \in SentBy(work) /\ (op = "rename" => h.v = arg)
  BY <1>1, HandlerTypes, ZenonT(60)
<1>5. ev.type = h.type /\ ev.at = t /\ ev.v = h.v
  BY DEF Event
<1>6. TodoOf(op) \subseteq Steps
  BY <1>2, EventTypes, SMTT(20)
<1> HIDE DEF h, ev
<1>7. /\ r \in RpcsOf(work) /\ r.ev = ev /\ r.op = op /\ r.arg = arg /\ r.at = t /\ r.todo = TodoOf(op)
  BY <1>1, <1>2, <1>4, <1>5, <1>6, ZenonT(60) DEF RpcsOf
<1>8. QED
  <2>1. rpcs' = rpcs \cup {r}
    BY <1>3, <1>4, ZenonT(60)
  <2> HIDE DEF r
  <2>2. QED
    BY <1>1, <1>4, <1>5, <1>7, <2>1, Zenon DEF t

(* The room's site keeps its types and leaves the replica alone. *)
LEMMA OriginSteps ==
  ASSUME Types, (\E o \in work.ops : Start(o[1], o[2])) \/ 
                (\E r \in rpcs : StepOf(r) \/ RpcFails(r) \/ WorkerFails(r))
  PROVE  OriginTypes
<1>1. /\ clock \in Nat /\ rpcs \subseteq RpcsOf(work) /\ LanesOK(work) /\ room \in RoomDocs /\ origin \in Subs
      /\ tsubs \in [{"origin", "replica"} -> Threads]
  BY Zenon DEF Types, LanesOK
<1>2. ASSUME UNCHANGED <<work, replica, membershipCh, parked, pool>>
      PROVE  ordered' \in Seq(SentBy(work)) /\ concurrent' \subseteq SentBy(work) => LanesOK(work)'
  BY <1>1, <1>2, ZenonT(60) DEF LanesOK
<1>3. ASSUME NEW o \in work.ops, Start(o[1], o[2]) PROVE OriginTypes
  <2>1. UNCHANGED <<work, docs, outbox, inbox>>
    BY <1>3, ZenonT(60) DEF Start
  <2>2. rpcs' \subseteq RpcsOf(work) /\ clock' = clock + 1
    <3> DEFINE op == o[1]
               arg == o[2]
    <3>1. Start(op, arg)
      BY <1>3, Zenon
    <3> HIDE DEF op, arg
    <3>2. QED
      <4>1. PICK q \in RpcsOf(work) : rpcs' = rpcs \cup {q}
        BY <3>1, StartIs, Zenon
      <4>2. clock' = clock + 1
        BY <3>1, StartIs, Zenon
      <4>3. QED
        BY <1>1, <4>1, <4>2, Zenon
  <2>3. clock' \in Nat
    BY <1>1, <2>2
  <2>4. LanesOK(work)'
    BY <1>1, <1>2, <2>1, ZenonT(60) DEF docs, outbox, inbox, LanesOK
  <2>5. QED
    BY <1>1, <2>1, <2>2, <2>3, <2>4, ZenonT(60) DEF OriginTypes, docs
<1>4. ASSUME NEW r \in rpcs, StepOf(r) \/ RpcFails(r) \/ WorkerFails(r) PROVE OriginTypes
  <2>1. UNCHANGED <<work, clock, replica, membershipCh, parked, pool>>
    BY <1>4, Zenon DEF StepOf, WriteRoom, WriteSub, WriteThread, Publish, RpcFails, WorkerFails, load, docs, inbox
  <2>2. /\ Now(r).todo = TodoOf(r.op) /\ Now(r).room \in RoomDocs /\ Now(r).sub \in Subs
        /\ Now(r).thread \in Threads /\ TodoOf(r.op) \subseteq Steps
        /\ r \in RpcsOf(work) /\ r.ev \in SentBy(work)
    BY <1>4, NowIs, Zenon
  <2>3. /\ Event(Now(r), r.at) \in SentBy(work) /\ Event(Now(r), r.at).type = r.ev.type
        /\ Event(Now(r), r.at).at = r.ev.at
    BY <1>4, NowIs, ZenonT(60)
  <2>4. rpcs' \subseteq RpcsOf(work)
    <3>1. ASSUME NEW step, Done(r, step, r.ev) \/ Done(r, step, Event(Now(r), r.at))
          PROVE  rpcs' \subseteq RpcsOf(work)
      BY <1>4, <2>2, <2>3, <3>1, DoneIs, ZenonT(60)
    <3>2. CASE rpcs' = rpcs \ {r}
      BY <1>1, <3>2, Zenon
    <3>3. CASE WorkerFails(r)
      <4>1. [r EXCEPT !.todo = Now(r).todo, !.inputs = room] \in RpcsOf(work)
        BY <1>1, <2>2, ZenonT(60) DEF RpcsOf
      <4>2. QED
        BY <1>1, <3>3, <4>1, Zenon DEF WorkerFails
    <3>4. CASE StepOf(r) \/ RpcFails(r)
      BY <3>1, <3>2, <3>4, ZenonT(60) DEF StepOf, WriteRoom, WriteSub, WriteThread, Publish, RpcFails
    <3>5. QED
      BY <1>4, <3>3, <3>4, Zenon
  <2>5. room' \in RoomDocs /\ origin' \in Subs
    BY <1>1, <1>4, <2>2, ZenonT(60) DEF StepOf, WriteRoom, WriteSub, WriteThread, Publish, RpcFails, WorkerFails, docs
  <2>6. tsubs' = tsubs \/ tsubs' = [tsubs EXCEPT !.origin = Now(r).thread]
    BY <1>4, Zenon DEF StepOf, WriteRoom, WriteSub, WriteThread, Publish, RpcFails, WorkerFails, docs
  <2>7. tsubs' \in [{"origin", "replica"} -> Threads] /\ tsubs'.replica = tsubs.replica
    BY <1>1, <2>2, <2>6, SMTT(60)
  <2>8. ordered' \in Seq(SentBy(work)) /\ concurrent' \subseteq SentBy(work)
    <3>1. \/ UNCHANGED outbox
          \/ ordered' = Append(ordered, r.ev) /\ concurrent' = concurrent
          \/ concurrent' = concurrent \cup {r.ev} /\ ordered' = ordered
      BY <1>4, Zenon DEF StepOf, WriteRoom, WriteSub, WriteThread, Publish, RpcFails, WorkerFails
    <3>2. ordered \in Seq(SentBy(work)) /\ concurrent \subseteq SentBy(work)
      BY <1>1, Zenon DEF LanesOK
    <3>3. QED
      BY <2>2, <3>1, <3>2, SMTT(60) DEF outbox
  <2>9. QED
    BY <1>1, <1>2, <2>1, <2>4, <2>5, <2>7, <2>8, ZenonT(60) DEF OriginTypes
<1>5. QED
  BY <1>3, <1>4

-----------------------------------------------------------------------------
(* Marks never regress. *)

OriginActs == \/ \E o \in work.ops : Start(o[1], o[2])
              \/ \E r \in rpcs : StepOf(r) \/ RpcFails(r) \/ WorkerFails(r)

(* The actors of a step. *)
LEMMA Cases ==
  ASSUME [Next]_vars
  PROVE  \/ OriginActs \/ Relay \/ HandleMembership \/ MembershipFails
         \/ PoolApply \/ PoolCheck \/ PoolClear \/ PoolFails
         \/ Redeliver \/ Crash \/ UNCHANGED vars
  BY Zenon DEF Next, OriginActs, Apply, Rest

(* What no step does to the replica. *)
Forward ==
  replica.exists /\ replica'.exists =>
    /\ \A f \in Fields : replica'.at[f] >= replica.at[f]
    /\ \A f \in Fields \ Unstamped : replica'.val[f] # replica.val[f] => replica'.at[f] > replica.at[f]
    /\ replica'.seen >= replica.seen
    /\ tsubs'.replica.seen >= tsubs.replica.seen \/ ~tsubs'.replica.exists

(* A step that keeps marks, values and positions moves nothing backwards. *)
LEMMA SameForward ==
  ASSUME MInv, replica'.at = replica.at, replica'.val = replica.val, replica'.seen = replica.seen,
         tsubs'.replica = tsubs.replica
  PROVE  Forward
<1>1. replica.at \in [Fields -> Nat] /\ replica.seen \in Nat /\ tsubs.replica.seen \in Nat
  BY Zenon DEF MInv, Types, Subs, Threads
<1>2. QED
  BY <1>1 DEF Forward

(* Neither does one that applies an event as registers do. *)
LEMMA AppliedForward ==
  ASSUME MInv, NEW e \in SentBy(work),
         InboxOK(e, replica, tsubs.replica, replica', tsubs'.replica)
  PROVE  Forward
<1>1. /\ Registers(e, replica, tsubs.replica, replica', tsubs'.replica)
      /\ replica' \in Subs /\ tsubs'.replica \in Threads
  BY ZenonT(60) DEF InboxOK, SiteOK
<1>2. /\ replica.at \in [Fields -> Nat] /\ replica.seen \in Nat /\ tsubs.replica.seen \in Nat /\ e.at \in Nat
      /\ replica'.at \in [Fields -> Nat] /\ replica'.seen \in Nat /\ tsubs'.replica.seen \in Nat
  BY <1>1, Zenon DEF MInv, Types, Subs, Threads, SentBy
<1>3. \A f \in Fields : f \in Slots /\ f \notin {"seen", "thread"}
  BY SMTT(60) DEF Slots, Fields
<1>4. ASSUME NEW f \in Fields
      PROVE  /\ replica'.at[f] >= replica.at[f]
             /\ f \notin Unstamped /\ replica'.val[f] # replica.val[f] => replica'.at[f] > replica.at[f]
  <2> DEFINE on == Applies(e, replica, tsubs.replica, f)
  <2>1. /\ MarkOf(replica', tsubs'.replica, f) = replica'.at[f] /\ ValueOf(replica', f) = replica'.val[f]
        /\ MarkOf(replica, tsubs.replica, f) = replica.at[f] /\ ValueOf(replica, f) = replica.val[f]
    BY <1>3, Zenon DEF MarkOf, ValueOf
  <2>2. on => replica.at[f] < e.at
    BY <2>1, Zenon DEF Applies
  <2> HIDE DEF on
  <2>3. /\ replica'.at[f] = IF on THEN e.at ELSE replica.at[f]
        /\ f \notin Unstamped /\ ~on => replica'.val[f] = replica.val[f]
    BY <1>1, <1>3, <2>1, Zenon DEF Registers, on
  <2>4. replica.at[f] \in Nat
    BY <1>2, Zenon
  <2>5. QED
    BY <1>2, <2>2, <2>3, <2>4
<1>5. "seen" \in Slots /\ "thread" \in Slots
  BY SMTT(60) DEF Slots
<1>6. replica'.seen >= replica.seen
  <2> DEFINE on == Applies(e, replica, tsubs.replica, "seen")
  <2>1. MarkOf(replica', tsubs'.replica, "seen") = replica'.seen /\ MarkOf(replica, tsubs.replica, "seen") = replica.seen
    BY Zenon DEF MarkOf
  <2>2. on => replica.seen < e.at
    BY <2>1, Zenon DEF Applies
  <2> HIDE DEF on
  <2>3. replica'.seen = IF on THEN e.at ELSE replica.seen
    BY <1>1, <1>5, <2>1, Zenon DEF Registers, on
  <2>4. QED
    BY <1>2, <2>2, <2>3
<1>7. tsubs'.replica.seen >= tsubs.replica.seen
  <2> DEFINE on == Applies(e, replica, tsubs.replica, "thread")
  <2>1. /\ MarkOf(replica', tsubs'.replica, "thread") = tsubs'.replica.seen
        /\ MarkOf(replica, tsubs.replica, "thread") = tsubs.replica.seen
    BY Zenon DEF MarkOf
  <2>2. on => tsubs.replica.seen < e.at
    BY <2>1, Zenon DEF Applies
  <2> HIDE DEF on
  <2>3. tsubs'.replica.seen = IF on THEN e.at ELSE tsubs.replica.seen
    BY <1>1, <1>5, <2>1, Zenon DEF Registers, on
  <2>4. QED
    BY <1>2, <2>2, <2>3
<1>8. QED
  BY <1>4, <1>6, <1>7, ZenonT(60) DEF Forward

(* The pool's writes keep the replica well formed and move nothing backwards. *)
LEMMA PoolSites ==
  ASSUME MInv, Apart(work), PoolWrites
  PROVE  /\ SiteOK(replica', tsubs'.replica) /\ tsubs' \in [{"origin", "replica"} -> Threads]
         /\ tsubs'.origin = tsubs.origin /\ Forward
<1>1. /\ tsubs \in [{"origin", "replica"} -> Threads] /\ replica \in Subs /\ Types
      /\ SiteOK(replica, tsubs.replica)
  BY DEF MInv, Types
<1>2. CASE UNCHANGED <<replica, tsubs>>
  BY <1>1, <1>2, SameForward DEF SiteOK
<1>3. CASE replica' = PullThreadUnread(replica) /\ UNCHANGED tsubs
  <2>1. /\ replica' \in Subs /\ replica'.at = replica.at /\ replica'.val = replica.val
        /\ replica'.seen = replica.seen
    BY <1>1, <1>3, Zenon DEF PullThreadUnread, Subs
  <2>2. QED
    BY <1>1, <1>3, <2>1, SameForward DEF SiteOK
<1>4. ASSUME NEW m \in pool, m.step = "apply", replica' = InboxWrite(m.e, replica),
             tsubs' = [tsubs EXCEPT !.replica = InboxThreadWrite(m.e, @)]
      PROVE  /\ SiteOK(replica', tsubs'.replica) /\ tsubs' \in [{"origin", "replica"} -> Threads]
             /\ tsubs'.origin = tsubs.origin /\ Forward
  <2> DEFINE e == m.e
             th == tsubs.replica
  <2>1. e \in SentBy(work)
    BY <1>1 DEF Types, DeliveriesOf
  <2>2. /\ replica' = InboxWrite(e, replica) /\ tsubs'.replica = InboxThreadWrite(e, th)
        /\ tsubs'.origin = tsubs.origin /\ tsubs' = [tsubs EXCEPT !.replica = tsubs'.replica]
    BY <1>1, <1>4
  <2> HIDE DEF e
  <2>3. InboxOK(e, replica, th, InboxWrite(e, replica), InboxThreadWrite(e, th))
    BY <1>1, <2>1, InboxRegisters
  <2>4. InboxOK(e, replica, th, replica', tsubs'.replica)
    BY <2>2, <2>3
  <2>5. SiteOK(replica', tsubs'.replica) /\ tsubs'.replica \in Threads
    BY <2>4, Zenon DEF InboxOK, SiteOK
  <2>6. Forward
    BY <2>1, <2>4, AppliedForward
  <2>7. QED
    BY <1>1, <2>2, <2>5, <2>6
<1>5. QED
  BY <1>2, <1>3, <1>4 DEF PoolWrites

(* Nor do those of the membership handler. *)
LEMMA MembershipSites ==
  ASSUME MInv, MembershipWrites
  PROVE  SiteOK(replica', tsubs'.replica) /\ Forward
<1>1. /\ SiteOK(replica, tsubs.replica) /\ replica' \in Subs /\ tsubs'.replica \in Threads
      /\ replica.exists /\ replica'.exists => replica' = replica
      /\ replica'.at["favorite"] = replica'.at["section"] \/ replica' = replica
      /\ tsubs'.replica = tsubs.replica \/ tsubs'.replica = NoThread
  BY DEF MInv, MembershipWrites
<1>2. ~NoThread.exists /\ NoThread.seen = 0
  BY DEF NoThread
<1>3. SiteOK(replica', tsubs'.replica)
  BY <1>1, <1>2, Zenon DEF SiteOK
<1>4. Forward
  <2>1. replica.at \in [Fields -> Nat] /\ replica.seen \in Nat /\ tsubs.replica.seen \in Nat
    BY Zenon DEF MInv, Types, Subs, Threads
  <2>2. QED
    BY <1>1, <1>2, <2>1 DEF Forward
<1>5. QED
  BY <1>3, <1>4

(* Every step keeps the invariant and moves nothing of the replica backwards. *)
LEMMA MInvStep ==
  ASSUME MInv, Apart(work), [Next]_vars
  PROVE  MInv' /\ Forward
<1>1. Types /\ SiteOK(replica, tsubs.replica) /\ LanesOK(work)
  BY Zenon DEF MInv, Types, LanesOK
<1>2. ASSUME work' = work, clock' \in Nat, room' \in RoomDocs, origin' \in Subs,
             rpcs' \subseteq RpcsOf(work), LanesOK(work)', tsubs' \in [{"origin", "replica"} -> Threads],
             SiteOK(replica', tsubs'.replica)
      PROVE  MInv'
  <2>1. replica' \in Subs
    BY <1>2 DEF SiteOK
  <2>2. Types'
    BY <1>1, <1>2, <2>1, Zenon DEF Types, LanesOK
  <2>3. SiteOK(replica, tsubs.replica)'
    BY <1>2 DEF SiteOK, NoFavorites
  <2>4. QED
    BY <2>2, <2>3 DEF MInv
<1>3. ASSUME UNCHANGED <<work, clock, room, origin, rpcs>>
      PROVE  /\ work' = work /\ clock' \in Nat /\ room' \in RoomDocs /\ origin' \in Subs
             /\ rpcs' \subseteq RpcsOf(work)
  BY <1>1, <1>3 DEF Types
<1>4. ASSUME UNCHANGED <<replica, tsubs>>
      PROVE  /\ SiteOK(replica', tsubs'.replica) /\ tsubs' \in [{"origin", "replica"} -> Threads] /\ Forward
  <2>1. Forward
    BY <1>4, SameForward
  <2>2. QED
    BY <1>1, <1>4, <2>1, Zenon DEF Types, SiteOK
<1>5. CASE OriginActs
  <2>1. OriginTypes
    BY <1>1, <1>5, OriginSteps, Zenon DEF OriginActs
  <2>2. SiteOK(replica', tsubs'.replica) /\ Forward
    BY <1>1, <2>1, SameForward, Zenon DEF OriginTypes, SiteOK
  <2>3. QED
    BY <1>2, <2>1, <2>2, Zenon DEF OriginTypes
<1>6. CASE Relay
  <2>1. LanesOK(work)'
    BY <1>1, <1>6, ForwardTypes
  <2>2. UNCHANGED <<work, clock, room, origin, rpcs, replica, tsubs>>
    BY <1>6, Zenon DEF Relay, ForwardOrdered, ForwardConcurrent, load, docs
  <2>3. QED
    BY <1>2, <1>3, <1>4, <2>1, <2>2
<1>7. CASE HandleMembership \/ MembershipFails
  <2>1. LanesOK(work)' /\ MembershipWrites
    BY <1>1, <1>7, MembershipTypes
  <2>2. UNCHANGED <<work, clock, room, origin, rpcs>>
    BY <1>7, Zenon DEF HandleMembership, MembershipFails, load
  <2>3. SiteOK(replica', tsubs'.replica) /\ Forward /\ tsubs' \in [{"origin", "replica"} -> Threads]
    BY <2>1, MembershipSites, ZenonT(60) DEF MembershipWrites
  <2>4. QED
    BY <1>2, <1>3, <2>1, <2>2, <2>3
<1>8. CASE PoolApply \/ PoolCheck \/ PoolClear \/ PoolFails
  <2>1. LanesOK(work)' /\ PoolWrites
    BY <1>1, <1>8, PoolTypes
  <2>2. UNCHANGED <<work, clock, room, origin, rpcs>>
    BY <1>8 DEF PoolApply, PoolCheck, PoolClear, PoolFails, load, docs
  <2>3. SiteOK(replica', tsubs'.replica) /\ Forward /\ tsubs' \in [{"origin", "replica"} -> Threads]
    BY <2>1, PoolSites
  <2>4. QED
    BY <1>2, <1>3, <2>1, <2>2, <2>3
<1>9. CASE Redeliver \/ Crash
  <2>1. LanesOK(work)' /\ UNCHANGED docs
    BY <1>1, <1>9, RestartTypes
  <2>2. UNCHANGED <<work, clock, rpcs>>
    BY <1>9, Zenon DEF Redeliver, Crash, load
  <2>3. QED
    BY <1>2, <1>3, <1>4, <2>1, <2>2 DEF docs
<1>10. CASE UNCHANGED vars
  <2>1. LanesOK(work)' /\ UNCHANGED <<work, clock, room, origin, rpcs, replica, tsubs>>
    BY <1>1, <1>10, Zenon DEF vars, LanesOK
  <2>2. QED
    BY <1>2, <1>3, <1>4, <2>1, Zenon
<1>11. QED
  BY <1>5, <1>6, <1>7, <1>8, <1>9, <1>10, Cases

(* The invariant holds initially. *)
LEMMA InitMInv == Init => MInv
<1> SUFFICES ASSUME Init PROVE MInv
  OBVIOUS
<1>1. /\ work \in Workloads /\ clock = 0 /\ room = [name |-> "general", restricted |-> "off"]
      /\ origin = IF work.member THEN newSub("general", "off") ELSE NoSub
      /\ replica = origin /\ rpcs = {} /\ ordered = <<>> /\ concurrent = {}
      /\ tsubs = [s \in {"origin", "replica"} |-> [exists |-> work.member, seen |-> 0]]
      /\ membershipCh = <<>> /\ parked = {} /\ pool = {}
  BY Zenon DEF Init
<1>2. work.member \in BOOLEAN /\ "favorite" \in Fields /\ "section" \in Fields
      /\ "general" \in Names /\ "off" \in {"off", "on"}
  BY <1>1, Bounds, Zenon DEF Fields, Names
<1>3. replica \in Subs /\ origin \in Subs /\ replica.at["favorite"] = replica.at["section"]
  BY <1>1, <1>2, NewSubIs, NoSubIs, ZenonT(60)
<1>4. tsubs \in [{"origin", "replica"} -> Threads] /\ tsubs.replica \in Threads /\ tsubs.replica.seen = 0
  BY <1>1, <1>2, Zenon DEF Threads
<1>5. room \in RoomDocs
  BY <1>1, <1>2, ZenonT(60) DEF RoomDocs
<1>6. Types
  <2>1. ordered \in Seq(SentBy(work)) /\ membershipCh \in Seq(DeliveriesOf(work)) /\ clock \in Nat
    BY <1>1
  <2>2. /\ rpcs \subseteq RpcsOf(work) /\ concurrent \subseteq SentBy(work)
        /\ parked \subseteq DeliveriesOf(work) /\ pool \subseteq DeliveriesOf(work)
    BY <1>1, Zenon
  <2>3. QED
    BY <1>1, <1>3, <1>4, <1>5, <2>1, <2>2, Zenon DEF Types
<1>7. QED
  BY <1>3, <1>4, <1>6 DEF MInv, SiteOK

(* No workload has both favorite toggles and section moves: a move stamps the
   favorite flag under the section's mark alone. *)
FavoritesApart == \A w \in Workloads : Apart(w)

(* The invariant holds always. *)
LEMMA MInvariance == ASSUME FavoritesApart PROVE Spec => []MInv
<1>1. Init => MInv
  BY InitMInv
<1>2. MInv /\ [Next]_vars => MInv'
  <2>1. MInv => Apart(work)
    BY DEF MInv, Types, FavoritesApart
  <2>2. QED
    BY <2>1, MInvStep
<1>3. QED
  BY <1>1, <1>2, PTL DEF Spec

(* For any workload without that pair, any number of operations at once, faults,
   duplicates and redeliveries: no step of inbox-worker moves a mark of the replica,
   its read position or its thread's read position backwards, or changes a value
   under the mark it has. *)
THEOREM MarksMonotone == ASSUME FavoritesApart PROVE Spec => MarksNeverRegress
<1>1. MInv /\ [Next]_vars =>
        [replica.exists /\ replica'.exists =>
           /\ \A f \in Fields : replica'.at[f] >= replica.at[f]
           /\ \A f \in Fields \ Unstamped :
                replica'.val[f] # replica.val[f] => replica'.at[f] > replica.at[f]
           /\ replica'.seen >= replica.seen
           /\ tsubs'.replica.seen >= tsubs.replica.seen \/ ~tsubs'.replica.exists]_vars
  <2>1. MInv => Apart(work)
    BY DEF MInv, Types, FavoritesApart
  <2>2. MInv /\ [Next]_vars => Forward
    BY <2>1, MInvStep
  <2>3. QED
    BY <2>2, Zenon DEF Forward
<1>2. Spec => []MInv
  BY MInvariance
<1>3. QED
  BY <1>1, <1>2, PTL DEF Spec, MarksNeverRegress

-----------------------------------------------------------------------------
(* From the definition of Cardinality: its recursion has a solution on subsets of {x}. *)
LEMMA OneElement == \A x : Cardinality({x}) = 1
<1> SUFFICES ASSUME NEW x PROVE Cardinality({x}) = 1
  OBVIOUS
<1> DEFINE Counts(g) == g = [T \in SUBSET {x} |-> IF T = {} THEN 0 ELSE 1 + g[T \ {CHOOSE y : y \in T}]]
           count == [T \in SUBSET {x} |-> IF T = {} THEN 0 ELSE 1]
<1>1. \A T \in SUBSET {x} : T # {} => T = {x} /\ (CHOOSE y : y \in T) = x /\ T \ {x} = {}
  <2> SUFFICES ASSUME NEW T \in SUBSET {x}, T # {} PROVE T = {x} /\ (CHOOSE y : y \in T) = x /\ T \ {x} = {}
    OBVIOUS
  <2>1. T = {x}
    OBVIOUS
  <2>2. (CHOOSE y : y \in {x}) = x
    OBVIOUS
  <2>3. QED
    BY <2>1, <2>2
<1>2. Counts(count)
  <2>1. \A T \in SUBSET {x} : count[T] = IF T = {} THEN 0 ELSE 1 + count[T \ {CHOOSE y : y \in T}]
    BY <1>1
  <2> DEFINE other == [T \in SUBSET {x} |-> IF T = {} THEN 0 ELSE 1 + count[T \ {CHOOSE y : y \in T}]]
  <2>2. \A T \in SUBSET {x} : count[T] = other[T]
    BY <2>1
  <2>3. QED
    BY <2>2, Zenon
<1>3. Counts(CHOOSE g : Counts(g))
  BY <1>2, Zenon
<1>4. Cardinality({x}) = (CHOOSE g : Counts(g))[{x}]
  BY Zenon DEF Cardinality
<1> DEFINE c == CHOOSE g : Counts(g)
<1> HIDE DEF c
<1>5. c = [T \in SUBSET {x} |-> IF T = {} THEN 0 ELSE 1 + c[T \ {CHOOSE y : y \in T}]]
  BY <1>3, Zenon DEF c
<1>6. c[{}] = 0 /\ c[{x}] = 1 + c[{x} \ {CHOOSE y : y \in {x}}]
  BY <1>5
<1>7. {x} \ {CHOOSE y : y \in {x}} = {}
  BY <1>1
<1>8. c[{x}] = 1
  BY <1>6, <1>7
<1>9. Cardinality({x}) = c[{x}]
  BY <1>4 DEF c
<1>10. QED
  BY <1>8, <1>9

(* With one operation at a time, a new one finds none in progress. *)
LEMMA NoneYet ==
  ASSUME \A r, s \in rpcs : r = s, Cardinality(rpcs) < MaxConcurrent, MaxConcurrent <= 1
  PROVE  rpcs = {}
<1> SUFFICES ASSUME NEW r \in rpcs PROVE FALSE
  OBVIOUS
<1>1. rpcs = {r}
  OBVIOUS
<1>2. Cardinality({r}) = 1
  BY OneElement, ZenonT(60)
<1>3. QED
  BY <1>1, <1>2, Bounds

(* Only an add makes a subscription, and only a remove ends one. *)
LEMMA HandlerExists ==
  ASSUME origin \in Subs, NEW h, NEW op \in OpNames \ {"add"}, NEW arg, NEW t \in Nat, NEW inputs,
         op = "restrict" => arg \in {"self", "other", "lift"},
         HandledAs(h, op, arg, t, inputs)
  PROVE  h.sub.exists <=> origin.exists /\ op # "remove"
<1>1. /\ \A f, v : Stamp(origin, f, v, t).exists = origin.exists
      /\ \A s, f, v, g, w : Stamp(Stamp(origin, f, v, t), g, w, t).exists = origin.exists
  BY DEF Stamp, Subs
<1>2. \A d : LeaveFavorites(d) = d \/ LeaveFavorites(d) = [d EXCEPT !.val["section"] = "none"]
  BY DEF LeaveFavorites
<1>3. CASE op \in {"mute", "role", "move", "rename"}
  BY <1>1, <1>3, ZenonT(60) DEF HandledAs, Handles, ToggleSubscriptionMute, SetOwnerRole, MoveSubscriptionSection,
     UpdateSubscriptionNamesForRoom
<1>4. CASE op = "favorite"
  <2> DEFINE s == Stamp(origin, "favorite", Flip(origin.val["favorite"]), t)
  <2>1. h.sub = s \/ h.sub = LeaveFavorites(s)
    BY <1>4, Zenon DEF HandledAs, Handles, ToggleSubscriptionFavorite
  <2>2. s \in Subs /\ s.exists = origin.exists
    <3>1. Flip(origin.val["favorite"]) \in Strings /\ "favorite" \in Fields
      BY ZenonT(60) DEF Flip, Strings, Fields
    <3>2. QED
      BY <3>1, ZenonT(60) DEF Stamp, Subs
  <2> HIDE DEF s
  <2>3. LeaveFavorites(s).exists = s.exists
    BY <2>2, LeaveIs, ZenonT(60)
  <2>4. QED
    BY <1>4, <2>1, <2>2, <2>3
<1>5. CASE op = "restrict"
  <2> DEFINE s == Stamp(origin, "restrict", Restricted(arg), t)
  <2>1. h.sub = OwnerRoles(s, Owner(arg))
    BY <1>5, ZenonT(60) DEF HandledAs, Handles, ApplySubscriptionRestriction
  <2>2. s \in Subs /\ s.exists = origin.exists
    <3>1. Restricted(arg) \in Strings /\ "restrict" \in Fields
      BY DEF Restricted, Strings, Fields
    <3>2. QED
      BY <3>1, ZenonT(60) DEF Stamp, Subs
  <2> HIDE DEF s
  <2>3. Owner(arg) \in {"self", "other", ""}
    BY <1>5, ZenonT(60) DEF Owner
  <2> DEFINE o == Owner(arg)
  <2>4. o \in {"self", "other", ""} /\ h.sub = OwnerRoles(s, o)
    BY <2>1, <2>3, ZenonT(60)
  <2> HIDE DEF o
  <2>5. OwnerRoles(s, o).exists = s.exists
    BY <2>2, <2>4, OwnerIs, ZenonT(60)
  <2>6. QED
    BY <1>5, <2>2, <2>4, <2>5, ZenonT(60)
<1>6. CASE op \in {"read", "threadRead", "threadReadAll", "follow", "reply", "mention"}
  BY <1>6, ZenonT(60) DEF HandledAs, Handles, UpdateSubscriptionRead, PullThreadUnread, AddThreadUnread, SetMention, Subs
<1>7. CASE op = "remove"
  BY <1>7, NoSubIs, Zenon DEF HandledAs, Handles
<1>8. QED
  BY <1>3, <1>4, <1>5, <1>6, <1>7, ZenonT(60) DEF OpNames

-----------------------------------------------------------------------------
(* Membership events carry no mark that is compared; their order counts.   *)
(* Arriving follows the last one on its way to the replica: it says what   *)
(* the origin is, or there is none and both sites agree.                   *)

Joins(e) == e.type = "member_added"
Members(s) == {i \in 1..Len(s) : isMembershipSubject(s[i])}

(* The add or remove r has been written and is still to be published. *)
Decided(r) == r.op \in {"add", "remove"} /\ "sub" \notin r.todo

Arriving ==
  \/ \E i \in Members(ordered) : /\ \A j \in Members(ordered) : j <= i
                                 /\ Joins(ordered[i]) <=> origin.exists
  \/ /\ Members(ordered) = {} /\ membershipCh # <<>>
     /\ Joins(membershipCh[Len(membershipCh)].e) <=> origin.exists
  \/ Members(ordered) = {} /\ membershipCh = <<>> /\ (replica.exists <=> origin.exists)

Sound == /\ parked = {} /\ \A e \in concurrent : ~isMembershipSubject(e)
         /\ \A r, s \in rpcs : r = s
         /\ \A r \in rpcs : /\ r.op \in {"add", "remove"} => "publish" \in r.todo
                            /\ Decided(r) => (origin.exists <=> r.op = "add")
         /\ Arriving \/ \E r \in rpcs : Decided(r)
GInv == Types /\ faults \in Nat /\ (faults = 0 => Sound)

(* inbox-worker's pool neither inserts nor removes the subscription. *)
LEMMA InboxKeeps ==
  ASSUME Types, NEW d \in Subs, NEW e \in SentBy(work)
  PROVE  InboxWrite(e, d) \in Subs /\ InboxWrite(e, d).exists = d.exists
<1>0. ASSUME NEW c \in Subs, NEW f \in Fields, NEW v \in Strings, NEW t \in Nat
      PROVE  Stamp(c, f, v, t) \in Subs /\ Stamp(c, f, v, t).exists = c.exists
  BY <1>0, Zenon DEF Stamp, Subs
<1>1. e.at \in Nat /\ e.v \in Strings
  BY DEF SentBy
<1>2. ASSUME NEW f \in Fields, InboxWrite(e, d) = IF Newer(d, f, e.at) THEN Stamp(d, f, e.v, e.at) ELSE d
      PROVE  InboxWrite(e, d) \in Subs /\ InboxWrite(e, d).exists = d.exists
  BY <1>0, <1>1, <1>2
<1>3. CASE e.type \in {"subscription_mute_toggled", "role_updated", "room_renamed"}
  <2>1. {"mute", "roles", "name"} \subseteq Fields
    BY DEF Fields
  <2>2. \E f \in {"mute", "roles", "name"} :
          InboxWrite(e, d) = IF Newer(d, f, e.at) THEN Stamp(d, f, e.v, e.at) ELSE d
    BY <1>3 DEF InboxWrite, inboxUpdateSubscriptionMute, inboxUpdateSubscriptionRoles,
                UpdateSubscriptionNamesForRoom
  <2>3. QED
    BY <1>2, <2>1, <2>2, Zenon
<1>4. CASE e.type = "subscription_favorite_toggled"
  <2>1. InboxWrite(e, d) = inboxUpdateSubscriptionFavorite(d, e.v, e.at)
    BY <1>4 DEF InboxWrite
  <2>2. QED
    BY <1>4, <2>1, FavoriteRegisters
<1>5. CASE e.type = "room_restricted"
  <2>1. InboxWrite(e, d) = inboxApplySubscriptionRestriction(d, Restricted(e.v), Owner(e.v), e.at)
    BY <1>5 DEF InboxWrite
  <2>2. QED
    BY <1>5, <2>1, RestrictRegisters, Zenon
<1>6. CASE e.type = "subscription_section_moved"
  <2> DEFINE s == Stamp(d, "section", e.v, e.at)
             v == IF e.v = "favorites" THEN "on" ELSE "off"
  <2>1. InboxWrite(e, d) = d \/ InboxWrite(e, d) = Stamp(s, "favorite", v, e.at)
    BY <1>6 DEF InboxWrite, inboxUpdateSubscriptionSection, MoveSubscriptionSection
  <2>2. v \in Strings /\ "favorite" \in Fields /\ "section" \in Fields
    BY DEF Strings, Fields
  <2>3. s \in Subs /\ s.exists = d.exists
    BY <1>0, <1>1, <2>2
  <2> HIDE DEF s, v
  <2>4. Stamp(s, "favorite", v, e.at) \in Subs /\ Stamp(s, "favorite", v, e.at).exists = s.exists
    BY <1>0, <1>1, <2>2, <2>3, Zenon
  <2>5. QED
    BY <2>1, <2>3, <2>4, SMTT(60)
<1>7. CASE e.type \in {"subscription_read", "thread_read", "thread_read_all", "member_added", "member_removed",
                       "thread_subscription_upserted", "thread_unread_added", "subscription_mention"}
  <2> DEFINE d2 == InboxWrite(e, d)
  <2>1. \/ d2 = d \/ d2 = inboxUpdateSubscriptionRead(d, e.at)
        \/ d2 = AddThreadUnread(d) \/ d2 = inboxSetSubscriptionMentions(d, e.at)
    BY <1>7, ZenonT(60) DEF InboxWrite
  <2> HIDE DEF d2
  <2>2. d2 \in Subs /\ d2.exists = d.exists
    BY <1>1, <2>1, ZenonT(60) DEF inboxUpdateSubscriptionRead, AddThreadUnread, inboxSetSubscriptionMentions, Subs
  <2>3. QED
    BY <2>2 DEF d2
<1>8. QED
  BY <1>3, <1>4, <1>5, <1>6, <1>7, SentByOps, Zenon DEF OrderedEventTypes, ConcurrentEventTypes

(* Nor does any other write of the pool. *)
LEMMA PoolKeeps ==
  ASSUME Types, PoolWrites
  PROVE  /\ replica' \in Subs /\ replica'.exists = replica.exists
         /\ tsubs' \in [{"origin", "replica"} -> Threads]
<1>1. replica \in Subs /\ tsubs \in [{"origin", "replica"} -> Threads]
  BY DEF Types
<1>2. CASE replica' = PullThreadUnread(replica) /\ UNCHANGED tsubs
  BY <1>1, <1>2, ZenonT(60) DEF PullThreadUnread, Subs
<1>3. ASSUME NEW m \in pool, replica' = InboxWrite(m.e, replica),
             tsubs' = [tsubs EXCEPT !.replica = InboxThreadWrite(m.e, @)]
      PROVE  /\ replica' \in Subs /\ replica'.exists = replica.exists
             /\ tsubs' \in [{"origin", "replica"} -> Threads]
  <2>1. m.e \in SentBy(work) /\ m.e.at \in Nat
    BY Zenon DEF Types, DeliveriesOf, SentBy
  <2>2. \A th \in Threads : InboxThreadWrite(m.e, th) \in Threads
    BY <2>1 DEF InboxThreadWrite, Threads
  <2>3. replica' \in Subs /\ replica'.exists = replica.exists
    BY <1>1, <1>3, <2>1, InboxKeeps, SMTT(60)
  <2>4. QED
    BY <1>1, <1>3, <2>2, <2>3, SMTT(60)
<1>4. QED
  BY <1>1, <1>2, <1>3 DEF PoolWrites

(* Every step keeps the types, also when favorite toggles and section moves mix. *)
LEMMA TypesStep ==
  ASSUME Types, [Next]_vars
  PROVE  Types'
<1>1. LanesOK(work)
  BY DEF Types, LanesOK
<1>2. ASSUME work' = work, clock' \in Nat, room' \in RoomDocs, origin' \in Subs, replica' \in Subs,
             rpcs' \subseteq RpcsOf(work), LanesOK(work)', tsubs' \in [{"origin", "replica"} -> Threads]
      PROVE  Types'
  BY <1>2, Zenon DEF Types, LanesOK
<1>3. ASSUME UNCHANGED <<work, clock, room, origin, rpcs>>
      PROVE  /\ work' = work /\ clock' \in Nat /\ room' \in RoomDocs /\ origin' \in Subs
             /\ rpcs' \subseteq RpcsOf(work)
  BY <1>3 DEF Types
<1>4. ASSUME UNCHANGED <<replica, tsubs>>
      PROVE  replica' \in Subs /\ tsubs' \in [{"origin", "replica"} -> Threads]
  BY <1>4 DEF Types
<1>5. CASE OriginActs
  <2>1. OriginTypes /\ replica \in Subs
    BY <1>5, OriginSteps, Zenon DEF OriginActs, Types
  <2>2. QED
    BY <1>2, <2>1, Zenon DEF OriginTypes
<1>6. CASE Relay
  <2>1. LanesOK(work)' /\ UNCHANGED <<work, clock, room, origin, rpcs, replica, tsubs>>
    BY <1>6, ForwardTypes, Zenon DEF Relay, ForwardOrdered, ForwardConcurrent, load, docs
  <2>2. QED
    BY <1>2, <1>3, <1>4, <2>1, SMTT(60)
<1>7. CASE HandleMembership \/ MembershipFails
  <2>1. LanesOK(work)' /\ MembershipWrites /\ UNCHANGED <<work, clock, room, origin, rpcs>>
    BY <1>7, MembershipTypes, Zenon DEF HandleMembership, MembershipFails, load
  <2>2. QED
    BY <1>2, <1>3, <2>1, Zenon DEF MembershipWrites
<1>8. CASE PoolApply \/ PoolCheck \/ PoolClear \/ PoolFails
  <2>1. LanesOK(work)' /\ PoolWrites /\ UNCHANGED <<work, clock, room, origin, rpcs>>
    BY <1>8, PoolTypes, Zenon DEF PoolApply, PoolCheck, PoolClear, PoolFails, load, docs
  <2>2. QED
    BY <1>2, <1>3, <2>1, PoolKeeps, Zenon
<1>9. CASE Redeliver \/ Crash
  <2>1. LanesOK(work)' /\ UNCHANGED docs /\ UNCHANGED <<work, clock, rpcs>>
    BY <1>9, RestartTypes, Zenon DEF Redeliver, Crash, load
  <2>2. QED
    BY <1>2, <1>3, <1>4, <2>1, SMTT(60) DEF docs
<1>10. CASE UNCHANGED vars
  <2>1. LanesOK(work)' /\ UNCHANGED <<work, clock, room, origin, rpcs, replica, tsubs>>
    BY <1>1, <1>10, Zenon DEF vars, LanesOK
  <2>2. QED
    BY <1>2, <1>3, <1>4, <2>1
<1>11. QED
  BY <1>5, <1>6, <1>7, <1>8, <1>9, <1>10, Cases, SMTT(60)

(* Failures are counted. *)
LEMMA FaultsStep ==
  ASSUME faults \in Nat, [Next]_vars
  PROVE  faults' \in Nat /\ (faults' = 0 => faults = 0 /\ ~Fault)
<1>1. UNCHANGED faults \/ Fault
  BY ZenonT(60) DEF Next, vars, Start, StepOf, WriteRoom, WriteSub, WriteThread, Publish, RpcFails, WorkerFails,
     Relay, ForwardOrdered, ForwardConcurrent, Apply, HandleMembership, Redeliver, PoolApply, PoolCheck,
     PoolClear, MembershipFails, PoolFails, Crash, Rest, Settle, Ack
<1>2. QED
  BY <1>1 DEF Fault

(* What the handlers do to the membership. *)
LEMMA NowMember ==
  ASSUME Types, NEW r \in rpcs
  PROVE  /\ r.op = "add" => Now(r).sub.exists /\ Now(r).remote
         /\ r.op = "remove" => ~Now(r).sub.exists /\ Now(r).remote /\ Now(r).found
         /\ r.op \notin {"add", "remove"} => (Now(r).sub.exists <=> origin.exists)
<1>1. r.op \in OpNames /\ r.at \in Nat /\ <<r.op, r.arg>> \in work.ops /\ r.inputs \in RoomDocs
  BY SMTT(60) DEF Types, RpcsOf
<1> DEFINE op == r.op
           arg == r.arg
           t == r.at
           in == r.inputs
           h == HandlerOf(op, arg, t, in)
<1>2. Now(r) = h /\ op \in OpNames /\ t \in Nat /\ <<op, arg>> \in work.ops /\ in \in RoomDocs
  BY <1>1, Zenon DEF Now
<1> HIDE DEF op, arg, t, in
<1>3. HandledAs(h, op, arg, t, in)
  BY HandlersAre
<1>4. op = "add" => h = processAddMembers(in)
  BY DEF HandlerOf
<1>5. op = "remove" => h = processRemoveIndividual
  BY DEF HandlerOf
<1> HIDE DEF h
<1>6. op = "add" => h.sub.exists /\ h.remote
  <2>1. in.name \in Names /\ in.restricted \in {"off", "on"}
    BY <1>2 DEF RoomDocs
  <2>2. newSub(in.name, in.restricted).exists
    BY <2>1, NewSubIs, Zenon
  <2>3. op = "add" => h.sub = newSub(in.name, in.restricted) /\ h.remote
    BY <1>4, ZenonT(60) DEF processAddMembers, Handler
  <2>4. QED
    BY <2>2, <2>3
<1>7. op = "remove" => ~h.sub.exists /\ h.remote /\ h.found
  <2>1. op = "remove" => h.sub = NoSub /\ h.remote /\ h.found
    BY <1>5, ZenonT(60) DEF processRemoveIndividual, Handler
  <2>2. QED
    BY <2>1, NoSubIs
<1>8. op \notin {"add", "remove"} => (h.sub.exists <=> origin.exists)
  <2>1. op = "restrict" => arg \in {"self", "other", "lift"}
    BY <1>2, OpsAre, Zenon DEF Types
  <2>2. op # "add" => (h.sub.exists <=> origin.exists /\ op # "remove")
    BY <1>2, <1>3, <2>1, HandlerExists, ZenonT(60) DEF Types
  <2>3. QED
    BY <2>2
<1>9. QED
  BY <1>2, <1>6, <1>7, <1>8, ZenonT(60) DEF op

(* The operation in progress is the only one. *)
LEMMA OnlyDone ==
  ASSUME Types, Sound, NEW r \in rpcs, NEW ev \in SentBy(work), ev.type = r.ev.type, ev.at = r.ev.at,
         NEW step, Done(r, step, ev)
  PROVE  /\ \A s, t \in rpcs' : s = t
         /\ \A s \in rpcs' : s.op = r.op /\ s.todo = r.todo \ {step}
         /\ r.todo = {step} <=> rpcs' = {}
<1>1. rpcs = {r}
  BY Zenon DEF Sound
<1>2. (\A s, t \in rpcs' : s = t) /\ (r.todo = {step} <=> rpcs' = {})
  BY <1>1 DEF Done
<1>3. QED
  BY <1>1, <1>2, DoneIs, SMTT(60)

(* Nothing the membership depends on changes. *)
LEMMA SameArriving ==
  ASSUME Arriving, UNCHANGED <<ordered, membershipCh>>,
         origin'.exists = origin.exists, replica'.exists = replica.exists
  PROVE  Arriving'
<1>1. Members(ordered)' = Members(ordered)
  BY DEF Members
<1>2. QED
  BY <1>1, Zenon DEF Arriving

(* The start of an operation. *)
LEMMA StartSound ==
  ASSUME Types, Sound, MaxConcurrent <= 1, NEW op, NEW arg, Start(op, arg)
  PROVE  Sound'
<1>1. /\ UNCHANGED <<origin, replica, ordered, concurrent, membershipCh, parked>>
      /\ Cardinality(rpcs) < MaxConcurrent
  BY Zenon DEF Start, docs, outbox, inbox
<1>2. rpcs = {}
  BY <1>1, NoneYet, Zenon DEF Sound
<1>3. PICK r \in RpcsOf(work) : rpcs' = rpcs \cup {r} /\ r.op = op /\ r.todo = TodoOf(op)
  BY StartIs, Zenon
<1>4. op \in {"add", "remove"} => "publish" \in r.todo /\ "sub" \in r.todo
  BY <1>3, Zenon DEF TodoOf, Todo
<1>5. Arriving'
  BY <1>1, <1>2, SameArriving, Zenon DEF Sound
<1>6. \A s \in rpcs' : ~Decided(s) /\ (s.op \in {"add", "remove"} => "publish" \in s.todo)
  BY <1>2, <1>3, <1>4, Zenon DEF Decided
<1>7. QED
  BY <1>1, <1>2, <1>3, <1>5, <1>6, Zenon DEF Sound, Decided

(* A step of an operation that neither adds nor removes. *)
LEMMA OtherSound ==
  ASSUME Types, Sound, NEW r \in rpcs, r.op \notin {"add", "remove"},
         UNCHANGED parked, \A e \in concurrent' : ~isMembershipSubject(e),
         \A s, t \in rpcs' : s = t, \A s \in rpcs' : s.op = r.op, Arriving => Arriving'
  PROVE  Sound'
<1>1. Arriving
  <2>1. \A s \in rpcs : ~Decided(s)
    BY Zenon DEF Sound, Decided
  <2>2. QED
    BY <2>1, Zenon DEF Sound
<1>2. QED
  BY <1>1, Zenon DEF Sound, Decided

(* Only a restriction and a rename write the room, and a remove the thread. *)
LEMMA StepsOf ==
  ASSUME Types, NEW r \in rpcs
  PROVE  /\ "room" \in r.todo => r.op \notin {"add", "remove"}
         /\ "tsub" \in r.todo => r.op # "add"
         /\ r \in RpcsOf(work) /\ r.ev \in SentBy(work) /\ r.ev.type = EventType(r.op)
<1>1. r \in RpcsOf(work) /\ r.todo \subseteq TodoOf(r.op) /\ r.ev \in SentBy(work) /\ r.ev.type = EventType(r.op)
  BY Zenon DEF Types, RpcsOf
<1>2. QED
  BY <1>1, Zenon DEF TodoOf, Todo

(* The write of the room. *)
LEMMA RoomSound ==
  ASSUME Types, Sound, NEW r \in rpcs, WriteRoom(r)
  PROVE  Sound'
<1>1. /\ "room" \in r.todo /\ Done(r, "room", r.ev)
      /\ UNCHANGED <<origin, replica, ordered, concurrent, membershipCh, parked>>
  BY Zenon DEF WriteRoom, Ready, outbox, inbox
<1>2. r.op \notin {"add", "remove"} /\ r.ev \in SentBy(work)
  BY <1>1, StepsOf, Zenon
<1>3. (\A s, t \in rpcs' : s = t) /\ \A s \in rpcs' : s.op = r.op
  BY <1>1, <1>2, OnlyDone, Zenon
<1>4. Arriving => Arriving'
  BY <1>1, SameArriving, Zenon
<1>5. QED
  BY <1>1, <1>2, <1>3, <1>4, OtherSound, ZenonT(60) DEF Sound

(* The write of the subscription: an add or a remove has decided the membership. *)
LEMMA SubSound ==
  ASSUME Types, Sound, NEW r \in rpcs, WriteSub(r)
  PROVE  Sound'
<1> DEFINE h == Now(r)
           e == Event(h, r.at)
<1>1. /\ "sub" \in r.todo
      /\ UNCHANGED <<replica, ordered, concurrent, membershipCh, parked>>
      /\ \/ h.found /\ origin' = h.sub /\ Done(r, "sub", e)
         \/ ~h.found /\ rpcs' = rpcs \ {r} /\ UNCHANGED origin
  BY ZenonT(60) DEF WriteSub, Ready, outbox, inbox, docs
<1>2. /\ r.op = "add" => h.sub.exists
      /\ r.op = "remove" => ~h.sub.exists
      /\ r.op \notin {"add", "remove"} => (h.sub.exists <=> origin.exists)
      /\ h.sub \in Subs /\ origin \in Subs
  BY NowMember, NowIs, ZenonT(60) DEF Types
<1>3. e \in SentBy(work) /\ e.type = r.ev.type /\ e.at = r.ev.at
  BY NowIs, ZenonT(60)
<1> HIDE DEF h, e
<1>4. rpcs = {r} /\ ~Decided(r) /\ Arriving
  <2>1. rpcs = {r} /\ ~Decided(r)
    BY <1>1, Zenon DEF Sound, Decided
  <2>2. QED
    BY <2>1, ZenonT(60) DEF Sound
<1>5. CASE ~h.found
  <2>1. rpcs' = {} /\ Arriving'
    BY <1>1, <1>4, <1>5, SameArriving, Zenon
  <2>2. QED
    BY <1>1, <2>1, Zenon DEF Sound
<1>6. CASE h.found
  <2>1. origin' = h.sub /\ Done(r, "sub", e)
    BY <1>1, <1>6, ZenonT(60)
  <2>2. /\ \A s, t \in rpcs' : s = t
        /\ \A s \in rpcs' : s.op = r.op /\ s.todo = r.todo \ {"sub"}
        /\ r.todo = {"sub"} <=> rpcs' = {}
    BY <1>3, <2>1, OnlyDone, SMTT(60)
  <2>3. CASE r.op \in {"add", "remove"}
    <3>1. "publish" \in r.todo
      BY <2>3, Zenon DEF Sound
    <3>2. PICK s \in rpcs' : s.op = r.op /\ s.todo = r.todo \ {"sub"}
      BY <2>2, <3>1
    <3>3. rpcs' = {s} /\ Decided(s) /\ "publish" \in s.todo
      BY <2>2, <2>3, <3>1, <3>2, Zenon DEF Decided
    <3>4. origin'.exists <=> s.op = "add"
      BY <1>2, <2>1, <2>3, <3>2, Zenon
    <3>5. QED
      BY <1>1, <3>3, <3>4, Zenon DEF Sound, Decided
  <2>4. CASE r.op \notin {"add", "remove"}
    <3>1. origin'.exists = origin.exists
      <4>1. h.sub.exists \in BOOLEAN /\ origin.exists \in BOOLEAN /\ (h.sub.exists <=> origin.exists)
        BY <1>2, <2>4, Zenon DEF Subs
      <4>2. QED
        BY <2>1, <4>1, Zenon
    <3>2. Arriving => Arriving'
      BY <1>1, <3>1, SameArriving, ZenonT(60)
    <3>3. QED
      BY <1>1, <2>2, <2>4, <3>2, OtherSound, ZenonT(60) DEF Sound
  <2>5. QED
    BY <2>3, <2>4
<1>7. QED
  BY <1>5, <1>6, SMTT(60)

(* The write of the thread subscription. *)
LEMMA ThreadSound ==
  ASSUME Types, Sound, NEW r \in rpcs, WriteThread(r)
  PROVE  Sound'
<1>1. /\ "tsub" \in r.todo /\ (r.op = "remove" => "sub" \notin r.todo)
      /\ UNCHANGED <<origin, replica, ordered, concurrent, membershipCh, parked>>
      /\ Done(r, "tsub", r.ev) \/ (~Now(r).found /\ rpcs' = rpcs \ {r})
  BY DEF WriteThread, Ready, outbox, inbox
<1>2. r.op # "add" /\ r.ev \in SentBy(work) /\ (r.op = "remove" => Now(r).found)
  BY <1>1, StepsOf, NowMember, ZenonT(60)
<1>3. Arriving => Arriving'
  BY <1>1, SameArriving, ZenonT(60)
<1>4. CASE Done(r, "tsub", r.ev)
  <2>1. /\ \A s, t \in rpcs' : s = t
        /\ \A s \in rpcs' : s.op = r.op /\ s.todo = r.todo \ {"tsub"}
        /\ r.todo = {"tsub"} <=> rpcs' = {}
    BY <1>2, <1>4, OnlyDone, ZenonT(60)
  <2>2. CASE r.op = "remove"
    <3>1. "publish" \in r.todo /\ Decided(r) /\ ~origin.exists
      BY <1>1, <2>2, Zenon DEF Sound, Decided
    <3>2. PICK s \in rpcs' : s.op = r.op /\ s.todo = r.todo \ {"tsub"}
      BY <2>1, <3>1
    <3>3. rpcs' = {s} /\ Decided(s) /\ "publish" \in s.todo
      BY <2>1, <2>2, <3>1, <3>2, Zenon DEF Decided
    <3>4. QED
      BY <1>1, <2>2, <3>1, <3>2, <3>3, ZenonT(60) DEF Sound, Decided
  <2>3. CASE r.op # "remove"
    BY <1>1, <1>2, <1>3, <2>1, <2>3, OtherSound, ZenonT(60) DEF Sound
  <2>4. QED
    BY <2>2, <2>3
<1>5. CASE ~Now(r).found /\ rpcs' = rpcs \ {r}
  <2>1. r.op \notin {"add", "remove"} /\ rpcs' = {}
    BY <1>2, <1>5, ZenonT(60) DEF Sound
  <2>2. QED
    BY <1>1, <1>3, <2>1, OtherSound, ZenonT(60) DEF Sound
<1>6. QED
  BY <1>1, <1>4, <1>5, Zenon

(* A last event joins the queue, or one that is not about membership. *)
LEMMA AppendMembers ==
  ASSUME NEW S, NEW q \in Seq(S), NEW e \in S
  PROVE  LET q2 == Append(q, e) IN
         /\ \A i \in 1..Len(q) : q2[i] = q[i]
         /\ Members(q) \subseteq 1..Len(q) /\ Len(q) \in Nat /\ q2[Len(q) + 1] = e
         /\ ~isMembershipSubject(e) => Members(q2) = Members(q)
         /\ isMembershipSubject(e) => Members(q2) = Members(q) \cup {Len(q) + 1}
<1> DEFINE q2 == Append(q, e)
<1>1. /\ Len(q2) = Len(q) + 1 /\ q2[Len(q) + 1] = e /\ Len(q) \in Nat
      /\ \A i \in 1..Len(q) : q2[i] = q[i]
  OBVIOUS
<1>2. 1..(Len(q) + 1) = (1..Len(q)) \cup {Len(q) + 1}
  BY <1>1
<1> HIDE DEF q2
<1>3. ~isMembershipSubject(e) => Members(q2) = Members(q)
  BY <1>1, <1>2, SMTT(60) DEF Members
<1>4. isMembershipSubject(e) => Members(q2) = Members(q) \cup {Len(q) + 1}
  BY <1>1, <1>2, Zenon DEF Members
<1>5. QED
  BY <1>1, <1>3, <1>4, Zenon DEF q2, Members

(* The publish: what was decided is the last event of the queue. *)
LEMMA PublishSound ==
  ASSUME Types, Sound, NEW r \in rpcs, Publish(r)
  PROVE  Sound'
<1>1. /\ r.op # "mention" => r.todo = {"publish"}
      /\ Done(r, "publish", r.ev)
      /\ UNCHANGED <<origin, replica, membershipCh, parked>>
  BY DEF Publish, Ready, docs, inbox
<1>2. /\ ~Now(r).remote => UNCHANGED <<ordered, concurrent>>
      /\ Now(r).remote /\ r.ev.type \in OrderedEventTypes =>
           ordered' = Append(ordered, r.ev) /\ UNCHANGED concurrent
      /\ Now(r).remote /\ r.ev.type \notin OrderedEventTypes =>
           concurrent' = concurrent \cup {r.ev} /\ UNCHANGED ordered
  <2>1. CASE ~Now(r).remote
    BY <2>1 DEF Publish, outbox
  <2>2. CASE Now(r).remote /\ r.ev.type \in OrderedEventTypes
    BY <2>2 DEF Publish
  <2>3. CASE Now(r).remote /\ r.ev.type \notin OrderedEventTypes
    BY <2>3 DEF Publish
  <2>4. QED
    BY <2>1, <2>2, <2>3, Zenon
<1>3. /\ r.ev \in SentBy(work) /\ r.ev.type = EventType(r.op) /\ r.op \in OpNames
      /\ ordered \in Seq(SentBy(work)) /\ rpcs = {r}
  <2>1. r \in RpcsOf(work) /\ r.ev \in SentBy(work) /\ r.ev.type = EventType(r.op)
    BY StepsOf, Zenon
  <2>2. rpcs = {r} /\ ordered \in Seq(SentBy(work))
    BY ZenonT(60) DEF Sound, Types
  <2>3. QED
    BY <2>1, <2>2, ZenonT(60) DEF RpcsOf
<1>4. /\ \A s, t \in rpcs' : s = t
      /\ \A s \in rpcs' : s.op = r.op
      /\ r.todo = {"publish"} <=> rpcs' = {}
  BY <1>1, <1>3, OnlyDone, ZenonT(60)
<1> DEFINE e == r.ev
<1>5. /\ \A i \in 1..Len(ordered) : Append(ordered, e)[i] = ordered[i]
      /\ Members(ordered) \subseteq 1..Len(ordered) /\ Len(ordered) \in Nat
      /\ Append(ordered, e)[Len(ordered) + 1] = e
      /\ ~isMembershipSubject(e) => Members(Append(ordered, e)) = Members(ordered)
      /\ isMembershipSubject(e) => Members(Append(ordered, e)) = Members(ordered) \cup {Len(ordered) + 1}
  BY <1>3, AppendMembers, SMTT(60)
<1>6. CASE r.op \in {"add", "remove"}
  <2>1. /\ r.ev.type = IF r.op = "add" THEN "member_added" ELSE "member_removed"
        /\ Now(r).remote
    BY <1>3, <1>6, TypesOfOps, NowMember, ZenonT(60)
  <2>2. ordered' = Append(ordered, e) /\ UNCHANGED concurrent /\ isMembershipSubject(e)
    BY <1>2, <2>1, ZenonT(60) DEF OrderedEventTypes, isMembershipSubject
  <2>3. Joins(e) <=> origin.exists
    <3>1. Decided(r)
      BY <1>1, <1>6 DEF Decided
    <3>2. origin.exists <=> r.op = "add"
      BY <3>1, Zenon DEF Sound
    <3>3. QED
      BY <1>6, <2>1, <3>2, Zenon DEF Joins
  <2> HIDE DEF e
  <2>n. PICK n \in Nat : n = Len(ordered) + 1
    BY <1>5
  <2>4. /\ Members(ordered)' = Members(ordered) \cup {n} /\ ordered'[n] = e
    BY <1>5, <2>2, <2>n, ZenonT(60) DEF Members
  <2>5. \A j \in Members(ordered)' : j <= n
    BY <1>5, <2>4, <2>n, SMTT(60)
  <2>6. (Joins(ordered[n]) <=> origin.exists)'
    BY <1>1, <2>3, <2>4, Zenon DEF Joins
  <2>7. Arriving'
    BY <2>4, <2>5, <2>6, ZenonT(60) DEF Arriving
  <2>8. rpcs' = {}
    BY <1>1, <1>4, <1>6, Zenon
  <2>9. QED
    BY <1>1, <2>2, <2>7, <2>8, Zenon DEF Sound
<1>7. CASE r.op \notin {"add", "remove"}
  <2>1. ~isMembershipSubject(e)
    BY <1>3, <1>7, TypesOfOps, ZenonT(60) DEF isMembershipSubject, OpNames
  <2>2. \A c \in concurrent' : ~isMembershipSubject(c)
    BY <1>2, <2>1, Zenon DEF Sound
  <2>3. ASSUME Arriving PROVE Arriving'
    <3>1. CASE UNCHANGED ordered
      BY <1>1, <2>3, <3>1, SameArriving, Zenon
    <3>2. CASE ordered' = Append(ordered, e)
      <4>1. Members(ordered)' = Members(ordered)
        BY <1>5, <2>1, <3>2, ZenonT(60) DEF Members
      <4>2. \A i \in Members(ordered) : ordered'[i] = ordered[i]
        BY <1>5, <3>2, Zenon
      <4>3. QED
        BY <1>1, <2>3, <4>1, <4>2, ZenonT(60) DEF Arriving, Joins
    <3>3. QED
      BY <1>2, <3>1, <3>2, Zenon
  <2>4. QED
    BY <1>1, <1>4, <1>7, <2>2, <2>3, OtherSound, ZenonT(60)
<1>8. QED
  BY <1>6, <1>7

(* Steps of the other actors leave the room's site alone. *)
LEMMA RemoteSound ==
  ASSUME Sound, UNCHANGED <<origin, rpcs>>, parked' = {}, concurrent' \subseteq concurrent, Arriving => Arriving'
  PROVE  Sound'
  BY ZenonT(60) DEF Sound, Decided

(* The queue without its head. *)
LEMMA TailMembers ==
  ASSUME NEW S, NEW q \in Seq(S), q # <<>>
  PROVE  /\ Head(q) = q[1] /\ Len(q) \in Nat \ {0} /\ Len(Tail(q)) = Len(q) - 1
         /\ \A i \in 1..(Len(q) - 1) : Tail(q)[i] = q[i + 1]
         /\ \A i \in Nat : i \in Members(Tail(q)) <=> i >= 1 /\ i + 1 \in Members(q)
<1>1. /\ Head(q) = q[1] /\ Len(q) \in Nat \ {0} /\ Len(Tail(q)) = Len(q) - 1
      /\ \A i \in 1..(Len(q) - 1) : Tail(q)[i] = q[i + 1]
  OBVIOUS
<1> DEFINE p == Tail(q)
<1> HIDE DEF p
<1>2. \A i \in Nat : i \in Members(p) <=> i >= 1 /\ i + 1 \in Members(q)
  BY <1>1 DEF Members, p
<1>3. QED
  BY <1>1, <1>2, Zenon DEF p

(* A membership event goes from the head of the queue to the end of the lane. *)
LEMMA OrderedSound ==
  ASSUME Types, Sound, ForwardOrdered
  PROVE  Sound'
<1> DEFINE e == Head(ordered)
<1>1. /\ ordered # <<>> /\ UNCHANGED <<origin, replica, rpcs, concurrent, parked>>
      /\ \E copy \in {1, 2} : Arrive(e, copy) /\ ordered' = IF copy = 1 THEN Tail(ordered) ELSE ordered
  BY SMTT(20) DEF ForwardOrdered, docs
<1>2. PICK copy \in {1, 2} : Arrive(e, copy) /\ ordered' = IF copy = 1 THEN Tail(ordered) ELSE ordered
  BY <1>1, SMTT(60)
<1>3. /\ ordered \in Seq(SentBy(work)) /\ membershipCh \in Seq(DeliveriesOf(work))
      /\ parked = {} /\ Len(membershipCh) \in Nat
  BY DEF Types, Sound
<1>4. /\ e = ordered[1] /\ Len(ordered) \in Nat \ {0}
      /\ \A i \in 1..(Len(ordered) - 1) : Tail(ordered)[i] = ordered[i + 1]
      /\ \A i \in Nat : i \in Members(Tail(ordered)) <=> i >= 1 /\ i + 1 \in Members(ordered)
      /\ Members(Tail(ordered)) \subseteq Nat /\ Members(ordered) \subseteq 1..Len(ordered)
  BY <1>1, <1>3, TailMembers, SMTT(60) DEF Members
<1>5. 1 \in Members(ordered) <=> isMembershipSubject(e)
  <2>1. 1 \in 1..Len(ordered)
    BY <1>4
  <2>2. QED
    BY <1>4, <2>1, Zenon DEF Members
<1> DEFINE d == Delivery(e, copy)
<1>6. IF isMembershipSubject(e) THEN membershipCh' = Append(membershipCh, d) ELSE UNCHANGED membershipCh
  BY <1>2, Zenon DEF Arrive
<1>7. d.e = e
  BY Zenon DEF Delivery
<1> HIDE DEF d, e
<1>8. ASSUME NEW i \in Members(ordered), \A j \in Members(ordered) : j <= i, Joins(ordered[i]) <=> origin.exists
      PROVE  Arriving'
  <2>1. CASE copy = 2
    <3>1. ordered' = ordered /\ Members(ordered)' = Members(ordered)
      BY <1>2, <2>1, SMTT(60) DEF Members
    <3>2. QED
      BY <1>1, <1>8, <3>1, Zenon DEF Arriving
  <2>2. CASE copy = 1 /\ i # 1
    <3>1. ordered' = Tail(ordered) /\ Members(ordered)' = Members(Tail(ordered))
      BY <1>2, <2>2, Zenon DEF Members
    <3>2. PICK k \in Nat : k >= 1 /\ k + 1 = i
      <4>1. i \in Nat /\ i >= 1 /\ i - 1 \in Nat /\ (i - 1) + 1 = i /\ i - 1 >= 1
        BY <1>4, <1>8, <2>2, SMTT(60)
      <4>2. QED
        BY <4>1, SMTT(60)
    <3>3. k \in Members(ordered)' /\ ordered'[k] = ordered[i]
      <4>1. k \in 1..(Len(ordered) - 1)
        BY <1>4, <1>8, <3>2, SMTT(60)
      <4>2. QED
        BY <1>4, <1>8, <3>1, <3>2, <4>1, Zenon
    <3>4. ASSUME NEW j \in Members(ordered)' PROVE j <= k
      <4>1. j \in Nat /\ j + 1 \in Members(ordered)
        BY <1>4, <3>1, <3>4, Zenon
      <4>2. j + 1 <= i
        BY <1>8, <4>1
      <4>3. QED
        BY <3>2, <4>1, <4>2, SMTT(60)
    <3>5. (Joins(ordered[k]) <=> origin.exists)'
      BY <1>1, <1>8, <3>3, ZenonT(60) DEF Joins
    <3>6. QED
      BY <3>3, <3>4, <3>5, ZenonT(60) DEF Arriving
  <2>3. CASE copy = 1 /\ i = 1
    <3>1. Members(ordered)' = {}
      <4>1. Members(ordered)' = Members(Tail(ordered))
        BY <1>2, <2>3, Zenon DEF Members
      <4>2. \A k \in Nat : ~(k >= 1 /\ k + 1 \in Members(ordered))
        BY <1>8, <2>3, SMTT(60)
      <4>3. QED
        BY <1>4, <4>1, <4>2, ZenonT(60)
    <3>2. membershipCh' = Append(membershipCh, d)
      BY <1>5, <1>6, <1>8, <2>3, Zenon
    <3>3. d \in DeliveriesOf(work)
      <4>1. e \in SentBy(work) /\ copy \in Nat
        BY <1>3, <1>4
      <4>2. QED
        BY <4>1, DeliveryIs, SMTT(60) DEF d
    <3>4. membershipCh' # <<>> /\ membershipCh'[Len(membershipCh')] = d
      BY <1>3, <3>2, <3>3, SMTT(60)
    <3>5. (Joins(membershipCh[Len(membershipCh)].e) <=> origin.exists)'
      BY <1>1, <1>4, <1>7, <1>8, <2>3, <3>4, ZenonT(60) DEF Joins
    <3>6. QED
      BY <3>1, <3>4, <3>5, Zenon DEF Arriving
  <2>4. QED
    BY <2>1, <2>2, <2>3, SMTT(60)
<1>9. ASSUME Arriving, Members(ordered) = {} PROVE Arriving'
  <2>1. Members(ordered)' = {}
    <3>1. Members(Tail(ordered)) = {}
      BY <1>4, <1>9, Zenon
    <3>2. QED
      BY <1>2, <1>9, <3>1, Zenon DEF Members
  <2>2. UNCHANGED membershipCh
    BY <1>5, <1>6, <1>9, SMTT(60)
  <2>3. QED
    BY <1>1, <1>9, <2>1, <2>2, ZenonT(60) DEF Arriving
<1>10. Arriving => Arriving'
  BY <1>8, <1>9, ZenonT(60) DEF Arriving
<1>11. QED
  BY <1>1, <1>3, <1>10, RemoteSound, Zenon

(* The concurrent lane carries no membership events. *)
LEMMA ConcurrentSound ==
  ASSUME Types, Sound, ForwardConcurrent
  PROVE  Sound'
<1>1. /\ UNCHANGED <<origin, replica, rpcs, ordered, parked>> /\ concurrent' \subseteq concurrent
      /\ \E e \in concurrent : Arrive(e, 1) \/ Arrive(e, 2)
  BY Zenon DEF ForwardConcurrent, docs
<1>2. UNCHANGED membershipCh
  BY <1>1, Zenon DEF Arrive, Sound
<1>3. Arriving => Arriving'
  BY <1>1, <1>2, SameArriving, SMTT(60)
<1>4. QED
  BY <1>1, <1>3, RemoteSound, ZenonT(60) DEF Sound

(* The replica becomes what the head of the lane says. *)
LEMMA MembershipSound ==
  ASSUME Types, Sound, HandleMembership
  PROVE  Sound'
<1> DEFINE m == Head(membershipCh)
<1>1. /\ membershipCh # <<>> /\ ApplyMembership(m.e) /\ membershipCh' = Tail(membershipCh)
      /\ UNCHANGED <<origin, rpcs, ordered, concurrent, parked>>
  BY Zenon DEF HandleMembership, outbox
<1>2. /\ membershipCh \in Seq(DeliveriesOf(work)) /\ parked = {} /\ replica \in Subs
  BY ZenonT(60) DEF Types, Sound
<1>3. /\ m = membershipCh[1] /\ Len(membershipCh) \in Nat \ {0} /\ m \in DeliveriesOf(work)
      /\ Len(membershipCh') = Len(membershipCh) - 1
      /\ \A i \in 1..(Len(membershipCh) - 1) : membershipCh'[i] = membershipCh[i + 1]
  BY <1>1, <1>2, SMTT(60)
<1> HIDE DEF m
<1>4. replica'.exists <=> Joins(m.e)
  <2>1. CASE Joins(m.e)
    <3>1. m.e.v \in Names
      BY <1>3, <2>1, Zenon DEF Joins, DeliveriesOf, SentBy
    <3>2. replica' = IF replica.exists THEN replica ELSE newSub(m.e.v, "off")
      BY <1>1, <2>1, Zenon DEF Joins, ApplyMembership, handleMemberAdded, inboxBulkCreateSubscriptions
    <3>3. newSub(m.e.v, "off").exists
      BY <3>1, NewSubIs, Zenon
    <3>4. QED
      BY <2>1, <3>2, <3>3, SMTT(60)
  <2>2. CASE ~Joins(m.e)
    BY <1>1, <2>2, NoSubIs, SMTT(60) DEF Joins, ApplyMembership, handleMemberRemoved
  <2>3. QED
    BY <2>1, <2>2, Zenon
<1>5. Members(ordered)' = Members(ordered)
  BY <1>1, Zenon DEF Members
<1>6. ASSUME Members(ordered) = {}, Joins(membershipCh[Len(membershipCh)].e) <=> origin.exists
      PROVE  Arriving'
  <2>1. CASE Len(membershipCh) = 1
    <3>1. membershipCh' = <<>>
      BY <1>1, <1>2, <1>3, <2>1, SMTT(60)
    <3>2. replica'.exists <=> origin'.exists
      BY <1>1, <1>3, <1>4, <1>6, <2>1, Zenon
    <3>3. QED
      BY <1>5, <1>6, <3>1, <3>2, Zenon DEF Arriving
  <2>2. CASE Len(membershipCh) # 1
    <3>1. /\ membershipCh' # <<>>
          /\ membershipCh'[Len(membershipCh')] = membershipCh[Len(membershipCh)]
      <4>1. PICK n \in Nat : n = Len(membershipCh)
        BY <1>3
      <4>2. n - 1 \in 1..(n - 1) /\ (n - 1) + 1 = n /\ n - 1 # 0
        BY <1>3, <2>2, <4>1, SMTT(60)
      <4>3. membershipCh'[n - 1] = membershipCh[n] /\ Len(membershipCh') = n - 1
        BY <1>3, <4>1, <4>2, Zenon
      <4>4. membershipCh' # <<>>
        BY <4>2, <4>3
      <4>5. QED
        BY <4>1, <4>3, <4>4, SMTT(60)
    <3>2. QED
      BY <1>1, <1>5, <1>6, <3>1, ZenonT(60) DEF Arriving, Joins
  <2>3. QED
    BY <2>1, <2>2, SMTT(60)
<1>7. Arriving => Arriving'
  BY <1>1, <1>5, <1>6, ZenonT(60) DEF Arriving
<1>8. QED
  BY <1>1, <1>2, <1>7, RemoteSound, SMTT(60)

(* The pool keeps the replica's membership. *)
LEMMA PoolSound ==
  ASSUME Types, Sound, PoolApply \/ PoolCheck \/ PoolClear
  PROVE  Sound'
<1>1. UNCHANGED <<origin, rpcs, ordered, concurrent, membershipCh, parked>>
  BY DEF PoolApply, PoolCheck, PoolClear, docs, outbox
<1>2. replica'.exists = replica.exists
  BY PoolTypes, PoolKeeps
<1>3. Arriving => Arriving'
  BY <1>1, <1>2, SameArriving
<1>4. QED
  BY <1>1, <1>3, RemoteSound, ZenonT(60) DEF Sound

(* Every step without a failure keeps the membership sound. *)
LEMMA SoundStep ==
  ASSUME Types, Sound, ~Fault, MaxConcurrent <= 1, [Next]_vars
  PROVE  Sound'
<1>1. ASSUME NEW r \in rpcs, StepOf(r) PROVE Sound'
  BY <1>1, RoomSound, SubSound, ThreadSound, PublishSound, SMTT(60) DEF StepOf
<1>2. ASSUME NEW o \in work.ops, Start(o[1], o[2]) PROVE Sound'
  BY <1>2, StartSound, Zenon
<1>3. CASE Relay
  BY <1>3, OrderedSound, ConcurrentSound, SMTT(60) DEF Relay
<1>4. CASE Apply
  <2>1. ~Redeliver
    BY Zenon DEF Redeliver, Sound
  <2>2. QED
    BY <1>4, <2>1, MembershipSound, PoolSound, SMTT(60) DEF Apply
<1>5. CASE UNCHANGED vars
  <2>1. UNCHANGED <<origin, replica, rpcs, ordered, concurrent, membershipCh, parked>>
    BY <1>5, Zenon DEF vars
  <2>2. Arriving => Arriving'
    BY <2>1, SameArriving
  <2>3. QED
    BY <2>1, <2>2, RemoteSound, ZenonT(60) DEF Sound
<1>6. ~MembershipFails /\ ~PoolFails /\ ~Crash /\ \A r \in rpcs : ~RpcFails(r) /\ ~WorkerFails(r)
  BY Zenon DEF MembershipFails, PoolFails, Crash, RpcFails, WorkerFails
<1>7. QED
  BY <1>1, <1>2, <1>3, <1>4, <1>5, <1>6, ZenonT(60) DEF Next, Rest

(* At the start both documents are there, or neither, and nothing is on its way. *)
LEMMA InitGInv == Init => GInv
<1> SUFFICES ASSUME Init PROVE GInv
  OBVIOUS
<1>1. Types
  BY InitMInv DEF MInv
<1>2. /\ replica = origin /\ rpcs = {} /\ ordered = <<>> /\ concurrent = {} /\ membershipCh = <<>>
      /\ parked = {} /\ faults = 0
  BY Zenon DEF Init
<1>3. Arriving
  BY <1>2 DEF Arriving, Members
<1>4. Sound
  BY <1>2, <1>3, Zenon DEF Sound
<1>5. QED
  BY <1>1, <1>2, <1>4 DEF GInv

(* With one operation in progress at a time: once nothing is in flight and nothing
   has failed, the account is a member at its home site exactly if the room's site
   says so, however often its events were forwarded. *)
THEOREM MembershipAgrees ==
  ASSUME MaxConcurrent <= 1 PROVE Spec => []MembershipConverges
<1>1. GInv /\ [Next]_vars => GInv'
  <2> SUFFICES ASSUME GInv, [Next]_vars PROVE GInv'
    OBVIOUS
  <2>1. Types /\ faults \in Nat /\ (faults = 0 => Sound)
    BY DEF GInv
  <2>2. Types'
    BY <2>1, TypesStep
  <2>3. faults' \in Nat /\ (faults' = 0 => faults = 0 /\ ~Fault)
    BY <2>1, FaultsStep
  <2>4. faults' = 0 => Sound'
    BY <2>1, <2>3, SoundStep
  <2>5. QED
    BY <2>2, <2>3, <2>4, SMTT(60) DEF GInv
<1>2. GInv => MembershipConverges
  <2> SUFFICES ASSUME GInv, Quiescent, faults = 0 PROVE replica.exists = origin.exists
    BY DEF MembershipConverges
  <2>1. Sound /\ replica \in Subs /\ origin \in Subs
    BY DEF GInv, Types
  <2>2. Members(ordered) = {} /\ membershipCh = <<>> /\ rpcs = {}
    BY DEF Quiescent, Members
  <2>3. replica.exists <=> origin.exists
    BY <2>1, <2>2, Zenon DEF Sound, Arriving
  <2>4. replica.exists \in BOOLEAN /\ origin.exists \in BOOLEAN
    BY <2>1 DEF Subs
  <2>5. QED
    BY <2>3, <2>4
<1>3. QED
  BY <1>1, <1>2, InitGInv, PTL DEF Spec
=============================================================================
