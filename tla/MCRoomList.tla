----------------------------- MODULE MCRoomList -----------------------------
(* Instances of RoomList for TLC. *)
EXTENDS RoomList

Msg(id, at, account) ==
  [id |-> id, event |-> "created", hidden |-> FALSE, room |-> "r1", at |-> at,
   account |-> account, system |-> FALSE, all |-> FALSE, mentions |-> {}]
System(id, at) == [Msg(id, at, "a") EXCEPT !.system = TRUE]

MCRooms == {"r1"}
MCAccounts == {"a", "b"}
MCSubs == MCRooms \X MCAccounts
MCCreatedAt == [r \in MCRooms |-> 1]
MCTwoRooms == {"r1", "r2"}

(* A system message of the millisecond of the room's creation, an @all and a
   system message of one later millisecond, and a thread reply that the room
   does not show. *)
MCSystem == {System(1, 1), [Msg(2, 2, "a") EXCEPT !.all = TRUE], System(3, 2),
             [Msg(4, 3, "a") EXCEPT !.hidden = TRUE, !.mentions = {"b"}]}
(* Mentions of another account, of the sender, and by an edit. *)
MCMentions == {[Msg(1, 1, "a") EXCEPT !.mentions = {"a", "b"}],
               [Msg(2, 2, "b") EXCEPT !.mentions = {"b"}],
               [Msg(3, 2, "b") EXCEPT !.event = "updated", !.mentions = {"a"}]}
MCBReads == {<<"r1", "b">>}
(* A system and a user message of a room older than lastUserMsgAt, next to what
   cannot be written and what settles without a write. *)
MCSettle == {System(1, 2), [Msg(2, 2, "a") EXCEPT !.mentions = {"b"}],
             [Msg(3, 2, "b") EXCEPT !.room = "r2", !.mentions = {"a"}],
             [Msg(4, 2, "b") EXCEPT !.event = "malformed"]}
MCPoisonSub == {<<"r1", "b">>}
MCNoTime == [r \in MCRooms |-> 0]
MCTwoCreatedAt == [r \in MCTwoRooms |-> 1]
MCTwoRoomSubs == MCTwoRooms \X MCAccounts
=============================================================================
