---------------------------- MODULE MCFederation ----------------------------
(* Instances of Federation for TLC. *)
EXTENDS Federation

MCToggles == {"mute", "favorite", "read"} \X {""} \cup {"role"} \X {"user", "owner"}
MCMoves == {"move"} \X {"favorites", "none"} \cup {"restrict"} \X {"self", "lift"}
           \cup {<<"rename", "renamed">>}
MCThreads == {"reply", "threadRead", "threadReadAll", "mention"} \X {""}
Work(ops, member, maxOps, maxFaults, maxDups) ==
  [ops |-> ops, member |-> member, maxOps |-> maxOps, maxFaults |-> maxFaults,
   maxDups |-> maxDups]
MCMixed == {"mute", "add", "remove", "threadRead"} \X {""} \cup {<<"rename", "renamed">>}
(* Fields under failures, membership under repetition, and a mix of both. *)
MCWorkloads == {Work(ops, TRUE, 3, 2, 0) : ops \in {MCToggles, MCMoves, MCThreads}}
               \cup {Work({"add", "remove", "follow"} \X {""}, FALSE, 4, 0, 2),
                     Work(MCMixed, TRUE, 3, 1, 1)}

(* Two operations that break a comment of the code. *)
MCFavorite == {Work({<<"favorite", "">>, <<"move", "favorites">>}, TRUE, 2, 0, 0)}
MCAddRemove == {Work({"add", "remove"} \X {""}, FALSE, 2, 1, 0)}
=============================================================================
