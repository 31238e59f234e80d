------------------------------- MODULE SubDoc -------------------------------
(***************************************************************************)
(* The subscription document of one (room, account) pair, as the room's    *)
(* own site writes it (room-service, room-worker, message-worker,          *)
(* roomlist-worker) and as inbox-worker writes the replica at the          *)
(* account's home site.  Every operator is one MongoDB update.             *)
(*                                                                         *)
(* val[f] is the value of a federated field and at[f] its high-water mark  *)
(* (muteUpdatedAt, favoriteUpdatedAt, sectionUpdatedAt, rolesUpdatedAt,    *)
(* restrictUpdatedAt, nameUpdatedAt); 0 stands for an absent timestamp.    *)
(* seen is lastSeenAt, mention is hasMention, unread says whether the one  *)
(* thread of the model is in threadUnread.  A section value stands for     *)
(* sectionId and sectionOrder together: every write sets or removes both.  *)
(*                                                                         *)
(* An operator placed just before the one whose name it extends is a       *)
(* faulty variant of it, used to test the properties.                      *)
(***************************************************************************)
EXTENDS Naturals

Fields == {"mute", "favorite", "section", "roles", "restrict", "name"}
Sections == {"none", "favorites", "work"}
Names == {"general", "renamed"}
Values == [f \in Fields |->
            CASE f = "section" -> Sections
              [] f = "roles" -> {"user", "owner"}
              [] f = "name" -> Names
              [] OTHER -> {"off", "on"}]

Docs ==
  [exists: BOOLEAN, val: {v \in [Fields -> UNION {Values[f] : f \in Fields}] :
                            \A f \in Fields : v[f] \in Values[f]},
   at: [Fields -> Nat], seen: Nat, mention: BOOLEAN, unread: BOOLEAN]

\* A subscription as room-worker inserts it: restricted is copied from the room.
newSub(name, restricted) ==
  [exists |-> TRUE,
   val |-> [f \in Fields |-> CASE f = "section" -> "none"
                               [] f = "roles" -> "user"
                               [] f = "name" -> name
                               [] f = "restrict" -> restricted
                               [] OTHER -> "off"],
   at |-> [f \in Fields |-> 0],
   seen |-> 0, mention |-> FALSE, unread |-> FALSE]
NoSub == [newSub("general", "off") EXCEPT !.exists = FALSE]

Flip(v) == IF v = "on" THEN "off" ELSE "on"
Stamp(d, f, v, t) == [d EXCEPT !.val[f] = v, !.at[f] = t]
\* Leaving "favorites" when the favorite flag goes off: sectionId and
\* sectionOrder are removed, sectionUpdatedAt is not stamped.
LeaveFavorites(d) ==
  IF d.val["section"] = "favorites" THEN [d EXCEPT !.val["section"] = "none"] ELSE d

-----------------------------------------------------------------------------
(* The origin site: only the rename and the badge carry a guard.           *)

ToggleSubscriptionMute(d, t) == Stamp(d, "mute", Flip(d.val["mute"]), t)

ToggleSubscriptionFavorite(d, t) ==
  LET e == Stamp(d, "favorite", Flip(d.val["favorite"]), t)
  IN IF d.val["favorite"] = "on" THEN LeaveFavorites(e) ELSE e

MoveSubscriptionSection(d, s, t) ==
  Stamp(Stamp(d, "section", s, t),
        "favorite", IF s = "favorites" THEN "on" ELSE "off", t)

SetOwnerRole(d, role, t) == Stamp(d, "roles", role, t)

\* owner: "self" is this account, "other" another one, "" a change of flags only.
OwnerRoles(d, owner) ==
  CASE owner = "self" -> [d EXCEPT !.val["roles"] = "owner"]
    [] owner = "other" -> [d EXCEPT !.val["roles"] = "user"]
    [] owner = "" -> d
ApplySubscriptionRestriction(d, restricted, owner, t) ==
  OwnerRoles(Stamp(d, "restrict", restricted, t), owner)

UpdateSubscriptionRead(d, t) == [d EXCEPT !.seen = t, !.mention = FALSE]
\* roomlist-worker's badge write.
SetMention(d, t) == IF d.exists /\ d.seen < t THEN [d EXCEPT !.mention = TRUE] ELSE d
AddThreadUnread(d) ==
  IF d.exists THEN [d EXCEPT !.unread = TRUE] ELSE d
PullThreadUnread(d) == [d EXCEPT !.unread = FALSE]

-----------------------------------------------------------------------------
(* The home site: inbox-worker's writes, each under its own mark.          *)

NewerAny(d, f, t) == d.exists
Newer(d, f, t) == d.exists /\ d.at[f] < t

inboxUpdateSubscriptionMute(d, v, t) ==
  IF Newer(d, "mute", t) THEN Stamp(d, "mute", v, t) ELSE d

inboxUpdateSubscriptionFavorite(d, v, t) ==
  LET e == Stamp(d, "favorite", v, t)
  IN IF ~Newer(d, "favorite", t) THEN d
     ELSE IF v = "off" THEN LeaveFavorites(e) ELSE e

inboxUpdateSubscriptionSection(d, s, t) ==
  IF Newer(d, "section", t) THEN MoveSubscriptionSection(d, s, t) ELSE d

inboxUpdateSubscriptionRoles(d, v, t) ==
  IF Newer(d, "roles", t) THEN Stamp(d, "roles", v, t) ELSE d

inboxApplySubscriptionRestriction(d, restricted, owner, t) ==
  IF Newer(d, "restrict", t)
  THEN ApplySubscriptionRestriction(d, restricted, owner, t) ELSE d

\* room-worker's write and inbox-worker's are the same guarded update.
UpdateSubscriptionNamesForRoom(d, name, t) ==
  IF Newer(d, "name", t) THEN Stamp(d, "name", name, t) ELSE d

\* lastSeenAt and alert only: hasMention is left as it is.
inboxUpdateSubscriptionReadAny(d, t) ==
  IF d.exists THEN [d EXCEPT !.seen = t] ELSE d
inboxUpdateSubscriptionRead(d, t) ==
  IF d.exists /\ d.seen < t THEN [d EXCEPT !.seen = t] ELSE d

inboxSetSubscriptionMentions(d, t) ==
  IF d.exists /\ ~(d.seen >= t) THEN [d EXCEPT !.mention = TRUE] ELSE d

\* handleMemberAdded builds the replica without the room's restricted flag.
inboxBulkCreateSubscriptions(d, name) ==
  IF d.exists THEN d ELSE newSub(name, "off")
=============================================================================
