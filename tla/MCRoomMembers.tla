---------------------------- MODULE MCRoomMembers ----------------------------
(* A room of an owner, a user near and a user far away; these two belong  *)
(* to the section, the one far away to the department as well.             *)
EXTENDS RoomMembers, TLC

CONSTANTS boss, near, far, section, dept

MCWorkers == Permutations(Workers)

MCOrgOf == (boss :> {}) @@ (near :> {section}) @@ (far :> {section, dept})

Request(op, by, users, orgs) == [op |-> op, by |-> by, users |-> users, orgs |-> orgs]
Create(users, orgs) == Request("create", boss, users, orgs)
Add(users, orgs) == Request("add", boss, users, orgs)
Remove(by, a) == Request("remove", by, {a}, {})
RemoveOrg(org) == Request("removeOrg", boss, {}, {org})

Room(members, rows, orgs, k) ==
  [exists |-> TRUE, subs |-> members, owners |-> {boss} \cap members, irm |-> rows, orgRows |-> orgs, key |-> k,
   restricted |-> FALSE]
NoRoom == [exists |-> FALSE, subs |-> {}, owners |-> {}, irm |-> {}, orgRows |-> {}, key |-> NoKey,
           restricted |-> FALSE]
V0 == [ver |-> 0, secret |-> 1]

Scenario(rm, reqs) == [room |-> rm, reqs |-> reqs, ensure |-> FALSE]

MCScenarios == {
  \* A room is made, grows and loses a member again.
  Scenario(NoRoom, <<Create({near}, {dept}), Add({}, {section}), Remove(near, near)>>),
  \* The same without organisations at first: no rows to begin with.
  Scenario(NoRoom, <<Create({near}, {}), Add({}, {dept})>>),
  \* An addition before the redelivery of a creation that writes the first rows.
  Scenario(NoRoom, <<Create({}, {dept}), Add({near}, {}), Remove(boss, near)>>),
  \* A room of before keys lived in the room document, created again.
  Scenario(Room({}, {}, {}, NoKey), <<Create({near}, {})>>),
  \* The first organisation joins, and leaves.
  Scenario(Room({boss, near}, {}, {}, V0), <<Add({}, {section}), RemoveOrg(section), Remove(boss, near)>>),
  \* Two organisations with a common member.
  Scenario(Room({boss, near, far}, {boss}, {section}, V0), <<Add({near}, {dept}), RemoveOrg(section), Remove(boss, near)>>),
  \* Removals and an addition in a room without a key.
  Scenario(Room({boss, near}, {}, {}, NoKey), <<Remove(boss, near), Add({far}, {})>>),
  \* An owner who is also in through an organisation leaves.
  Scenario([Room({boss, near, far}, {boss, near}, {section}, V0) EXCEPT !.owners = {boss, near}],
           <<Remove(near, near), Add({near}, {}), RemoveOrg(section)>>),
  \* A restricted room: only the owner adds.
  Scenario([Room({boss, near}, {}, {}, V0) EXCEPT !.restricted = TRUE],
           <<Request("add", near, {far}, {}), Add({far}, {}), Remove(boss, near)>>),
  \* The RPC that provisions a key finds one, and none.
  [Scenario(Room({boss}, {}, {}, V0), <<Add({near}, {})>>) EXCEPT !.ensure = TRUE],
  [Scenario(Room({boss}, {}, {}, NoKey), <<>>) EXCEPT !.ensure = TRUE]
}
=============================================================================
