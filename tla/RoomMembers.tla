----------------------------- MODULE RoomMembers -----------------------------
(***************************************************************************)
(* Membership of one channel room: room-service checks and accepts the     *)
(* requests, the ROOMS stream delivers them to room-worker, whose handlers *)
(* run up to MAX_WORKERS at a time on the same room, each as a series of   *)
(* store calls.  A handler that fails is redelivered and starts over,      *)
(* possibly after later requests of the room.                              *)
(*                                                                         *)
(* Membership has two sources: the subscriptions, and the room_members     *)
(* rows of individuals and of organisations.  A room without an            *)
(* organisation keeps no rows ("lite mode").                               *)
(***************************************************************************)
EXTENDS Naturals, FiniteSets, Sequences

CONSTANTS
  Accounts,      \* the users
  Orgs,          \* the organisations (sections and departments)
  OrgOf,         \* the organisations of every user
  Remote,        \* the users whose home is another site
  Workers,       \* the goroutines of room-worker
  MaxWorkers,    \* the values MAX_WORKERS is given
  Scenarios,     \* [room, reqs, ensure]: a room and the requests made on it
  MaxRoomSize,   \* MAX_ROOM_SIZE of room-service
  MaxFaults,     \* bound: failed calls, lost publishes and failed archive writes
  NoKey

ASSUME OrgOfAssumption == OrgOf \in [Accounts -> SUBSET Orgs]
ASSUME FiniteAssumption == IsFiniteSet(Accounts)
ASSUME NoKeyAssumption == NoKey \notin [ver : Nat, secret : Nat]

Requests == [op : {"create", "add", "remove", "removeOrg"}, by : Accounts,
             users : SUBSET Accounts, orgs : SUBSET Orgs]

\* A room starts without a key or with the first one, and without a key while
\* it is still to be created; a removal names an account.
ASSUME ScenariosAssumption ==
  \A s \in Scenarios :
    /\ s.reqs \in Seq(Requests)
    /\ \A i \in DOMAIN s.reqs :
         s.reqs[i].op = "remove" => \E a \in Accounts : s.reqs[i].users = {a}
    /\ s.room.subs \subseteq Accounts
    /\ s.room.key \in {NoKey, [ver |-> 0, secret |-> 1]}
    /\ ~s.room.exists => s.room.key = NoKey

VARIABLES
  scen,      \* the scenario; it never changes
  workers,   \* MAX_WORKERS; it never changes
  state,     \* where every request of scen.reqs is
  job,       \* what every goroutine is doing
  exists,    \* the room document is there
  subs,      \* accounts with a subscription
  owners,    \* the ones whose roles contain owner
  irm,       \* room_members rows of individuals
  orgRows,   \* room_members rows of organisations
  count,     \* rooms.userCount + rooms.appCount
  crossSite, \* rooms.crossSite
  key,       \* rooms.encKey: the current version and its bytes
  retired,   \* retired_room_keys
  minted,    \* how many key pairs were written so far; bytes are numbered
  held,      \* the keys sent to every account
  ensure,    \* the key.ensure RPC of room-service
  faults,
  issued,    \* history: the bytes written for every version
  archiving, \* the pair every goroutine has replaced and not archived yet
  dropped,   \* history: versions not archived when they left the previous slot
  drift,     \* history: a call failed since the last recount
  torn       \* history: a row that no later delivery writes may be missing

room == <<exists, subs, owners, irm, orgRows, count, crossSite>>
keys == <<key, retired, minted, issued, dropped, archiving>>
vars == <<scen, workers, state, job, room, keys, held, ensure, faults, drift, torn>>

-----------------------------------------------------------------------------

Pairs == [ver : Nat, secret : Nat]
Idle == [m |-> 0, pc |-> "idle", new |-> {}, rows |-> {}, flag |-> FALSE,
         pair |-> NoKey, total |-> 0]

\* The room has rows: a room without an organisation starts without any.
Tracking == irm # {} \/ orgRows # {}

MembersOf(os) == {a \in Accounts : OrgOf[a] \cap os # {}}

\* A room has nobody before it is created, and its creation is the first request
\* made on it; its rows and its subscriptions agree to begin with.
ASSUME RoomsAssumption ==
  \A s \in Scenarios :
    /\ \A i \in DOMAIN s.reqs : s.reqs[i].op = "create" => i = 1 /\ s.room.subs = {}
    /\ ~s.room.exists => s.room.subs = {}
    /\ s.room.irm \cup s.room.owners \cup MembersOf(s.room.orgRows) \subseteq s.room.subs
    /\ s.room.irm # {} \/ s.room.orgRows # {} =>
         s.room.subs \subseteq s.room.irm \cup MembersOf(s.room.orgRows) /\ s.room.owners \subseteq s.room.irm

Req(w) == scen.reqs[job[w].m]
At(w, pc) == job[w].pc = pc
Goto(w, pc) == job' = [job EXCEPT ![w].pc = pc]

\* The handler returns nil: the message is acked.
Ack(w) ==
  /\ state' = [state EXCEPT ![job[w].m] = "done"]
  /\ job' = [job EXCEPT ![w] = Idle]

\* The handler returns an error: the message is NAKed and will be redelivered.
Nak(w) ==
  /\ state' = [state EXCEPT ![job[w].m] = "retry"]
  /\ job' = [job EXCEPT ![w] = Idle]

Init ==
  /\ scen \in Scenarios
  /\ workers \in MaxWorkers
  /\ state = [i \in DOMAIN scen.reqs |-> "unsent"]
  /\ job = [w \in Workers |-> Idle]
  /\ exists = scen.room.exists
  /\ subs = scen.room.subs
  /\ owners = scen.room.owners
  /\ irm = scen.room.irm
  /\ orgRows = scen.room.orgRows
  /\ count = Cardinality(subs)
  /\ crossSite = (subs \cap Remote # {})
  /\ key = scen.room.key
  /\ retired = {}
  /\ minted = IF key = NoKey THEN 0 ELSE 1
  /\ issued = IF key = NoKey THEN <<>> ELSE <<key.secret>>
  /\ held = [a \in Accounts |-> IF a \in subs /\ key # NoKey THEN {key} ELSE {}]
  /\ ensure = IF scen.ensure THEN "unsent" ELSE "done"
  /\ faults = 0
  /\ archiving = [w \in Workers |-> NoKey]
  /\ dropped = {}
  /\ drift = FALSE
  /\ torn = FALSE

-----------------------------------------------------------------------------
(* room-service: the checks made before a request enters the stream. They  *)
(* read the room as it is then; the worker acts on it later.               *)

CanAdd(r) ==
  LET wanted == r.users \cup MembersOf(r.orgs) IN
  /\ exists /\ r.by \in subs
  /\ scen.room.restricted => r.by \in owners
  /\ \/ r.orgs = {} /\ count + Cardinality(r.users) <= MaxRoomSize
     \/ count + Cardinality(wanted \ subs) <= MaxRoomSize

CanRemove(r) ==
  \A a \in r.users :
    /\ exists /\ a \in subs
    /\ a \in MembersOf(orgRows) => a \in irm
    /\ a # r.by => r.by \in owners
    /\ Cardinality(subs) > 1
    /\ a \in owners => Cardinality(owners) > 1

CanRemoveOrg(r) == exists /\ r.by \in owners

Accepts(r) ==
  CASE r.op = "create"    -> TRUE
    [] r.op = "add"       -> CanAdd(r)
    [] r.op = "remove"    -> CanRemove(r)
    [] r.op = "removeOrg" -> CanRemoveOrg(r)

Submit(i) ==
  /\ state[i] = "unsent"
  /\ \A j \in 1..(i - 1) : state[j] # "unsent"
  /\ state' = [state EXCEPT ![i] = IF Accepts(scen.reqs[i]) THEN "queued" ELSE "done"]
  /\ UNCHANGED <<scen, workers, job, room, keys, held, ensure, faults, drift, torn>>

-----------------------------------------------------------------------------
(* The consumer.                                                           *)

\* First deliveries keep the order of the stream; a redelivery comes at any time.
Deliver(w, i) ==
  /\ job[w] = Idle
  /\ Cardinality({v \in Workers : job[v] # Idle}) < workers
  /\ \/ state[i] = "retry"
     \/ state[i] = "queued" /\ \A j \in 1..(i - 1) : state[j] # "queued"
  /\ state' = [state EXCEPT ![i] = "running"]
  /\ job' = [job EXCEPT ![w].m = i, ![w].pc = scen.reqs[i].op]
  /\ UNCHANGED <<scen, workers, room, keys, held, ensure, faults, drift, torn>>

\* The versions the goroutines ws have still to archive.
PendingAt(ws) == {archiving[w].ver : w \in {v \in ws : archiving[v] # NoKey}}

\* The next call of the handler fails, or the process dies before it.
Fail(w) ==
  /\ job[w] # Idle
  /\ faults < MaxFaults
  /\ faults' = faults + 1
  /\ drift' = TRUE
  /\ Nak(w)
  /\ dropped' = dropped \cup PendingAt({w})
  /\ archiving' = [archiving EXCEPT ![w] = NoKey]
  /\ UNCHANGED <<scen, workers, room, key, retired, minted, issued, held, ensure, torn>>

-----------------------------------------------------------------------------
(* The key store.                                                          *)

Fresh == minted + 1

\* Every write of encKey: the pair p becomes the current key.
Install(p) ==
  /\ key' = p
  /\ minted' = minted + 1
  /\ issued' = IF p.ver = Len(issued) THEN Append(issued, p.secret)
               ELSE [issued EXCEPT ![p.ver + 1] = p.secret]

\* The pair SetIfAbsent leaves in the room, and returns.
Settled == IF key = NoKey THEN [ver |-> 0, secret |-> Fresh] ELSE key

SetIfAbsent ==
  /\ IF key = NoKey THEN Install(Settled) ELSE UNCHANGED <<key, minted, issued>>
  /\ UNCHANGED <<retired, dropped, archiving>>

Set ==
  /\ Install([ver |-> 0, secret |-> Fresh])
  /\ UNCHANGED <<retired, dropped, archiving>>

Rotated == [ver |-> key.ver + 1, secret |-> Fresh]

\* The current pair moves to the previous slot, and the one there out of it.
Rotate(w) ==
  /\ Install(Rotated)
  /\ archiving' = [archiving EXCEPT ![w] = key]
  /\ dropped' = dropped \cup PendingAt(Workers)
  /\ UNCHANGED retired

\* Archived under the version that replaces it.
ArchiveUnderNext(p, ok) ==
  /\ retired' = IF ok THEN retired \cup {[p EXCEPT !.ver = @ + 1]} ELSE retired
  /\ dropped' = IF ok THEN dropped \ {p.ver} ELSE dropped \cup {p.ver}

\* Best-effort: a failure is logged.
ArchiveRetired(p, ok) ==
  /\ retired' = IF ok THEN retired \cup {p} ELSE retired
  /\ dropped' = IF ok THEN dropped \ {p.ver} ELSE dropped \cup {p.ver}

\* What the last rotation replaced.  Its grace window is open as long as the archive
\* write is under way, and taken to have closed then.
Previous == {p \in {archiving[w] : w \in Workers} \ {NoKey} : p.ver + 1 = key.ver}

GetByVersion(v) == {p \in retired \cup Previous \cup ({key} \ {NoKey}) : p.ver = v}

\* A publish per account; the ones in lost fail and are only logged.
SendKey(to, p, lost) ==
  /\ lost \subseteq to
  /\ faults + Cardinality(lost) <= MaxFaults
  /\ faults' = faults + Cardinality(lost)
  /\ held' = [a \in Accounts |-> IF a \in to \ lost THEN held[a] \cup {p} ELSE held[a]]

-----------------------------------------------------------------------------
(* processCreateRoom, for a channel.                                       *)

CreateRoom(w) ==
  /\ At(w, "create")
  /\ IF exists
     THEN /\ Goto(w, "createKey")
          /\ UNCHANGED <<exists, crossSite, keys>>
     ELSE /\ exists' = TRUE
          /\ crossSite' = (Req(w).by \in Remote)
          /\ Set
          /\ job' = [job EXCEPT ![w].pc = "createSubs", ![w].pair = key']
  /\ UNCHANGED <<scen, workers, state, subs, owners, irm, orgRows, count, held, ensure, faults, drift, torn>>

\* existingRoomKey: a redelivery reads the key back.
ExistingRoomKey(w) ==
  /\ At(w, "createKey")
  /\ IF key = NoKey THEN Goto(w, "createSet")
     ELSE job' = [job EXCEPT ![w].pc = "createSubs", ![w].pair = key]
  /\ UNCHANGED <<scen, workers, state, room, keys, held, ensure, faults, drift, torn>>

ExistingRoomSet(w) ==
  /\ At(w, "createSet")
  /\ Set
  /\ job' = [job EXCEPT ![w].pc = "createSubs", ![w].pair = key']
  /\ UNCHANGED <<scen, workers, state, room, held, ensure, faults, drift, torn>>

\* A creation without organisations writes no rows, also when it is redelivered
\* to a room that has them by now.
CreateSubs(w) ==
  /\ At(w, "createSubs")
  /\ LET r == Req(w)
         new == {r.by} \cup r.users \cup MembersOf(r.orgs) IN
       /\ subs' = subs \cup new
       /\ owners' = owners \cup ({r.by} \ subs)
       /\ job' = [job EXCEPT ![w].new = new, ![w].pc = IF r.orgs = {} THEN "count" ELSE "createRows"]
       /\ torn' = (torn \/ (r.orgs = {} /\ Tracking))
  /\ UNCHANGED <<scen, workers, state, exists, irm, orgRows, count, crossSite, keys, held, ensure, faults, drift>>

\* A redelivered creation that writes the first rows of the room writes none for
\* the members added before it.
CreateRows(w) ==
  /\ At(w, "createRows")
  /\ irm' = irm \cup {Req(w).by} \cup Req(w).users
  /\ orgRows' = orgRows \cup Req(w).orgs
  /\ torn' = (torn \/ (~Tracking /\ ~(subs \subseteq job[w].new)))
  /\ Goto(w, "count")
  /\ UNCHANGED <<scen, workers, state, exists, subs, owners, count, crossSite, keys, held, ensure, faults, drift>>

\* finishCreateRoom marks the room before it tells its members.
CreateCrossSite(w) ==
  /\ At(w, "cross")
  /\ crossSite' = (crossSite \/ job[w].new \cap Remote # {})
  /\ Goto(w, "told")
  /\ UNCHANGED <<scen, workers, state, exists, subs, owners, irm, orgRows, count, keys, held, ensure, faults, drift, torn>>

-----------------------------------------------------------------------------
(* processAddMembers.                                                      *)

\* The reads, the cross-site mark of the room, and the split of the
\* candidates into those without a subscription and those without a row.  The
\* mark is only ever set, and nothing here reads it: a call that fails between
\* the reads and the mark, or after it, leaves what a failure before them leaves,
\* and perhaps the mark.
LoadAddMemberInputs(w) ==
  /\ At(w, "add")
  /\ LET r == Req(w)
         candidates == r.users \cup MembersOf(r.orgs)
         needSub == candidates \ subs
         needIRM == IF r.orgs # {} \/ Tracking THEN r.users \ irm ELSE {} IN
       /\ crossSite' = (crossSite \/ candidates \cap Remote # {})
       /\ IF needSub = {} /\ needIRM = {} /\ r.orgs = {}
          THEN Ack(w)
          ELSE /\ job' = [job EXCEPT ![w].pc = IF needSub = {} THEN "addList" ELSE "addKey",
                                     ![w].new = needSub, ![w].rows = needIRM,
                                     ![w].flag = (r.orgs # {} /\ ~Tracking)]
               /\ UNCHANGED state
  /\ UNCHANGED <<scen, workers, exists, subs, owners, irm, orgRows, count, keys, held, ensure, faults, drift, torn>>

KeyPairOrHeal(w) ==
  /\ At(w, "addKey")
  /\ job' = [job EXCEPT ![w].pc = IF key = NoKey THEN "addHeal" ELSE "addSubs", ![w].pair = key]
  /\ UNCHANGED <<scen, workers, state, room, keys, held, ensure, faults, drift, torn>>

\* Set where SetIfAbsent is needed.
HealWithSet(w) ==
  /\ At(w, "addHeal")
  /\ Set
  /\ job' = [job EXCEPT ![w].pc = "addSubs", ![w].pair = key']
  /\ UNCHANGED <<scen, workers, state, room, held, ensure, faults, drift, torn>>

Heal(w) ==
  /\ At(w, "addHeal")
  /\ SetIfAbsent
  /\ job' = [job EXCEPT ![w].pc = "addSubs", ![w].pair = Settled]
  /\ UNCHANGED <<scen, workers, state, room, held, ensure, faults, drift, torn>>

AddSubs(w) ==
  /\ At(w, "addSubs")
  /\ subs' = subs \cup job[w].new
  /\ Goto(w, "addList")
  /\ UNCHANGED <<scen, workers, state, exists, owners, irm, orgRows, count, crossSite, keys, held, ensure, faults, drift, torn>>

\* The first organisation of the room: its subscribers get rows too.
Backfill(w) ==
  /\ At(w, "addList")
  /\ job' = [job EXCEPT ![w].pc = "addRows",
                        ![w].rows = IF job[w].flag THEN @ \cup (subs \ job[w].new) ELSE @]
  /\ UNCHANGED <<scen, workers, state, room, keys, held, ensure, faults, drift, torn>>

AddRows(w) ==
  /\ At(w, "addRows")
  /\ irm' = irm \cup job[w].rows
  /\ orgRows' = orgRows \cup Req(w).orgs
  /\ Goto(w, "addCount")
  /\ UNCHANGED <<scen, workers, state, exists, subs, owners, count, crossSite, keys, held, ensure, faults, drift, torn>>

\* Counts the members that only get a row as well.
ApplyRowDelta(w) ==
  /\ At(w, "addCount")
  /\ count' = count + Cardinality(job[w].new \cup job[w].rows)
  /\ \E due \in BOOLEAN : Goto(w, IF due THEN "count" ELSE "told")
  /\ UNCHANGED <<scen, workers, state, exists, subs, owners, irm, orgRows, crossSite, keys, held, ensure, faults, drift, torn>>

\* ApplyMemberCountDelta also says whether the room is due for a recount.
ApplyMemberCountDelta(w) ==
  /\ At(w, "addCount")
  /\ count' = count + Cardinality(job[w].new)
  /\ \E due \in BOOLEAN : Goto(w, IF due THEN "count" ELSE "told")
  /\ UNCHANGED <<scen, workers, state, exists, subs, owners, irm, orgRows, crossSite, keys, held, ensure, faults, drift, torn>>

\* publishSubscriptionAdded: the event carries the key read earlier.
SubscriptionAdded(w) ==
  /\ At(w, "told")
  /\ \E lost \in SUBSET job[w].new : SendKey(job[w].new, job[w].pair, lost)
  /\ Goto(w, "publish")
  /\ UNCHANGED <<scen, workers, state, room, keys, ensure, drift, torn>>

\* The bulk writes are unordered upserts: some documents are in, then the call
\* fails.  Rows of a backfill that are missing then are never written again.
BulkFails(w) ==
  /\ faults < MaxFaults
  /\ faults' = faults + 1
  /\ drift' = TRUE
  /\ \/ /\ At(w, "createSubs")
        /\ \E some \in SUBSET ({Req(w).by} \cup Req(w).users \cup MembersOf(Req(w).orgs)) :
             /\ subs' = subs \cup some
             /\ owners' = owners \cup ((some \cap {Req(w).by}) \ subs)
        /\ torn' = (torn \/ (Req(w).orgs = {} /\ Tracking))
        /\ UNCHANGED <<irm, orgRows>>
     \/ /\ At(w, "createRows")
        /\ \E some \in SUBSET ({Req(w).by} \cup Req(w).users) : irm' = irm \cup some
        /\ \E some \in SUBSET Req(w).orgs : orgRows' = orgRows \cup some
        /\ torn' = (torn \/ (~Tracking /\ ~(subs \subseteq job[w].new)))
        /\ UNCHANGED <<subs, owners>>
     \/ /\ At(w, "addSubs")
        /\ \E some \in SUBSET job[w].new : subs' = subs \cup some
        /\ UNCHANGED <<owners, irm, orgRows, torn>>
     \/ /\ At(w, "addRows")
        /\ \E some \in SUBSET job[w].rows : irm' = irm \cup some
        /\ \E some \in SUBSET Req(w).orgs : orgRows' = orgRows \cup some
        /\ torn' = (torn \/ job[w].flag)
        /\ UNCHANGED <<subs, owners>>
  /\ Nak(w)
  /\ UNCHANGED <<scen, workers, exists, count, crossSite, keys, held, ensure>>

-----------------------------------------------------------------------------
(* processRemoveMember, for an account and for an organisation.            *)

RemoveMember(w) ==
  /\ job[w].pc \in {"remove", "removeOrg"}
  /\ job' = [job EXCEPT ![w].pc = IF @ = "remove" THEN "rmLoad" ELSE "orgLoad", ![w].pair = key]
  /\ UNCHANGED <<scen, workers, state, room, keys, held, ensure, faults, drift, torn>>

\* GetUserWithMembership: still in through an organisation, and is an owner?
GetUserWithMembership(w) ==
  /\ At(w, "rmLoad")
  /\ job' = [job EXCEPT ![w].pc = "rmRow", ![w].flag = (Req(w).users \cap owners # {}),
                        ![w].new = Req(w).users \ MembersOf(orgRows)]
  /\ UNCHANGED <<scen, workers, state, room, keys, held, ensure, faults, drift, torn>>

DeleteRoomMember(w) ==
  /\ At(w, "rmRow")
  /\ irm' = irm \ Req(w).users
  /\ IF job[w].new = {} /\ ~job[w].flag
     THEN Ack(w)
     ELSE Goto(w, IF job[w].new = {} THEN "rmRole" ELSE "rmSub") /\ UNCHANGED state
  /\ UNCHANGED <<scen, workers, exists, subs, owners, orgRows, count, crossSite, keys, held, ensure, faults, drift, torn>>

\* RemoveRole matches no document once the subscription is gone.
RemoveRole(w) ==
  /\ At(w, "rmRole")
  /\ owners' = owners \ Req(w).users
  /\ IF Req(w).users \subseteq subs THEN Ack(w) ELSE Nak(w)
  /\ UNCHANGED <<scen, workers, exists, subs, irm, orgRows, count, crossSite, keys, held, ensure, faults, drift, torn>>

DeleteSubscription(w) ==
  /\ job[w].pc \in {"rmSub", "orgSubs"}
  /\ subs' = subs \ job[w].new
  /\ owners' = owners \ job[w].new
  /\ Goto(w, IF At(w, "rmSub") THEN "count" ELSE "orgRow")
  /\ UNCHANGED <<scen, workers, state, exists, irm, orgRows, count, crossSite, keys, held, ensure, faults, drift, torn>>

\* The member's other organisations are not looked at.
GetOrgMembersOnly(w) ==
  /\ At(w, "orgLoad")
  /\ LET gone == MembersOf(Req(w).orgs) \ irm IN
       job' = [job EXCEPT ![w].new = gone, ![w].pc = IF gone = {} THEN "orgRow" ELSE "orgSubs"]
  /\ UNCHANGED <<scen, workers, state, room, keys, held, ensure, faults, drift, torn>>

\* Members with a row of their own or another organisation stay.
GetOrgMembers(w) ==
  /\ At(w, "orgLoad")
  /\ LET gone == MembersOf(Req(w).orgs) \ (irm \cup MembersOf(orgRows \ Req(w).orgs)) IN
       job' = [job EXCEPT ![w].new = gone, ![w].pc = IF gone = {} THEN "orgRow" ELSE "orgSubs"]
  /\ UNCHANGED <<scen, workers, state, room, keys, held, ensure, faults, drift, torn>>

DeleteOrgRow(w) ==
  /\ At(w, "orgRow")
  /\ orgRows' = orgRows \ Req(w).orgs
  /\ Goto(w, "count")
  /\ UNCHANGED <<scen, workers, state, exists, subs, owners, irm, count, crossSite, keys, held, ensure, faults, drift, torn>>

\* The survivors are listed, then the rotation is committed, then fanned out.
GetSubscriptionAccounts(w) ==
  /\ At(w, "survivors")
  /\ job' = [job EXCEPT ![w].pc = "rotate", ![w].rows = subs]
  /\ UNCHANGED <<scen, workers, state, room, keys, held, ensure, faults, drift, torn>>

CommitRotation(w) ==
  /\ At(w, "rotate")
  /\ \/ /\ job[w].pair # NoKey /\ key # NoKey
        /\ Rotate(w)
        /\ job' = [job EXCEPT ![w].pc = "fanOut", ![w].pair = Rotated]
     \/ /\ job[w].pair = NoKey \/ key = NoKey
        /\ SetIfAbsent
        /\ job' = [job EXCEPT ![w].pc = "fanOut", ![w].pair = Settled]
  /\ UNCHANGED <<scen, workers, state, room, held, ensure, faults, drift, torn>>

\* The end of Rotate: other goroutines may have rotated since its commit.
ArchiveDemoted(w) ==
  /\ At(w, "fanOut") /\ archiving[w] # NoKey
  /\ \E ok \in BOOLEAN :
       /\ ok \/ faults < MaxFaults
       /\ faults' = IF ok THEN faults ELSE faults + 1
       /\ ArchiveRetired(archiving[w], ok)
  /\ archiving' = [archiving EXCEPT ![w] = NoKey]
  /\ UNCHANGED <<scen, workers, state, job, room, key, minted, issued, held, ensure, drift, torn>>

FanOutKey(w) ==
  /\ At(w, "fanOut")
  /\ archiving[w] = NoKey
  /\ \E lost \in SUBSET job[w].rows : SendKey(job[w].rows, job[w].pair, lost)
  /\ Goto(w, "publish")
  /\ UNCHANGED <<scen, workers, state, room, keys, ensure, drift, torn>>

-----------------------------------------------------------------------------
(* Shared by all of them.                                                  *)

ReconcileCount(w) ==
  /\ At(w, "count")
  /\ job' = [job EXCEPT ![w].pc = "recount", ![w].total = Cardinality(subs)]
  /\ UNCHANGED <<scen, workers, state, room, keys, held, ensure, faults, drift, torn>>

\* The members of a new room are told before it is marked.
AfterReconcileTold(w) ==
  CASE Req(w).op \in {"create", "add"} -> "told"
    [] OTHER -> IF job[w].new = {} THEN "publish" ELSE "survivors"

\* A redelivered removal that finds the account gone does not rotate.
AfterReconcileDone(w) ==
  CASE Req(w).op = "create" -> "cross"
    [] Req(w).op = "add" -> "told"
    [] OTHER -> IF job[w].new = {} \/ count = job[w].total THEN "publish" ELSE "survivors"

AfterReconcile(w) ==
  CASE Req(w).op = "create" -> "cross"
    [] Req(w).op = "add" -> "told"
    [] OTHER -> IF job[w].new = {} THEN "publish" ELSE "survivors"

ReconcileWrite(w) ==
  /\ At(w, "recount")
  /\ count' = job[w].total
  /\ drift' = FALSE
  /\ job' = [job EXCEPT ![w].pc = AfterReconcile(w), ![w].total = 0]
  /\ UNCHANGED <<scen, workers, state, exists, subs, owners, irm, orgRows, crossSite, keys, held, ensure, faults, torn>>

\* The events, the system message and the outbox; then the message is acked.
Publish(w) ==
  /\ At(w, "publish")
  /\ Ack(w)
  /\ UNCHANGED <<scen, workers, room, keys, held, ensure, faults, drift, torn>>

-----------------------------------------------------------------------------
(* room-service ensureRoomKey, a server-to-server RPC.                     *)

EnsureGet ==
  /\ ensure = "unsent"
  /\ exists
  /\ ensure' = IF key = NoKey THEN "absent" ELSE "done"
  /\ UNCHANGED <<scen, workers, state, job, room, keys, held, faults, drift, torn>>

EnsureSet ==
  /\ ensure = "absent"
  /\ Set
  /\ ensure' = "done"
  /\ UNCHANGED <<scen, workers, state, job, room, held, faults, drift, torn>>

-----------------------------------------------------------------------------

Step(w) ==
  \/ CreateRoom(w) \/ ExistingRoomKey(w) \/ ExistingRoomSet(w) \/ CreateSubs(w)
  \/ CreateRows(w) \/ CreateCrossSite(w)
  \/ LoadAddMemberInputs(w) \/ KeyPairOrHeal(w) \/ Heal(w) \/ AddSubs(w) \/ Backfill(w)
  \/ AddRows(w) \/ BulkFails(w) \/ ApplyMemberCountDelta(w) \/ SubscriptionAdded(w)
  \/ RemoveMember(w) \/ GetUserWithMembership(w) \/ DeleteRoomMember(w) \/ RemoveRole(w)
  \/ DeleteSubscription(w) \/ GetOrgMembers(w) \/ DeleteOrgRow(w)
  \/ GetSubscriptionAccounts(w) \/ CommitRotation(w) \/ ArchiveDemoted(w) \/ FanOutKey(w)
  \/ ReconcileCount(w) \/ ReconcileWrite(w) \/ Publish(w)

Quiet ==
  /\ \A i \in DOMAIN state : state[i] = "done"
  /\ ensure = "done"

\* Every request is settled: the room rests.
Rest == Quiet /\ UNCHANGED vars

Next ==
  \/ \E i \in DOMAIN state : Submit(i)
  \/ \E w \in Workers, i \in DOMAIN state : Deliver(w, i)
  \/ \E w \in Workers : Step(w)
  \/ \E w \in Workers : Fail(w)
  \/ EnsureGet
  \/ EnsureSet
  \/ Rest

Spec == Init /\ [][Next]_vars

-----------------------------------------------------------------------------
(* Properties.                                                             *)

\* Every piece of state keeps its type: counters, keys and the jobs' locals.
TypeOK ==
  /\ state \in [DOMAIN scen.reqs -> {"unsent", "queued", "running", "retry", "done"}]
  /\ \A w \in Workers :
       /\ job[w].new \subseteq Accounts /\ job[w].rows \subseteq Accounts
       /\ job[w].pair \in Pairs \cup {NoKey}
       /\ job[w] # Idle => state[job[w].m] = "running"
  /\ subs \subseteq Accounts /\ owners \subseteq subs
  /\ irm \subseteq Accounts /\ orgRows \subseteq Orgs
  /\ count \in Nat /\ key \in Pairs \cup {NoKey}
  /\ archiving \in [Workers -> Pairs \cup {NoKey}]
  /\ retired \subseteq Pairs /\ held \in [Accounts -> SUBSET Pairs]

Ledger == INSTANCE KeyLedger WITH ledger <- issued, Secrets <- Nat

\* However removals, heals and redeliveries of the same room race,
\* rotateAndFanOut and keyPairOrHeal only ever send pairs the store committed,
\* and the bytes of a version never change: the room key implements KeyLedger.
KeysAreLedger == Ledger!Spec

\* The version stamped on a message finds its bytes: every key somebody holds
\* can be had from GetByVersion, with the same bytes, also between the commit of a
\* rotation and its archive write, unless this best-effort write failed or the
\* next rotation is committed before it.
KeysRetrievable ==
  \A a \in Accounts : \A p \in held[a] :
    p.ver \in dropped \/ GetByVersion(p.ver) = {p}

\* Between requests, no call of the room still waiting for its retry.
AtRest == \A i \in DOMAIN state : state[i] \notin {"running", "retry"}

\* The two sources of membership agree once the room tracks rows: whoever is
\* subscribed has a row or an organisation in the room, and conversely, and an
\* owner has a row ("org members can't be owners"), even
\* when a handler failed half-way and was run again after later requests.  (Not
\* when the rows of a backfill were written half-way, nor when the creation of
\* the room is redelivered late: without organisations, after its first one came;
\* with some, after an addition to a room that still had no rows.)
RosterAgrees ==
  workers = 1 /\ AtRest /\ ~torn /\ Tracking =>
    subs = irm \cup MembersOf(orgRows) /\ owners \subseteq irm

\* The key follows the membership.  Whoever is not a member was not sent the
\* current key: a removal that fails after the subscription is gone still rotates
\* when it is run again.  And without failed calls every member of a room created
\* with a key holds the current one: additions carry it, rotations reach the
\* survivors.  (Members of a room whose key is minted later ask for it.)
KeyFollowsMembership ==
  workers = 1 /\ AtRest /\ key # NoKey =>
    /\ \A a \in Accounts \ subs : key \notin held[a]
    /\ faults = 0 /\ (scen.room.exists => scen.room.key # NoKey) =>
         \A a \in subs : key \in held[a]

\* The counter of the room is exact as long as no call failed since the last
\* recount, and every removal recounts.
CountExact ==
  workers = 1 /\ AtRest /\ ~drift => count = Cardinality(subs)

\* A worker about to announce a room to members of another site finds it marked
\* cross-site, whatever ran in between and however often it was redelivered:
\* "cross-site marking must land BEFORE the added fan-out".
AnnouncedAsCrossSite ==
  \A w \in Workers : At(w, "told") /\ job[w].new \cap Remote # {} => crossSite
=============================================================================
