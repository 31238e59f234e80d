----------------------------- MODULE RoomSerial ------------------------------
(***************************************************************************)
(* The invariants of RoomMembers from which its properties are proved.     *)
(*                                                                         *)
(* Base: which handler a goroutine can be in, and that all but a creation  *)
(* need the room.  Serial, for one worker: for every subscriber without a  *)
(* row the open request that settles it, and for every handler what it     *)
(* has done so far.                                                        *)
(***************************************************************************)
EXTENDS RoomMembers

(* The steps of the three handlers, as far as they do not share them. *)
CreateSteps == {"create", "createKey", "createSet", "createSubs", "createRows", "cross"}
AddSteps == {"add", "addKey", "addHeal", "addSubs", "addList", "addRows", "addCount"}
RemoveSteps == {"remove", "removeOrg", "rmLoad", "rmRow", "rmRole", "rmSub", "orgLoad",
                "orgSubs", "orgRow", "survivors", "rotate", "fanOut"}
SharedSteps == {"idle", "count", "recount", "told", "publish"}
Places == {"unsent", "queued", "running", "retry", "done"}

Steps == SharedSteps \cup CreateSteps \cup AddSteps \cup RemoveSteps

(* The sizes a room can have, and 0 before it is counted. *)
Counts == {0} \cup {Cardinality(s) : s \in SUBSET Accounts}

JobType == [m : Nat, pc : Steps, new : SUBSET Accounts, rows : SUBSET Accounts,
            flag : BOOLEAN, pair : Pairs \cup {NoKey}, total : Counts]

Typed ==
  /\ scen \in Scenarios
  /\ state \in [DOMAIN scen.reqs -> Places]
  /\ job \in [Workers -> JobType]
  /\ subs \subseteq Accounts
  /\ key \in Pairs \cup {NoKey}
  /\ minted \in Nat

(* Only a creation is accepted before there is a room. *)
RoomFirst(reqs, st, ex) ==
  \A i \in DOMAIN reqs :
    st[i] \in {"queued", "running", "retry"} /\ reqs[i].op # "create" => ex

(* The steps from which the job j goes on to announce members it added. *)
Adding(j, reqs) ==
  \/ j.pc \in {"addList", "addKey", "addHeal", "addSubs", "addRows", "addCount", "told"}
  \/ j.pc \in {"count", "recount"} /\ reqs[j.m].op = "add"

(* A job is in the handler of its request; past its start there is a room; and
   when it adds members of another site, the room is marked. *)
Belongs(j, reqs, ex, cross) ==
  /\ j.pc = "idle" => j = Idle
  /\ j.pc # "idle" => j.m \in DOMAIN reqs
  /\ j.pc \in CreateSteps => reqs[j.m].op = "create"
  /\ j.pc \in AddSteps => reqs[j.m].op = "add"
  /\ j.pc \in RemoveSteps => reqs[j.m].op \in {"remove", "removeOrg"}
  /\ j.pc \notin {"idle", "create"} => ex
  /\ Adding(j, reqs) /\ j.new \cap Remote # {} => cross

Base ==
  /\ Typed
  /\ RoomFirst(scen.reqs, state, exists)
  /\ \A w \in Workers : Belongs(job[w], scen.reqs, exists, crossSite)

-----------------------------------------------------------------------------
(* The handler of request i has begun and is to run on, or again. *)
Open(i) == state[i] \in {"running", "retry"}

(* In the room by the rows. *)
Covered == irm \cup MembersOf(orgRows)

(* The accounts a request names, one by one or by their organisation. *)
Named(r) == r.users \cup MembersOf(r.orgs)

(* Once r is handled, a is no subscriber without a row, or no owner without one. *)
Settles(r, a) ==
  \/ r.op = "remove" /\ a \in r.users
  \/ r.op = "add" /\ a \in Named(r)
  \/ r.op = "create" /\ r.orgs # {} /\ a \in {r.by} \cup Named(r)

Demotes(r, a) ==
  \/ r.op = "remove" /\ a \in r.users
  \/ r.op = "create" /\ r.orgs # {} /\ a = r.by

(* A row, and the owner role, go with a subscription. *)
RowsSubscribed == irm \subseteq subs /\ owners \subseteq subs

(* An organisation of somebody without a subscription is about to leave. *)
OrgsSubscribed ==
  \A a \in Accounts \ subs : \A o \in orgRows \cap OrgOf[a] :
    \E i \in DOMAIN state : Open(i) /\ scen.reqs[i].op = "removeOrg" /\ o \in scen.reqs[i].orgs

(* A subscriber, and an owner, without a row is settled by an open request. *)
SubscribersCovered ==
  ~torn /\ Tracking =>
    \A a \in subs \ Covered : \E i \in DOMAIN state : Open(i) /\ Settles(scen.reqs[i], a)

OwnersCovered ==
  ~torn /\ Tracking =>
    \A a \in owners \ irm : \E i \in DOMAIN state : Open(i) /\ Demotes(scen.reqs[i], a)

(* A room created here has no owner but the one who made it. *)
FounderOwns == \A i \in DOMAIN state : scen.reqs[i].op = "create" => owners \subseteq {scen.reqs[i].by}

(* What the subscriptions, the rows and the open requests have to do with each other. *)
Roster == RowsSubscribed /\ OrgsSubscribed /\ SubscribersCovered /\ OwnersCovered /\ FounderOwns

(* The members who leave with the organisations of r. *)
Gone(r) == MembersOf(r.orgs) \ (irm \cup MembersOf(orgRows \ r.orgs))

(* The steps all the handlers end with. *)
Late == {"told", "count", "recount", "publish"}

(* What the handler of a creation has done. *)
Creating(w) ==
  /\ At(w, "createRows") =>
       Req(w).orgs # {} /\ job[w].new = {Req(w).by} \cup Named(Req(w)) /\ job[w].new \subseteq subs
  /\ job[w].pc \in Late \cup {"cross"} /\ Req(w).op = "create" =>
       /\ job[w].new \subseteq subs
       /\ Req(w).orgs # {} => {Req(w).by} \cup Req(w).users \subseteq irm /\ Req(w).orgs \subseteq orgRows

(* The rows an addition writes besides the backfill. *)
RowsNeeded(r) == IF r.orgs # {} \/ Tracking THEN r.users \ irm ELSE {}

(* What the handler of an addition has read and done. *)
Loaded(w) ==
  /\ job[w].flag <=> Req(w).orgs # {} /\ ~Tracking
  /\ job[w].new \subseteq Named(Req(w)) /\ owners \cap job[w].new = {}

(* Those it found without a subscription, and without a row, still are; it has
   subscribed them; it has listed the rows of a backfill. *)
Split(w) == Loaded(w) /\ job[w].new = Named(Req(w)) \ subs /\ job[w].rows = RowsNeeded(Req(w))

Subscribed(w) == Loaded(w) /\ Named(Req(w)) \subseteq subs /\ job[w].rows = RowsNeeded(Req(w))

Listed(w) ==
  /\ Loaded(w) /\ Named(Req(w)) \subseteq subs
  /\ job[w].rows \subseteq subs
  /\ Req(w).orgs = {} /\ ~Tracking => job[w].rows = {}
  /\ Req(w).orgs # {} \/ Tracking => Req(w).users \subseteq irm \cup job[w].rows
  /\ job[w].flag => subs \subseteq job[w].new \cup job[w].rows

(* The addition, step by step; once its rows are in, they cover whoever it names. *)
Extending(w) ==
  /\ job[w].pc \in {"addKey", "addHeal", "addSubs"} => Split(w)
  /\ At(w, "addList") => Subscribed(w)
  /\ At(w, "addRows") => Listed(w)
  /\ job[w].pc \in Late \cup {"addCount"} /\ Req(w).op = "add" =>
       job[w].new \subseteq subs /\ (Tracking => Named(Req(w)) \subseteq Covered)

(* What the handler of a removal has read and done. *)
Removing(w) ==
  /\ job[w].pc \in {"remove", "rmLoad", "rmRow", "rmRole", "rmSub"} => Req(w).op = "remove"
  /\ job[w].pc \in {"removeOrg", "orgLoad", "orgSubs", "orgRow"} => Req(w).op = "removeOrg"
  /\ At(w, "rmRow") =>
       /\ job[w].new = Req(w).users \ MembersOf(orgRows)
       /\ job[w].flag <=> Req(w).users \cap owners # {}
  /\ At(w, "rmRole") => Req(w).users \subseteq MembersOf(orgRows)
  /\ At(w, "rmSub") => job[w].new = Req(w).users /\ Req(w).users \cap Covered = {}
  /\ At(w, "orgSubs") => job[w].new = Gone(Req(w))
  /\ At(w, "orgRow") => Gone(Req(w)) \cap subs = {}
  /\ job[w].pc \in Late \cup {"survivors", "rotate", "fanOut"} =>
       /\ Req(w).op = "remove" => Req(w).users \cap subs = {}
       /\ Req(w).op = "removeOrg" => Req(w).orgs \cap orgRows = {}
  /\ job[w].pc \in {"rotate", "fanOut"} => job[w].rows = subs

(* One handler runs at a time. *)
Solo ==
  /\ \A v, w \in Workers : job[v].pc # "idle" /\ job[w].pc # "idle" => v = w
  /\ \A w \in Workers : job[w].pc # "idle" => state[job[w].m] = "running"
  /\ \A i \in DOMAIN state : state[i] = "running" => \E w \in Workers : job[w].pc # "idle" /\ job[w].m = i

(* Every handler that runs has done what its step says. *)
Doing == \A w \in Workers : job[w].pc # "idle" => Creating(w) /\ Extending(w) /\ Removing(w)

(* The inductive invariant of a room whose requests are handled one at a time. *)
Serial == Solo /\ Roster /\ Doing
-----------------------------------------------------------------------------
(* The goroutine w goes on, and ends. *)
Moved(w) ==
  /\ job'[w].m = job[w].m /\ job'[w].pc # "idle"
  /\ \A v \in Workers : v # w => job'[v] = job[v]

Ended(w) ==
  /\ job'[w] = Idle
  /\ \A v \in Workers : v # w => job'[v] = job[v]

(* Whatever it goes on with. *)
Kept(w) ==
  /\ job'[w].m = job[w].m /\ job'[w].new = job[w].new /\ job'[w].rows = job[w].rows
  /\ job'[w].flag = job[w].flag /\ job'[w].pair = job[w].pair /\ job'[w].total = job[w].total

(* The handler w runs, and all the invariants say of it. *)
Ready(w) ==
  /\ Typed /\ job[w] \in JobType /\ job[w].m \in DOMAIN state /\ Open(job[w].m)
  /\ Req(w) \in Requests /\ Req(w) = scen.reqs[job[w].m]
  /\ Belongs(job[w], scen.reqs, exists, crossSite)
  /\ Solo /\ Roster /\ Creating(w) /\ Extending(w) /\ Removing(w)

(* What Cardinality says of sets of accounts, which are finitely many. *)
AccountsCount ==
  /\ Cardinality({}) = 0
  /\ \A s \in SUBSET Accounts : Cardinality(s) \in Nat /\ (Cardinality(s) = 0 => s = {})
  /\ \A s, t \in SUBSET Accounts :
       s \cap t = {} => Cardinality(s \cup t) = Cardinality(s) + Cardinality(t)
=============================================================================
