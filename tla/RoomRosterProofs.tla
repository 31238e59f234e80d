-------------------------- MODULE RoomRosterProofs ---------------------------
(***************************************************************************)
(* Every step of RoomMembers preserves Serial when one request is handled  *)
(* at a time: the subscriptions and the room_members rows agree, or a      *)
(* request is open that makes them agree.  So is Tally, which says how far *)
(* the counter of the room is behind.                                      *)
(***************************************************************************)
EXTENDS RoomSerial, TLAPS

(* One handler still runs when it takes a step, and none when it ends. *)
LEMMA SoloMoved ==
  ASSUME Base, Solo, NEW w \in Workers, job[w].pc # "idle", Moved(w), UNCHANGED <<scen, state>>
  PROVE  Solo'
<1>1. ASSUME NEW v \in Workers, job'[v].pc # "idle" PROVE v = w
  BY <1>1 DEF Solo, Moved
<1>2. ASSUME NEW v \in Workers, job'[v].pc # "idle" PROVE state'[job'[v].m] = "running"
  BY <1>1, <1>2 DEF Solo, Moved
<1>3. ASSUME NEW i \in DOMAIN state', state'[i] = "running"
      PROVE  \E v \in Workers : job'[v].pc # "idle" /\ job'[v].m = i
  BY <1>3, Zenon DEF Solo, Moved
<1> QED
  BY <1>1, <1>2, <1>3, Zenon DEF Solo

LEMMA SoloEnded ==
  ASSUME Base, Solo, NEW w \in Workers, job[w].pc # "idle", Ended(w), scen' = scen,
         NEW s \in {"done", "retry"}, state' = [state EXCEPT ![job[w].m] = s]
  PROVE  Solo' /\ \A v \in Workers : job'[v].pc = "idle"
<1>1. ASSUME NEW v \in Workers PROVE job'[v].pc = "idle"
  BY DEF Idle, Solo, Ended
<1>2. ASSUME NEW i \in DOMAIN state', state'[i] = "running" PROVE FALSE
  <2>1. DOMAIN state' = DOMAIN state
    BY Zenon
  <2>2. CASE i = job[w].m
    BY <1>2, <2>1, <2>2
  <2>3. CASE i # job[w].m
    <3>1. state[i] = "running"
      BY <1>2, <2>1, <2>3
    <3> QED
      BY <2>1, <2>3, <3>1, Zenon DEF Solo
  <2> QED
    BY <2>2, <2>3
<1> QED
  BY <1>1, <1>2, Zenon DEF Solo
-----------------------------------------------------------------------------
(* The goroutine that takes a step goes on, and what it keeps. *)
LEMMA MovedTo ==
  ASSUME job \in [Workers -> JobType], NEW w \in Workers, NEW p, p # "idle", Goto(w, p)
  PROVE  Moved(w) /\ Kept(w) /\ job'[w].pc = p
BY DEF Goto, JobType, Moved, Kept

(* An acknowledgement, or a refusal, ends the handler. *)
LEMMA EndedNow ==
  ASSUME job \in [Workers -> JobType], NEW w \in Workers, Ack(w) \/ Nak(w)
  PROVE  Ended(w) /\ \E s \in {"done", "retry"} : state' = [state EXCEPT ![job[w].m] = s]
<1>1. Ended(w)
  BY DEF Ack, Nak, Ended
<1> QED
  BY <1>1, Zenon DEF Ack, Nak
-----------------------------------------------------------------------------
(* The requests that are open stay open. *)
StayOpen == DOMAIN state' = DOMAIN state /\ \A i \in DOMAIN state : Open(i) => Open(i)'

(* The variables Roster is about, besides the requests. *)
RosterVars == <<scen, subs, owners, irm, orgRows, torn>>

(* A step that leaves the membership alone. *)
LEMMA RosterSame ==
  ASSUME Roster, UNCHANGED RosterVars, StayOpen
  PROVE  Roster'
<1>1. UNCHANGED <<scen, subs, owners, irm, orgRows, torn>> /\ Tracking' = Tracking /\ Covered' = Covered
  BY DEF RosterVars, Tracking, Covered
<1>2. RowsSubscribed' /\ FounderOwns'
  BY <1>1, Zenon DEF Roster, RowsSubscribed, FounderOwns, StayOpen
<1>3. OrgsSubscribed'
  BY <1>1, Zenon DEF Roster, OrgsSubscribed, StayOpen
<1>4. SubscribersCovered'
  BY <1>1, Zenon DEF Roster, SubscribersCovered, StayOpen
<1>5. OwnersCovered'
  BY <1>1, Zenon DEF Roster, OwnersCovered, StayOpen
<1> QED
  BY <1>2, <1>3, <1>4, <1>5 DEF Roster

(* The request n is done, and owes nothing. *)
LEMMA RosterClosed ==
  ASSUME Roster, UNCHANGED <<scen, subs, irm, orgRows, torn>>, NEW n \in DOMAIN state,
         state' = [state EXCEPT ![n] = "done"], owners' \subseteq owners,
         Tracking => \A a \in subs \ Covered : ~Settles(scen.reqs[n], a),
         Tracking => \A a \in owners' \ irm : ~Demotes(scen.reqs[n], a),
         scen.reqs[n].op = "removeOrg" => scen.reqs[n].orgs \cap orgRows = {}
  PROVE  Roster'
<1>1. Tracking' = Tracking /\ Covered' = Covered /\ DOMAIN state' = DOMAIN state
  BY DEF Tracking, Covered
<1>2. \A i \in DOMAIN state : i # n /\ Open(i) => Open(i)'
  BY DEF Open
<1>3. RowsSubscribed' /\ FounderOwns'
  BY <1>1 DEF Roster, RowsSubscribed, FounderOwns
<1>4. OrgsSubscribed'
  BY <1>1, <1>2 DEF Roster, OrgsSubscribed
<1>5. SubscribersCovered'
  BY <1>1, <1>2, Zenon DEF Roster, SubscribersCovered
<1>6. OwnersCovered'
  BY <1>1, <1>2 DEF Roster, OwnersCovered
<1> QED
  BY <1>3, <1>4, <1>5, <1>6 DEF Roster
-----------------------------------------------------------------------------
(* The creation n writes some of its subscriptions. *)
LEMMA RosterCreates ==
  ASSUME Roster, Typed, NEW n \in DOMAIN state, Open(n), StayOpen, NEW some,
         scen.reqs[n].op = "create", some \subseteq {scen.reqs[n].by} \cup Named(scen.reqs[n]),
         UNCHANGED <<scen, irm, orgRows>>,
         subs' = subs \cup some, owners' = owners \cup ((some \cap {scen.reqs[n].by}) \ subs),
         torn' = (torn \/ (scen.reqs[n].orgs = {} /\ Tracking))
  PROVE  Roster'
<1> DEFINE r == scen.reqs[n]
<1>1. Tracking' = Tracking /\ Covered' = Covered /\ DOMAIN state' = DOMAIN state
  BY DEF Tracking, Covered, StayOpen
<1>2. n \in DOMAIN state' /\ Open(n)'
  BY DEF StayOpen
<1>3. RowsSubscribed'
  BY DEF Roster, RowsSubscribed
<1>4. FounderOwns'
  <2>1. \A i \in DOMAIN state : scen.reqs[i].op = "create" => i = n
    <3>1. DOMAIN state = DOMAIN scen.reqs /\ scen \in Scenarios
      BY DEF Typed
    <3> QED
      BY <3>1, RoomsAssumption
  <2> QED
    BY <1>1, <2>1, Zenon DEF Roster, FounderOwns
<1>5. OrgsSubscribed'
  BY <1>1, Zenon DEF Roster, OrgsSubscribed, StayOpen
<1>6. SubscribersCovered'
  <2> SUFFICES ASSUME ~torn', Tracking, NEW a \in subs' \ Covered
               PROVE  \E i \in DOMAIN state' : Open(i)' /\ Settles(scen.reqs[i], a)
    BY <1>1, Zenon DEF SubscribersCovered
  <2>1. CASE a \in subs
    BY <2>1, Zenon DEF Roster, SubscribersCovered, StayOpen
  <2>2. CASE a \in some
    <3>1. Settles(r, a)
      BY <2>2, Zenon DEF Settles
    <3> QED
      BY <1>2, <3>1
  <2> QED
    BY <2>1, <2>2
<1>7. OwnersCovered'
  <2> SUFFICES ASSUME ~torn', Tracking, NEW a \in owners' \ irm
               PROVE  \E i \in DOMAIN state' : Open(i)' /\ Demotes(scen.reqs[i], a)
    BY <1>1, Zenon DEF OwnersCovered
  <2>1. CASE a \in owners
    BY <2>1, Zenon DEF Roster, OwnersCovered, StayOpen
  <2>2. CASE a = r.by
    <3>1. Demotes(r, a)
      BY <2>2, Zenon DEF Demotes
    <3> QED
      BY <1>2, <3>1, Zenon
  <2> QED
    BY <2>1, <2>2, Zenon
<1> QED
  BY <1>3, <1>4, <1>5, <1>6, <1>7 DEF Roster

(* The organisations and rows of an open request are written, for subscribers. *)
LEMMA RosterTracks ==
  ASSUME Roster, NEW n \in DOMAIN state, Open(n), StayOpen, NEW some, NEW orgs,
         UNCHANGED <<scen, subs, owners>>,
         irm' = irm \cup some, orgRows' = orgRows \cup orgs, torn => torn',
         some \subseteq subs, MembersOf(orgs) \subseteq subs,
         ~torn' /\ ~Tracking /\ Tracking' =>
           /\ \A a \in subs : a \in irm' \/ Settles(scen.reqs[n], a)
           /\ \A a \in owners : a \in irm' \/ Demotes(scen.reqs[n], a)
  PROVE  Roster'
<1>1. Covered \subseteq Covered' /\ DOMAIN state' = DOMAIN state
  BY DEF Covered, StayOpen, MembersOf
<1>2. n \in DOMAIN state' /\ Open(n)'
  BY DEF StayOpen
<1>3. RowsSubscribed' /\ FounderOwns'
  BY <1>1 DEF Roster, RowsSubscribed, FounderOwns
<1>4. OrgsSubscribed'
  <2> SUFFICES ASSUME NEW a \in Accounts \ subs, NEW o \in (orgRows \cup orgs) \cap OrgOf[a]
               PROVE  \E i \in DOMAIN state' : Open(i)' /\ scen.reqs[i].op = "removeOrg" /\ o \in scen.reqs[i].orgs
    BY Zenon DEF OrgsSubscribed
  <2>1. o \in orgRows
    BY DEF MembersOf
  <2> QED
    BY <2>1 DEF Roster, OrgsSubscribed, StayOpen
<1>5. SubscribersCovered'
  <2> SUFFICES ASSUME ~torn', Tracking', NEW a \in subs \ Covered'
               PROVE  \E i \in DOMAIN state' : Open(i)' /\ Settles(scen.reqs[i], a)
    BY Zenon DEF SubscribersCovered
  <2>1. CASE Tracking
    BY <1>1, <2>1, Zenon DEF Roster, SubscribersCovered, StayOpen
  <2>2. CASE ~Tracking
    <3>1. Settles(scen.reqs[n], a)
      BY <2>2 DEF Covered
    <3> QED
      BY <1>2, <3>1
  <2> QED
    BY <2>1, <2>2, Zenon
<1>6. OwnersCovered'
  <2> SUFFICES ASSUME ~torn', Tracking', NEW a \in owners \ irm'
               PROVE  \E i \in DOMAIN state' : Open(i)' /\ Demotes(scen.reqs[i], a)
    BY Zenon DEF OwnersCovered
  <2>1. CASE Tracking
    BY <2>1 DEF Roster, OwnersCovered, StayOpen
  <2>2. CASE ~Tracking
    BY <1>2, <2>2
  <2> QED
    BY <2>1, <2>2, Zenon
<1> QED
  BY <1>3, <1>4, <1>5, <1>6 DEF Roster

(* The addition n writes some of its subscriptions. *)
LEMMA RosterAdds ==
  ASSUME Roster, NEW n \in DOMAIN state, Open(n), StayOpen, NEW some,
         scen.reqs[n].op = "add", some \subseteq Named(scen.reqs[n]),
         UNCHANGED <<scen, owners, irm, orgRows, torn>>, subs' = subs \cup some
  PROVE  Roster'
<1>1. Tracking' = Tracking /\ Covered' = Covered /\ DOMAIN state' = DOMAIN state
  BY DEF Tracking, Covered, StayOpen
<1>2. n \in DOMAIN state' /\ Open(n)'
  BY DEF StayOpen
<1>3. RowsSubscribed' /\ FounderOwns'
  BY <1>1 DEF Roster, RowsSubscribed, FounderOwns
<1>4. OrgsSubscribed'
  BY <1>1 DEF Roster, OrgsSubscribed, StayOpen
<1>5. SubscribersCovered'
  <2> SUFFICES ASSUME ~torn, Tracking, NEW a \in subs' \ Covered
               PROVE  \E i \in DOMAIN state' : Open(i)' /\ Settles(scen.reqs[i], a)
    BY <1>1, Zenon DEF SubscribersCovered
  <2>1. CASE a \in subs
    BY <2>1 DEF Roster, SubscribersCovered, StayOpen
  <2>2. CASE a \in some
    BY <1>2, <2>2 DEF Settles
  <2> QED
    BY <2>1, <2>2
<1>6. OwnersCovered'
  BY <1>1, Zenon DEF Roster, OwnersCovered, StayOpen
<1> QED
  BY <1>3, <1>4, <1>5, <1>6 DEF Roster

(* The removal n takes the row of its account, and is done where the account
   stays through an organisation and is no owner. *)
LEMMA RosterLosesRow ==
  ASSUME Roster, NEW n \in DOMAIN state, Open(n), scen.reqs[n].op = "remove",
         DOMAIN state' = DOMAIN state, \A i \in DOMAIN state : i # n /\ Open(i) => Open(i)',
         UNCHANGED <<scen, subs, owners, orgRows, torn>>, irm' = irm \ scen.reqs[n].users,
         \/ Open(n)'
         \/ scen.reqs[n].users \subseteq MembersOf(orgRows) /\ scen.reqs[n].users \cap owners = {}
  PROVE  Roster'
<1> DEFINE us == scen.reqs[n].users
<1>1. Tracking' => Tracking
  BY DEF Tracking
<1>2. RowsSubscribed' /\ FounderOwns'
  BY Zenon DEF Roster, RowsSubscribed, FounderOwns
<1>3. OrgsSubscribed'
  BY Zenon DEF Roster, OrgsSubscribed
<1>4. SubscribersCovered'
  <2> SUFFICES ASSUME ~torn, Tracking, NEW a \in subs \ Covered'
               PROVE  \E i \in DOMAIN state : Open(i)' /\ Settles(scen.reqs[i], a)
    BY <1>1, Zenon DEF SubscribersCovered
  <2>1. CASE a \in us
    <3>1. Open(n)'
      BY <2>1 DEF Covered
    <3> QED
      BY <2>1, <3>1, Zenon DEF Settles
  <2>2. CASE a \notin us
    <3>1. a \in subs \ Covered
      BY <2>2 DEF Covered
    <3>2. PICK i \in DOMAIN state : Open(i) /\ Settles(scen.reqs[i], a)
      BY <3>1, Zenon DEF Roster, SubscribersCovered
    <3>3. i # n
      BY <2>2, <3>2, Zenon DEF Settles
    <3> QED
      BY <3>2, <3>3, Zenon
  <2> QED
    BY <2>1, <2>2, Zenon
<1>5. OwnersCovered'
  <2> SUFFICES ASSUME ~torn, Tracking, NEW a \in owners \ irm'
               PROVE  \E i \in DOMAIN state : Open(i)' /\ Demotes(scen.reqs[i], a)
    BY <1>1, Zenon DEF OwnersCovered
  <2>1. CASE a \in us
    <3>1. Open(n)'
      BY <2>1
    <3> QED
      BY <2>1, <3>1, Zenon DEF Demotes
  <2>2. CASE a \notin us
    <3>1. PICK i \in DOMAIN state : Open(i) /\ Demotes(scen.reqs[i], a)
      BY <2>2, Zenon DEF Roster, OwnersCovered
    <3>2. i # n
      BY <2>2, <3>1, Zenon DEF Demotes
    <3> QED
      BY <3>1, <3>2, Zenon
  <2> QED
    BY <2>1, <2>2, Zenon
<1> QED
  BY <1>2, <1>3, <1>4, <1>5, Zenon DEF Roster

(* Subscriptions of accounts without a row go; the organisations they are in
   are about to. *)
LEMMA RosterLosesSubs ==
  ASSUME Roster, NEW n \in DOMAIN state, Open(n), StayOpen, NEW out,
         UNCHANGED <<scen, irm, orgRows, torn>>,
         subs' = subs \ out, owners' = owners \ out, out \cap irm = {},
         \A a \in out \cap Accounts : \A o \in orgRows \cap OrgOf[a] :
           scen.reqs[n].op = "removeOrg" /\ o \in scen.reqs[n].orgs
  PROVE  Roster'
<1>1. Tracking' = Tracking /\ Covered' = Covered /\ DOMAIN state' = DOMAIN state
  BY DEF Tracking, Covered, StayOpen
<1>2. n \in DOMAIN state' /\ Open(n)'
  BY DEF StayOpen
<1>3. RowsSubscribed' /\ FounderOwns'
  BY <1>1 DEF Roster, RowsSubscribed, FounderOwns
<1>4. OrgsSubscribed'
  <2> SUFFICES ASSUME NEW a \in Accounts \ subs', NEW o \in orgRows \cap OrgOf[a]
               PROVE  \E i \in DOMAIN state' : Open(i)' /\ scen.reqs[i].op = "removeOrg" /\ o \in scen.reqs[i].orgs
    BY Zenon DEF OrgsSubscribed
  <2>1. CASE a \in out
    BY <1>2, <2>1
  <2>2. CASE a \notin out
    BY <2>2, Zenon DEF Roster, OrgsSubscribed, StayOpen
  <2> QED
    BY <2>1, <2>2, Zenon
<1>5. SubscribersCovered'
  BY <1>1, Zenon DEF Roster, SubscribersCovered, StayOpen
<1>6. OwnersCovered'
  BY <1>1, Zenon DEF Roster, OwnersCovered, StayOpen
<1> QED
  BY <1>3, <1>4, <1>5, <1>6 DEF Roster

(* Organisations go whose members are gone or in for another reason. *)
LEMMA RosterLosesOrgs ==
  ASSUME Roster, StayOpen, NEW r, Gone(r) \cap subs = {}, subs \subseteq Accounts,
         UNCHANGED <<scen, subs, owners, irm, torn>>, orgRows' = orgRows \ r.orgs
  PROVE  Roster'
<1>1. DOMAIN state' = DOMAIN state /\ (Tracking' => Tracking)
  BY DEF Tracking, StayOpen
<1>2. RowsSubscribed' /\ FounderOwns'
  BY <1>1 DEF Roster, RowsSubscribed, FounderOwns
<1>3. OrgsSubscribed'
  BY <1>1, Zenon DEF Roster, OrgsSubscribed, StayOpen
<1>4. subs \ Covered' \subseteq subs \ Covered
  BY DEF Covered, Gone, MembersOf
<1>5. SubscribersCovered'
  BY <1>1, <1>4, Zenon DEF Roster, SubscribersCovered, StayOpen
<1>6. OwnersCovered'
  BY <1>1, Zenon DEF Roster, OwnersCovered, StayOpen
<1> QED
  BY <1>2, <1>3, <1>5, <1>6 DEF Roster
-----------------------------------------------------------------------------
(* What a scenario asks for are requests, and a removal names one account. *)
LEMMA Asked ==
  ASSUME Typed, NEW i \in DOMAIN scen.reqs
  PROVE  /\ scen.reqs[i] \in Requests
         /\ scen.reqs[i].op = "remove" => \E a \in Accounts : scen.reqs[i].users = {a}
BY ScenariosAssumption DEF Typed

(* The invariants, for the goroutine that runs. *)
LEMMA Here ==
  ASSUME Base, Serial, NEW w \in Workers, job[w].pc # "idle"
  PROVE  Ready(w) /\ job \in [Workers -> JobType]
<1>1. Typed /\ job \in [Workers -> JobType] /\ DOMAIN state = DOMAIN scen.reqs
  BY DEF Base, Typed
<1>2. Belongs(job[w], scen.reqs, exists, crossSite)
  BY DEF Base
<1>3. job[w].m \in DOMAIN state
  BY <1>1, <1>2, Zenon DEF Belongs
<1>4. Req(w) \in Requests /\ Req(w) = scen.reqs[job[w].m]
  BY <1>1, <1>3, Asked, Zenon DEF Req
<1>5. Open(job[w].m)
  BY Zenon DEF Serial, Solo, Open
<1>6. Creating(w) /\ Extending(w) /\ Removing(w)
  BY Zenon DEF Serial, Doing
<1> QED
  BY <1>1, <1>2, <1>3, <1>4, <1>5, <1>6, Zenon DEF Serial, Ready

(* A step of a handler that goes on keeps the requests open, and so does one
   that fails; one that is done closes its own only. *)
LEMMA OpenSame == ASSUME state' = state PROVE StayOpen
BY DEF StayOpen, Open

(* A refused request stays open. *)
LEMMA OpenNak ==
  ASSUME NEW w \in Workers, Nak(w), job[w].m \in DOMAIN state
  PROVE  StayOpen
BY DEF StayOpen, Open, Nak

(* What is left to show of a step of w. *)
LEMMA SerialMoved ==
  ASSUME Base, Serial, NEW w \in Workers, job[w].pc # "idle", Moved(w), UNCHANGED <<scen, state>>,
         Roster', Creating(w)', Extending(w)', Removing(w)'
  PROVE  Serial'
<1>1. Solo'
  BY SoloMoved, Zenon DEF Serial
<1>2. ASSUME NEW v \in Workers, job'[v].pc # "idle" PROVE v = w
  BY <1>2 DEF Serial, Solo, Moved
<1>3. Doing'
  BY <1>2, Zenon DEF Doing
<1> QED
  BY <1>1, <1>3 DEF Serial

(* What is left to show of the last step of w. *)
LEMMA SerialEnded ==
  ASSUME Base, Serial, NEW w \in Workers, job[w].pc # "idle", Ack(w) \/ Nak(w), scen' = scen, Roster'
  PROVE  Serial'
<1>1. job \in [Workers -> JobType]
  BY DEF Base, Typed
<1>2. PICK s \in {"done", "retry"} : state' = [state EXCEPT ![job[w].m] = s]
  BY <1>1, EndedNow, Zenon
<1>3. Ended(w)
  BY <1>1, EndedNow, Zenon
<1>4. Solo' /\ \A v \in Workers : job'[v].pc = "idle"
  BY <1>2, <1>3, SoloEnded, Zenon DEF Serial
<1> QED
  BY <1>4, Zenon DEF Serial, Doing

(* The steps of a creation or an addition before it has read any membership. *)
Starting == {"create", "createKey", "createSet", "createSubs", "add"}

(* There is nothing to show of them. *)
LEMMA NothingYet ==
  ASSUME NEW w \in Workers, job'[w].pc \in Starting
  PROVE  Creating(w)' /\ Extending(w)' /\ Removing(w)'
<1>1. Creating(w)'
  BY DEF Starting, Creating, At, Late
<1>2. Extending(w)'
  BY DEF Starting, Extending, At, Late
<1>3. Removing(w)'
  BY Zenon DEF Starting, Removing, At, Late
<1> QED
  BY <1>1, <1>2, <1>3

(* The steps after the last write of membership. *)
Closing == Late \cup {"cross", "addCount", "survivors", "rotate", "fanOut"}

(* Going on from one to the next, a handler has done what it had done. *)
LEMMA NothingMore ==
  ASSUME Base, Serial, NEW w \in Workers, job[w].pc \in Closing, job'[w].pc \in Closing,
         job'[w].m = job[w].m, job'[w].new = job[w].new, UNCHANGED RosterVars,
         job'[w].pc \in {"rotate", "fanOut"} => job'[w].rows = subs
  PROVE  Creating(w)' /\ Extending(w)' /\ Removing(w)'
<1>0. job[w].pc # "idle"
  BY DEF Closing, Late
<1>1. /\ Belongs(job[w], scen.reqs, exists, crossSite) /\ Creating(w) /\ Extending(w) /\ Removing(w)
      /\ Req(w) = scen.reqs[job[w].m]
  BY <1>0, Here, Zenon DEF Ready
<1>2. UNCHANGED <<scen, subs, owners, irm, orgRows, torn>> /\ Req(w)' = Req(w)
  BY Zenon DEF RosterVars, Req
<1>3. Tracking' = Tracking /\ Covered' = Covered
  BY <1>2, Zenon DEF Tracking, Covered
<1>4. /\ Req(w).op = "create" => job[w].pc \in Late \cup {"cross"}
      /\ Req(w).op = "add" => job[w].pc \in Late \cup {"addCount"}
      /\ Req(w).op \in {"remove", "removeOrg"} => job[w].pc \in Late \cup {"survivors", "rotate", "fanOut"}
  BY <1>1, Zenon DEF Belongs, CreateSteps, AddSteps, RemoveSteps, Closing, Late
<1>5. Creating(w)'
  <2>1. job'[w].pc # "createRows"
    BY Zenon DEF Closing, Late
  <2> QED
    BY <1>1, <1>2, <1>4, <2>1, Zenon DEF Creating, At
<1>6. Extending(w)'
  <2>1. job'[w].pc \notin {"addKey", "addHeal", "addSubs", "addList", "addRows"}
    BY Zenon DEF Closing, Late
  <2> QED
    BY <1>1, <1>2, <1>3, <1>4, <2>1, Zenon DEF Extending, At
<1>7. Removing(w)'
  <2>1. job'[w].pc \notin {"remove", "rmLoad", "rmRow", "rmRole", "rmSub", "removeOrg", "orgLoad", "orgSubs", "orgRow"}
    BY Zenon DEF Closing, Late
  <2> QED
    BY <1>1, <1>2, <1>4, <2>1, Zenon DEF Removing, At
<1> QED
  BY <1>5, <1>6, <1>7

(* What the handlers have done does not change without them. *)
LEMMA JobsSame ==
  ASSUME Doing, UNCHANGED <<scen, job, subs, owners, irm, orgRows>>
  PROVE  Doing'
<1>1. Tracking' = Tracking /\ Covered' = Covered
  BY DEF Tracking, Covered
<1>2. ASSUME NEW w \in Workers, job[w].pc # "idle" PROVE Creating(w)' /\ Extending(w)' /\ Removing(w)'
  <2>1. Creating(w) /\ Extending(w) /\ Removing(w)
    BY <1>2, Zenon DEF Doing
  <2>2. Req(w)' = Req(w) /\ RowsNeeded(Req(w))' = RowsNeeded(Req(w)) /\ Gone(Req(w))' = Gone(Req(w))
    BY <1>1, Zenon DEF Req, RowsNeeded, Gone
  <2>3. Creating(w)'
    BY <2>1, <2>2, Zenon DEF Creating, At
  <2>4. Loaded(w)' <=> Loaded(w)
    BY <1>1, <2>2, Zenon DEF Loaded
  <2>5. (Split(w)' <=> Split(w)) /\ (Subscribed(w)' <=> Subscribed(w))
    BY <2>2, <2>4, Zenon DEF Split, Subscribed
  <2>6. Listed(w)' <=> Listed(w)
    BY <1>1, <2>2, <2>4, Zenon DEF Listed
  <2>7. Extending(w)'
    BY <1>1, <2>1, <2>2, <2>5, <2>6, Zenon DEF Extending, At
  <2>8. Removing(w)'
    BY <1>1, <2>1, <2>2, Zenon DEF Removing, At
  <2> QED
    BY <2>3, <2>7, <2>8
<1> QED
  BY <1>2, Zenon DEF Doing
-----------------------------------------------------------------------------
(* processCreateRoom up to its key. *)
LEMMA CreateKeySerial ==
  ASSUME Base, Serial, NEW w \in Workers, CreateRoom(w) \/ ExistingRoomKey(w) \/ ExistingRoomSet(w)
  PROVE  Serial'
<1>1. job[w].pc # "idle"
  BY Zenon DEF CreateRoom, ExistingRoomKey, ExistingRoomSet, At
<1>2. Ready(w) /\ job \in [Workers -> JobType]
  BY <1>1, Here, Zenon
<1>3. UNCHANGED <<scen, state>> /\ StayOpen
  BY OpenSame, Zenon DEF CreateRoom, ExistingRoomKey, ExistingRoomSet
<1>4. Moved(w) /\ job'[w].pc \in Starting
  <2>1. PICK p \in {"createKey", "createSet", "createSubs"} :
          \/ job' = [job EXCEPT ![w].pc = p]
          \/ \E q : job' = [job EXCEPT ![w].pc = p, ![w].pair = q]
    BY Zenon DEF CreateRoom, ExistingRoomKey, ExistingRoomSet, Goto
  <2> QED
    BY <1>2, <2>1 DEF Ready, JobType, Moved, Starting
<1>5. Creating(w)' /\ Extending(w)' /\ Removing(w)'
  BY <1>4, NothingYet, Zenon
<1>6. UNCHANGED RosterVars
  BY Zenon DEF CreateRoom, ExistingRoomKey, ExistingRoomSet, RosterVars, room
<1>7. Roster'
  BY <1>2, <1>3, <1>6, RosterSame, Zenon DEF Ready
<1> QED
  BY <1>1, <1>3, <1>4, <1>5, <1>7, SerialMoved, Zenon

(* Its subscriptions. *)
LEMMA CreateSubsSerial ==
  ASSUME Base, Serial, NEW w \in Workers, CreateSubs(w)
  PROVE  Serial'
<1>1. job[w].pc # "idle"
  BY Zenon DEF CreateSubs, At
<1>2. Ready(w) /\ job \in [Workers -> JobType]
  BY <1>1, Here, Zenon
<1>3. UNCHANGED <<scen, state>> /\ StayOpen
  BY OpenSame, Zenon DEF CreateSubs
<1>4. Req(w).op = "create"
  BY <1>2, Zenon DEF Ready, CreateSubs,  At, Belongs, CreateSteps
<1> DEFINE n == {Req(w).by} \cup Named(Req(w))
           p == IF Req(w).orgs = {} THEN "count" ELSE "createRows"
<1>5. /\ subs' = subs \cup n /\ owners' = owners \cup ({Req(w).by} \ subs)
      /\ torn' = (torn \/ (Req(w).orgs = {} /\ Tracking)) /\ UNCHANGED <<irm, orgRows>>
      /\ job' = [job EXCEPT ![w].new = n, ![w].pc = p]
  BY Zenon DEF CreateSubs, Named
<1>6. p \in {"count", "createRows"}
  OBVIOUS
<1>7. owners' = owners \cup ((n \cap {Req(w).by}) \ subs)
  BY <1>5
<1>8. p = "count" <=> Req(w).orgs = {}
  OBVIOUS
<1> HIDE DEF p
<1>9. Moved(w) /\ job'[w].pc = p /\ job'[w].new = n /\ Req(w)' = Req(w)
  BY <1>2, <1>3, <1>5, <1>6, Zenon DEF Ready, JobType, Moved, Req
<1>10. Roster'
  BY <1>2, <1>3, <1>4, <1>5, <1>7, RosterCreates, Zenon DEF Ready
<1>11. Creating(w)'
  BY <1>5, <1>6, <1>7, <1>8, <1>9, Zenon DEF Creating, At, Late
<1>12. Extending(w)' /\ Removing(w)'
  BY <1>4, <1>6, <1>9, Zenon DEF Extending, Removing, At, Late
<1> QED
  BY <1>1, <1>3, <1>9, <1>10, <1>11, <1>12, SerialMoved, Zenon

(* Its rows. *)
LEMMA CreateRowsSerial ==
  ASSUME Base, Serial, NEW w \in Workers, CreateRows(w)
  PROVE  Serial'
<1>1. job[w].pc # "idle"
  BY Zenon DEF CreateRows, At
<1>2. Ready(w) /\ job \in [Workers -> JobType]
  BY <1>1, Here, Zenon
<1>3. UNCHANGED <<scen, state>> /\ StayOpen
  BY OpenSame, Zenon DEF CreateRows
<1>4. Req(w).op = "create"
  BY <1>2, Zenon DEF Ready, CreateRows,  At, Belongs, CreateSteps
<1>5. /\ irm' = irm \cup ({Req(w).by} \cup Req(w).users) /\ orgRows' = orgRows \cup Req(w).orgs
      /\ torn' = (torn \/ (~Tracking /\ ~(subs \subseteq job[w].new))) /\ UNCHANGED <<subs, owners>>
  BY Zenon DEF CreateRows
<1>6. Moved(w) /\ job'[w].pc = "count" /\ job'[w].new = job[w].new /\ Req(w)' = Req(w)
  <2>1. Goto(w, "count")
    BY Zenon DEF CreateRows
  <2> QED
    BY <1>2, <1>3, <2>1, MovedTo, Zenon DEF Kept, Req
<1>7. Req(w).orgs # {} /\ job[w].new = {Req(w).by} \cup Named(Req(w)) /\ job[w].new \subseteq subs
  BY <1>2, Zenon DEF Ready, CreateRows, Creating
<1>8. owners \subseteq {Req(w).by}
  BY <1>2, <1>4, Zenon DEF Ready, Roster, FounderOwns
<1>9. Roster'
  <2>1. {Req(w).by} \cup Req(w).users \subseteq subs /\ MembersOf(Req(w).orgs) \subseteq subs
    BY <1>7, Zenon DEF Named
  <2>2. \A a \in {Req(w).by} \cup Named(Req(w)) : Settles(Req(w), a)
    BY <1>4, <1>7, Zenon DEF Settles
  <2>3. \A a \in owners : Demotes(Req(w), a)
    BY <1>4, <1>7, <1>8, Zenon DEF Demotes
  <2>4. ~torn' /\ ~Tracking => \A a \in subs : Settles(Req(w), a)
    BY <1>5, <1>7, <2>2, Zenon
  <2> QED
    BY <1>2, <1>3, <1>5, <2>1, <2>3, <2>4, RosterTracks, ZenonT(60) DEF Ready
<1>10. Creating(w)'
  BY <1>5, <1>6, <1>7, Zenon DEF Creating, At, Late
<1>11. Extending(w)' /\ Removing(w)'
  BY <1>4, <1>6, Zenon DEF Extending, Removing, At, Late
<1> QED
  BY <1>1, <1>3, <1>6, <1>9, <1>10, <1>11, SerialMoved, Zenon

(* Its mark. *)
LEMMA CreateCrossSiteSerial ==
  ASSUME Base, Serial, NEW w \in Workers, CreateCrossSite(w)
  PROVE  Serial'
<1>1. job[w].pc # "idle"
  BY Zenon DEF CreateCrossSite, At
<1>2. Ready(w) /\ job \in [Workers -> JobType]
  BY <1>1, Here, Zenon
<1>3. UNCHANGED <<scen, state>> /\ StayOpen
  BY OpenSame, Zenon DEF CreateCrossSite
<1>4. UNCHANGED RosterVars /\ Goto(w, "told") /\ job[w].pc = "cross"
  BY Zenon DEF CreateCrossSite, RosterVars, At
<1>5. Moved(w) /\ job'[w].pc = "told" /\ job'[w].new = job[w].new /\ job'[w].m = job[w].m
  BY <1>2, <1>4, MovedTo, Zenon DEF Kept
<1>6. Roster'
  BY <1>2, <1>3, <1>4, RosterSame, Zenon DEF Ready
<1>7. Creating(w)' /\ Extending(w)' /\ Removing(w)'
  BY <1>4, <1>5, NothingMore, Zenon DEF Closing, Late
<1> QED
  BY <1>1, <1>3, <1>5, <1>6, <1>7, SerialMoved, Zenon
-----------------------------------------------------------------------------
(* loadAddMemberInputs, which may find nothing to do. *)
LEMMA LoadSerial ==
  ASSUME Base, Serial, NEW w \in Workers, LoadAddMemberInputs(w)
  PROVE  Serial'
<1>0. job[w].pc # "idle"
  BY Zenon DEF LoadAddMemberInputs, At
<1>1. Ready(w) /\ job \in [Workers -> JobType]
  BY <1>0, Here, Zenon
<1>2. Req(w).op = "add"
  BY <1>1, Zenon DEF Ready, LoadAddMemberInputs, At, Belongs, AddSteps
<1>3. UNCHANGED RosterVars /\ scen' = scen
  BY Zenon DEF LoadAddMemberInputs, RosterVars
<1> DEFINE n == Named(Req(w)) \ subs
           o == RowsNeeded(Req(w))
           f == Req(w).orgs # {} /\ ~Tracking
           p == IF n = {} THEN "addList" ELSE "addKey"
<1>4. \/ n = {} /\ o = {} /\ Req(w).orgs = {} /\ Ack(w)
      \/ job' = [job EXCEPT ![w].pc = p, ![w].new = n, ![w].rows = o, ![w].flag = f] /\ state' = state
  BY Zenon DEF LoadAddMemberInputs, Named, RowsNeeded
<1>5. CASE n = {} /\ o = {} /\ Req(w).orgs = {} /\ Ack(w)
  <2>1. state' = [state EXCEPT ![job[w].m] = "done"]
    BY <1>5, Zenon DEF Ack
  <2>2. Tracking => \A a \in subs \ Covered : ~Settles(Req(w), a)
    BY <1>2, <1>5, Zenon DEF Settles, Named, Covered, RowsNeeded, MembersOf
  <2>3. \A a \in owners' \ irm : ~Demotes(Req(w), a)
    BY <1>2 DEF Demotes
  <2>4. UNCHANGED <<scen, subs, irm, orgRows, torn, owners>>
    BY <1>3 DEF RosterVars
  <2>5. Roster'
    BY <1>1, <1>2, <2>1, <2>2, <2>3, <2>4, RosterClosed, Zenon DEF Ready
  <2> QED
    BY <1>0, <1>3, <1>5, <2>5, SerialEnded, Zenon
<1>6. CASE job' = [job EXCEPT ![w].pc = p, ![w].new = n, ![w].rows = o, ![w].flag = f] /\ state' = state
  <2>1. /\ p \in {"addList", "addKey"} /\ (p = "addList" => Named(Req(w)) \subseteq subs)
        /\ n \subseteq Named(Req(w)) /\ n \cap subs = {}
    OBVIOUS
  <2>2. n \cap owners = {}
    BY <1>1, Zenon DEF Ready, Roster, RowsSubscribed
  <2> HIDE DEF p
  <2>3. /\ Moved(w) /\ job'[w].pc = p /\ job'[w].new = n /\ job'[w].rows = o /\ job'[w].flag = f
        /\ Req(w)' = Req(w)
    BY <1>1, <1>3, <1>6, <2>1, Zenon DEF Ready, JobType, Moved, Req
  <2>4. o' = o /\ Tracking' = Tracking /\ UNCHANGED <<subs, owners>>
    BY <1>3, <2>3, Zenon DEF RowsNeeded, Tracking, RosterVars
  <2>5. Loaded(w)'
    BY <2>1, <2>2, <2>3, <2>4, Zenon DEF Loaded
  <2>6. Extending(w)'
    <3>1. p = "addKey" => Split(w)'
      BY <2>3, <2>4, <2>5, Zenon DEF Split
    <3>2. p = "addList" => Subscribed(w)'
      BY <2>1, <2>3, <2>4, <2>5, Zenon DEF Subscribed
    <3> QED
      BY <2>1, <2>3, <3>1, <3>2, Zenon DEF Extending, At, Late
  <2>7. Creating(w)' /\ Removing(w)'
    BY <2>1, <2>3, Zenon DEF Creating, Removing, At, Late
  <2>8. Roster'
    BY <1>1, <1>3, <1>6, RosterSame, OpenSame, Zenon DEF Ready
  <2> QED
    BY <1>0, <1>3, <1>6, <2>3, <2>6, <2>7, <2>8, SerialMoved, ZenonT(60)
<1> QED
  BY <1>4, <1>5, <1>6, Zenon

(* keyPairOrHeal. *)
LEMMA AddKeySerial ==
  ASSUME Base, Serial, NEW w \in Workers, KeyPairOrHeal(w) \/ Heal(w)
  PROVE  Serial'
<1>1. job[w].pc # "idle"
  BY Zenon DEF KeyPairOrHeal, Heal, At
<1>2. Ready(w) /\ job \in [Workers -> JobType]
  BY <1>1, Here, Zenon
<1>3. UNCHANGED <<scen, state>> /\ StayOpen
  BY OpenSame, Zenon DEF KeyPairOrHeal, Heal
<1>4. PICK p \in {"addHeal", "addSubs"} : \E q : job' = [job EXCEPT ![w].pc = p, ![w].pair = q]
  BY Zenon DEF KeyPairOrHeal, Heal
<1>5. /\ Moved(w) /\ job'[w].pc = p /\ job'[w].new = job[w].new /\ job'[w].rows = job[w].rows
      /\ job'[w].flag = job[w].flag /\ Req(w)' = Req(w)
  BY <1>2, <1>3, <1>4 DEF Ready, JobType, Moved, Req
<1>6. UNCHANGED RosterVars /\ job[w].pc \in {"addKey", "addHeal"}
  BY Zenon DEF KeyPairOrHeal, Heal, RosterVars, room, At
<1>7. UNCHANGED <<subs, owners, irm, orgRows>> /\ Tracking' = Tracking
  BY <1>6, Zenon DEF RosterVars, Tracking
<1>8. RowsNeeded(Req(w))' = RowsNeeded(Req(w))
  BY <1>5, <1>7, Zenon DEF RowsNeeded
<1>9. Split(w)
  BY <1>2, <1>6, Zenon DEF Ready, Extending
<1>10. Loaded(w)'
  BY <1>5, <1>7, <1>9, Zenon DEF Loaded, Split
<1>11. Extending(w)'
  <2>1. Split(w)'
    BY <1>5, <1>7, <1>8, <1>9, <1>10, Zenon DEF Split
  <2> QED
    BY <1>4, <1>5, <2>1, Zenon DEF Extending, At, Late
<1>12. Creating(w)' /\ Removing(w)'
  BY <1>4, <1>5 DEF Creating, Removing, At, Late
<1>13. Roster'
  BY <1>2, <1>3, <1>6, RosterSame, Zenon DEF Ready
<1> QED
  BY <1>1, <1>3, <1>5, <1>11, <1>12, <1>13, SerialMoved, Zenon

(* The subscriptions of an addition. *)
LEMMA AddSubsSerial ==
  ASSUME Base, Serial, NEW w \in Workers, AddSubs(w)
  PROVE  Serial'
<1>1. job[w].pc # "idle"
  BY Zenon DEF AddSubs, At
<1>2. Ready(w) /\ job \in [Workers -> JobType]
  BY <1>1, Here, Zenon
<1>3. UNCHANGED <<scen, state>> /\ StayOpen
  BY OpenSame, Zenon DEF AddSubs
<1>4. ~SubscriptionAdded(w) => Req(w).op = "add"
  BY <1>2, Zenon DEF Ready, AddSubs,  At, Belongs, AddSteps
<1>5. subs' = subs \cup job[w].new /\ UNCHANGED <<owners, irm, orgRows, torn>> /\ Goto(w, "addList")
  BY Zenon DEF AddSubs
<1>6. /\ Moved(w) /\ job'[w].pc = "addList" /\ job'[w].new = job[w].new /\ job'[w].rows = job[w].rows
      /\ job'[w].flag = job[w].flag /\ Req(w)' = Req(w)
  BY <1>2, <1>3, <1>5, MovedTo, Zenon DEF Kept, Req
<1>7. Split(w)
  BY <1>2, Zenon DEF Ready, AddSubs, At, Extending
<1>8. Tracking' = Tracking
  BY <1>5, Zenon DEF Tracking
<1>9. RowsNeeded(Req(w))' = RowsNeeded(Req(w))
  BY <1>5, <1>6, <1>8, Zenon DEF RowsNeeded
<1>10. Loaded(w)'
  BY <1>5, <1>6, <1>7, <1>8, Zenon DEF Loaded, Split
<1>11. Extending(w)'
  <2>1. Subscribed(w)'
    <3>1. Named(Req(w)) \subseteq subs'
      BY <1>5, <1>7, Zenon DEF Split
    <3> QED
      BY <1>6, <1>7, <1>9, <1>10, <3>1, Zenon DEF Split, Subscribed
  <2> QED
    BY <1>6, <2>1, Zenon DEF Extending, At, Late
<1>12. Creating(w)' /\ Removing(w)'
  BY <1>5, <1>6, Zenon DEF Creating, Removing, At, Late
<1>13. Roster'
  <2>1. job[w].new \subseteq Named(Req(w)) /\ Req(w).op = "add"
    BY <1>4, <1>7, Zenon DEF AddSubs, SubscriptionAdded, At, Split, Loaded
  <2> QED
    BY <1>2, <1>3, <1>5, <2>1, RosterAdds, Zenon DEF Ready
<1> QED
  BY <1>1, <1>3, <1>6, <1>11, <1>12, <1>13, SerialMoved, Zenon

(* The backfill. *)
LEMMA BackfillSerial ==
  ASSUME Base, Serial, NEW w \in Workers, Backfill(w)
  PROVE  Serial'
<1>1. job[w].pc # "idle"
  BY Zenon DEF Backfill, At
<1>2. Ready(w) /\ job \in [Workers -> JobType]
  BY <1>1, Here, Zenon
<1>3. UNCHANGED <<scen, state>> /\ StayOpen
  BY OpenSame, Zenon DEF Backfill
<1> DEFINE o == IF job[w].flag THEN job[w].rows \cup (subs \ job[w].new) ELSE job[w].rows
<1>4. UNCHANGED RosterVars /\ job' = [job EXCEPT ![w].pc = "addRows", ![w].rows = o]
  BY Zenon DEF Backfill, RosterVars, room
<1>5. Subscribed(w)
  BY <1>2, Zenon DEF Ready, Backfill, At, Extending
<1>6. /\ job[w].flag => subs \subseteq job[w].new \cup o
      /\ ~job[w].flag => o = job[w].rows
      /\ job[w].rows \subseteq o /\ o \subseteq subs \cup job[w].rows
  BY Zenon
<1> HIDE DEF o
<1>7. /\ Moved(w) /\ job'[w].pc = "addRows" /\ job'[w].new = job[w].new /\ job'[w].rows = o
      /\ job'[w].flag = job[w].flag /\ Req(w)' = Req(w)
  BY <1>2, <1>3, <1>4 DEF Ready, JobType, Moved, Req
<1>8. UNCHANGED <<subs, owners, irm, orgRows>> /\ Tracking' = Tracking
  BY <1>4 DEF RosterVars, Tracking
<1>9. Loaded(w)'
  BY <1>5, <1>7, <1>8, Zenon DEF Loaded, Subscribed
<1>10. /\ o \subseteq subs
       /\ Req(w).orgs = {} /\ ~Tracking => o = {}
       /\ Req(w).orgs # {} \/ Tracking => Req(w).users \subseteq irm \cup o
  BY <1>5, <1>6, Zenon DEF RowsNeeded, Loaded, Named, Subscribed
<1>11. Extending(w)'
  <2>1. (Named(Req(w)) \subseteq subs /\ job[w].rows \subseteq subs)'
    BY <1>5, <1>7, <1>8, <1>10, Zenon DEF Subscribed
  <2>2. (Req(w).orgs = {} /\ ~Tracking => job[w].rows = {})'
    BY <1>7, <1>8, <1>10, Zenon
  <2>3. (Req(w).orgs # {} \/ Tracking => Req(w).users \subseteq irm \cup job[w].rows)'
    BY <1>7, <1>8, <1>10, Zenon
  <2>4. (job[w].flag => subs \subseteq job[w].new \cup job[w].rows)'
    BY <1>6, <1>7, <1>8, Zenon
  <2>5. Listed(w)'
    BY <1>9, <2>1, <2>2, <2>3, <2>4, Zenon DEF Listed
  <2> QED
    BY <1>7, <2>5, Zenon DEF Extending, At, Late
<1>12. Creating(w)' /\ Removing(w)'
  BY <1>7, Zenon DEF Creating, Removing, At, Late
<1>13. Roster'
  BY <1>2, <1>3, <1>4, RosterSame, Zenon DEF Ready
<1> QED
  BY <1>1, <1>3, <1>7, <1>11, <1>12, <1>13, SerialMoved, Zenon

(* The rows of an addition. *)
LEMMA AddRowsSerial ==
  ASSUME Base, Serial, NEW w \in Workers, AddRows(w)
  PROVE  Serial'
<1>1. job[w].pc # "idle"
  BY Zenon DEF AddRows, At
<1>2. Ready(w) /\ job \in [Workers -> JobType]
  BY <1>1, Here, Zenon
<1>3. UNCHANGED <<scen, state>> /\ StayOpen
  BY OpenSame, Zenon DEF AddRows
<1>4. ~SubscriptionAdded(w) => Req(w).op = "add"
  BY <1>2, Zenon DEF Ready, AddRows,  At, Belongs, AddSteps
<1>5. /\ irm' = irm \cup job[w].rows /\ orgRows' = orgRows \cup Req(w).orgs
      /\ UNCHANGED <<subs, owners, torn>> /\ Goto(w, "addCount") /\ job[w].pc = "addRows"
  BY Zenon DEF AddRows, At
<1>6. Moved(w) /\ job'[w].pc = "addCount" /\ job'[w].new = job[w].new /\ Req(w)' = Req(w)
  BY <1>2, <1>3, <1>5, MovedTo, Zenon DEF Kept, Req
<1>7. Listed(w)
  BY <1>2, <1>5, Zenon DEF Ready, Extending, At
<1>8. Req(w).op = "add"
  BY <1>4, <1>5, Zenon DEF SubscriptionAdded, At
<1>9. Tracking' => Req(w).orgs # {} \/ Tracking
  BY <1>5, <1>7, Zenon DEF Tracking, Listed
<1>10. Roster'
  <2>1. MembersOf(Req(w).orgs) \subseteq subs
    BY <1>7, Zenon DEF Named, Listed
  <2>2. ASSUME ~Tracking, Tracking' PROVE subs \subseteq job[w].new \cup job[w].rows
    BY <1>7, <1>9, <2>2, Zenon DEF Loaded, Listed
  <2>3. \A a \in job[w].new : Settles(Req(w), a) /\ a \notin owners
    BY <1>7, <1>8, Zenon DEF Loaded, Settles, Listed
  <2>4. owners \subseteq subs
    BY <1>2, Zenon DEF Ready, Roster, RowsSubscribed
  <2>5. ~Tracking /\ Tracking' => \A a \in subs : a \in irm' \/ Settles(Req(w), a)
    BY <1>5, <2>2, <2>3, Zenon
  <2>6. ~Tracking /\ Tracking' => \A a \in owners : a \in irm' \/ Demotes(Req(w), a)
    BY <1>5, <2>2, <2>3, <2>4, Zenon
  <2> QED
    BY <1>2, <1>3, <1>5, <1>7, <2>1, <2>5, <2>6, RosterTracks, Zenon DEF Ready, Listed
<1>11. Extending(w)'
  <2>1. Tracking' => Named(Req(w)) \subseteq Covered'
    BY <1>5, <1>7, <1>9, Zenon DEF Named, Covered, MembersOf, Listed
  <2>2. job[w].new \subseteq subs
    BY <1>7, Zenon DEF Loaded, Listed
  <2> QED
    BY <1>5, <1>6, <2>1, <2>2, Zenon DEF Extending, At, Late
<1>12. Creating(w)' /\ Removing(w)'
  BY <1>6, Zenon DEF Creating, Removing, At, Late
<1> QED
  BY <1>1, <1>3, <1>6, <1>10, <1>11, <1>12, SerialMoved, Zenon

(* The counter and the event of an addition. *)
LEMMA AddedSerial ==
  ASSUME Base, Serial, NEW w \in Workers, ApplyMemberCountDelta(w) \/ SubscriptionAdded(w)
  PROVE  Serial'
<1>1. job[w].pc # "idle"
  BY Zenon DEF ApplyMemberCountDelta, SubscriptionAdded, At
<1>2. Ready(w) /\ job \in [Workers -> JobType]
  BY <1>1, Here, Zenon
<1>3. UNCHANGED <<scen, state>> /\ StayOpen
  BY OpenSame, Zenon DEF ApplyMemberCountDelta, SubscriptionAdded
<1>4. PICK p \in {"count", "told", "publish"} : Goto(w, p)
  BY Zenon DEF ApplyMemberCountDelta, SubscriptionAdded
<1>5. UNCHANGED RosterVars /\ job[w].pc \in {"addCount", "told"}
  BY Zenon DEF ApplyMemberCountDelta, SubscriptionAdded, RosterVars, room, At
<1>6. Moved(w) /\ job'[w].pc = p /\ job'[w].new = job[w].new /\ job'[w].m = job[w].m
  BY <1>2, <1>4, MovedTo, Zenon DEF Kept
<1>7. Roster'
  BY <1>2, <1>3, <1>5, RosterSame, Zenon DEF Ready
<1>8. Creating(w)' /\ Extending(w)' /\ Removing(w)'
  BY <1>4, <1>5, <1>6, NothingMore, Zenon DEF Closing, Late
<1> QED
  BY <1>1, <1>3, <1>6, <1>7, <1>8, SerialMoved, Zenon
-----------------------------------------------------------------------------
(* processRemoveMember reads the key. *)
LEMMA RemoveMemberSerial ==
  ASSUME Base, Serial, NEW w \in Workers, RemoveMember(w)
  PROVE  Serial'
<1>1. job[w].pc # "idle"
  BY Zenon DEF RemoveMember, GetSubscriptionAccounts, CommitRotation, FanOutKey, At
<1>2. Ready(w) /\ job \in [Workers -> JobType]
  BY <1>1, Here, Zenon
<1>3. UNCHANGED <<scen, state>> /\ StayOpen
  BY OpenSame, Zenon DEF RemoveMember, GetSubscriptionAccounts, CommitRotation, FanOutKey
<1> DEFINE p == IF job[w].pc = "remove" THEN "rmLoad" ELSE "orgLoad"
<1>4. job' = [job EXCEPT ![w].pc = p, ![w].pair = key] /\ job[w].pc \in {"remove", "removeOrg"}
  BY DEF RemoveMember
<1>5. (job[w].pc = "remove" /\ p = "rmLoad") \/ (job[w].pc = "removeOrg" /\ p = "orgLoad")
  BY <1>4
<1> HIDE DEF p
<1>6. Moved(w) /\ job'[w].pc = p /\ Req(w)' = Req(w)
  BY <1>2, <1>3, <1>4, <1>5 DEF Ready, JobType, Moved, Req
<1>7. UNCHANGED RosterVars
  BY Zenon DEF RemoveMember, RosterVars, room
<1>8. Roster'
  BY <1>2, <1>3, <1>7, RosterSame, Zenon DEF Ready
<1>9. Removing(w)'
  BY <1>2, <1>5, <1>6, Zenon DEF Ready, Removing, At, Late
<1>10. Creating(w)' /\ Extending(w)'
  BY <1>5, <1>6, Zenon DEF Creating, Extending, At, Late
<1> QED
  BY <1>1, <1>3, <1>6, <1>8, <1>9, <1>10, SerialMoved, Zenon

(* It reads the account it removes. *)
LEMMA RemoveLoadSerial ==
  ASSUME Base, Serial, NEW w \in Workers, GetUserWithMembership(w)
  PROVE  Serial'
<1>1. job[w].pc # "idle"
  BY Zenon DEF GetUserWithMembership, GetSubscriptionAccounts, CommitRotation, FanOutKey, At
<1>2. Ready(w) /\ job \in [Workers -> JobType]
  BY <1>1, Here, Zenon
<1>3. UNCHANGED <<scen, state>> /\ StayOpen
  BY OpenSame, Zenon DEF GetUserWithMembership, GetSubscriptionAccounts, CommitRotation, FanOutKey
<1> DEFINE n == Req(w).users \ MembersOf(orgRows)
           f == Req(w).users \cap owners # {}
<1>4. job' = [job EXCEPT ![w].pc = "rmRow", ![w].flag = f, ![w].new = n] /\ job[w].pc = "rmLoad"
  BY Zenon DEF GetUserWithMembership, At
<1>5. Moved(w) /\ job'[w].pc = "rmRow" /\ job'[w].new = n /\ job'[w].flag = f /\ Req(w)' = Req(w)
  BY <1>2, <1>3, <1>4, Zenon DEF Ready, JobType, Moved, Req
<1>6. UNCHANGED RosterVars
  BY Zenon DEF GetUserWithMembership, RosterVars, room
<1>7. UNCHANGED <<orgRows, owners>> /\ Req(w).op = "remove"
  BY <1>2, <1>4, <1>6, Zenon DEF Ready, RosterVars, Removing
<1>8. Roster'
  BY <1>2, <1>3, <1>6, RosterSame, Zenon DEF Ready
<1>9. Removing(w)'
  BY <1>5, <1>7, Zenon DEF Removing, At, Late
<1>10. Creating(w)' /\ Extending(w)'
  BY <1>5, Zenon DEF Creating, Extending, At, Late
<1> QED
  BY <1>1, <1>3, <1>5, <1>8, <1>9, <1>10, SerialMoved, Zenon

(* It reads the members of the organisation it removes. *)
LEMMA OrgLoadSerial ==
  ASSUME Base, Serial, NEW w \in Workers, GetOrgMembers(w)
  PROVE  Serial'
<1>1. job[w].pc # "idle"
  BY Zenon DEF GetOrgMembers, GetSubscriptionAccounts, CommitRotation, FanOutKey, At
<1>2. Ready(w) /\ job \in [Workers -> JobType]
  BY <1>1, Here, Zenon
<1>3. UNCHANGED <<scen, state>> /\ StayOpen
  BY OpenSame, Zenon DEF GetOrgMembers, GetSubscriptionAccounts, CommitRotation, FanOutKey
<1> DEFINE n == Gone(Req(w))
           p == IF n = {} THEN "orgRow" ELSE "orgSubs"
<1>4. job' = [job EXCEPT ![w].new = n, ![w].pc = p] /\ job[w].pc = "orgLoad"
  BY Zenon DEF GetOrgMembers, At, Gone
<1>5. p \in {"orgRow", "orgSubs"} /\ (p = "orgRow" => n = {})
  OBVIOUS
<1> HIDE DEF p
<1>6. Moved(w) /\ job'[w].pc = p /\ job'[w].new = n /\ Req(w)' = Req(w)
  BY <1>2, <1>3, <1>4, <1>5, Zenon DEF Ready, JobType, Moved, Req
<1>7. UNCHANGED RosterVars
  BY Zenon DEF GetOrgMembers, RosterVars, room
<1>8. Gone(Req(w))' = n /\ Req(w).op = "removeOrg"
  <2>1. UNCHANGED <<irm, orgRows>>
    BY <1>7 DEF RosterVars
  <2>2. Gone(Req(w))' = n
    BY <1>6, <2>1, Zenon DEF Gone
  <2> QED
    BY <1>2, <1>4, <2>2, Zenon DEF Ready, Removing
<1>9. Roster'
  BY <1>2, <1>3, <1>7, RosterSame, Zenon DEF Ready
<1>10. Removing(w)'
  <2>1. p = "orgRow" => Gone(Req(w))' \cap subs' = {}
    BY <1>5, <1>8
  <2> QED
    BY <1>5, <1>6, <1>8, <2>1, Zenon DEF Removing, At, Late
<1>11. Creating(w)' /\ Extending(w)'
  BY <1>5, <1>6, Zenon DEF Creating, Extending, At, Late
<1> QED
  BY <1>1, <1>3, <1>6, <1>9, <1>10, <1>11, SerialMoved, Zenon

(* The subscription of a removed account. *)
LEMMA RemoveSubSerial ==
  ASSUME Base, Serial, NEW w \in Workers, DeleteSubscription(w) /\ At(w, "rmSub")
  PROVE  Serial'
<1>1. job[w].pc # "idle"
  BY Zenon DEF DeleteSubscription, GetSubscriptionAccounts, CommitRotation, FanOutKey, At
<1>2. Ready(w) /\ job \in [Workers -> JobType]
  BY <1>1, Here, Zenon
<1>3. UNCHANGED <<scen, state>> /\ StayOpen
  BY OpenSame, Zenon DEF DeleteSubscription, GetSubscriptionAccounts, CommitRotation, FanOutKey
<1>4. /\ subs' = subs \ job[w].new /\ owners' = owners \ job[w].new /\ UNCHANGED <<irm, orgRows, torn>>
      /\ Goto(w, "count")
  BY Zenon DEF DeleteSubscription
<1>5. Moved(w) /\ job'[w].pc = "count" /\ Req(w)' = Req(w)
  BY <1>2, <1>3, <1>4, MovedTo, Zenon DEF Kept, Req
<1>6. Req(w).op = "remove" /\ job[w].new = Req(w).users /\ Req(w).users \cap Covered = {}
  BY <1>2, Zenon DEF Ready, Removing, At
<1>7. Roster'
  <2>1. job[w].new \cap irm = {}
    BY <1>6, Zenon DEF Covered
  <2>2. \A a \in job[w].new \cap Accounts : orgRows \cap OrgOf[a] = {}
    BY <1>6, Zenon DEF Covered, MembersOf
  <2>3. \A a \in job[w].new \cap Accounts : \A o \in orgRows \cap OrgOf[a] :
          scen.reqs[job[w].m].op = "removeOrg" /\ o \in scen.reqs[job[w].m].orgs
    BY <2>2, Zenon
  <2> QED
    BY <1>2, <1>3, <1>4, <2>1, <2>3, RosterLosesSubs, Zenon DEF Ready
<1>8. Removing(w)'
  <2>1. Req(w).users \cap subs' = {}
    BY <1>4, <1>6, Zenon
  <2> QED
    BY <1>5, <1>6, <2>1, Zenon DEF Removing, At, Late
<1>9. Creating(w)' /\ Extending(w)'
  BY <1>5, <1>6, Zenon DEF Creating, Extending, At, Late
<1> QED
  BY <1>1, <1>3, <1>5, <1>7, <1>8, <1>9, SerialMoved, Zenon

(* The subscriptions of those who leave with an organisation. *)
LEMMA OrgSubsSerial ==
  ASSUME Base, Serial, NEW w \in Workers, DeleteSubscription(w) /\ ~At(w, "rmSub")
  PROVE  Serial'
<1>1. job[w].pc # "idle"
  BY Zenon DEF DeleteSubscription, GetSubscriptionAccounts, CommitRotation, FanOutKey, At
<1>2. Ready(w) /\ job \in [Workers -> JobType]
  BY <1>1, Here, Zenon
<1>3. UNCHANGED <<scen, state>> /\ StayOpen
  BY OpenSame, Zenon DEF DeleteSubscription, GetSubscriptionAccounts, CommitRotation, FanOutKey
<1>4. /\ subs' = subs \ job[w].new /\ owners' = owners \ job[w].new /\ UNCHANGED <<irm, orgRows, torn>>
      /\ Goto(w, "orgRow") /\ job[w].pc = "orgSubs"
  BY Zenon DEF DeleteSubscription, At
<1>5. Moved(w) /\ job'[w].pc = "orgRow" /\ Req(w)' = Req(w)
  BY <1>2, <1>3, <1>4, MovedTo, Zenon DEF Kept, Req
<1>6. Req(w).op = "removeOrg" /\ job[w].new = Gone(Req(w))
  BY <1>2, <1>4, Zenon DEF Ready, Removing, At
<1>7. Roster'
  <2>1. job[w].new \cap irm = {}
    BY <1>6, Zenon DEF Gone
  <2>2. \A a \in job[w].new \cap Accounts : \A o \in orgRows \cap OrgOf[a] : o \in Req(w).orgs
    BY <1>6, Zenon DEF Gone, MembersOf
  <2>3. \A a \in job[w].new \cap Accounts : \A o \in orgRows \cap OrgOf[a] :
          scen.reqs[job[w].m].op = "removeOrg" /\ o \in scen.reqs[job[w].m].orgs
    BY <1>2, <1>6, <2>2, Zenon DEF Ready
  <2> QED
    BY <1>2, <1>3, <1>4, <2>1, <2>3, RosterLosesSubs, Zenon DEF Ready
<1>8. Removing(w)'
  <2>1. Gone(Req(w))' = Gone(Req(w))
    BY <1>4, <1>5, Zenon DEF Gone
  <2>2. Gone(Req(w))' \cap subs' = {}
    BY <1>4, <1>6, <2>1, Zenon
  <2> QED
    BY <1>5, <1>6, <2>2, Zenon DEF Removing, At, Late
<1>9. Creating(w)' /\ Extending(w)'
  BY <1>5, <1>6, Zenon DEF Creating, Extending, At, Late
<1> QED
  BY <1>1, <1>3, <1>5, <1>7, <1>8, <1>9, SerialMoved, Zenon

(* The row of the organisation. *)
LEMMA OrgRowSerial ==
  ASSUME Base, Serial, NEW w \in Workers, DeleteOrgRow(w)
  PROVE  Serial'
<1>1. job[w].pc # "idle"
  BY Zenon DEF DeleteOrgRow, GetSubscriptionAccounts, CommitRotation, FanOutKey, At
<1>2. Ready(w) /\ job \in [Workers -> JobType]
  BY <1>1, Here, Zenon
<1>3. UNCHANGED <<scen, state>> /\ StayOpen
  BY OpenSame, Zenon DEF DeleteOrgRow, GetSubscriptionAccounts, CommitRotation, FanOutKey
<1>4. /\ orgRows' = orgRows \ Req(w).orgs /\ UNCHANGED <<subs, owners, irm, torn>>
      /\ Goto(w, "count") /\ job[w].pc = "orgRow"
  BY Zenon DEF DeleteOrgRow, At
<1>5. Moved(w) /\ job'[w].pc = "count" /\ Req(w)' = Req(w)
  BY <1>2, <1>3, <1>4, MovedTo, Zenon DEF Kept, Req
<1>6. Req(w).op = "removeOrg" /\ Gone(Req(w)) \cap subs = {}
  BY <1>2, <1>4, Zenon DEF Ready, Removing, At
<1>7. Roster'
  BY <1>2, <1>3, <1>4, <1>6, RosterLosesOrgs, Zenon DEF Ready, Typed
<1>8. Removing(w)'
  <2>1. Req(w).orgs \cap orgRows' = {}
    BY <1>4, Zenon
  <2> QED
    BY <1>5, <1>6, <2>1, Zenon DEF Removing, At, Late
<1>9. Creating(w)' /\ Extending(w)'
  BY <1>5, <1>6, Zenon DEF Creating, Extending, At, Late
<1> QED
  BY <1>1, <1>3, <1>5, <1>7, <1>8, <1>9, SerialMoved, Zenon

(* The row of a removed account; the removal ends here for one who stays through
   an organisation and is no owner. *)
LEMMA RemoveRowSerial ==
  ASSUME Base, Serial, NEW w \in Workers, DeleteRoomMember(w)
  PROVE  Serial'
<1>1. job[w].pc = "rmRow"
  BY Zenon DEF DeleteRoomMember, At
<1>2. /\ Typed /\ job \in [Workers -> JobType] /\ job[w] \in JobType
      /\ job[w].m \in DOMAIN state /\ Open(job[w].m)
      /\ Req(w) \in Requests /\ Req(w) = scen.reqs[job[w].m]
      /\ Roster /\ Removing(w)
  BY <1>1, Here, Zenon DEF Ready
<1>3. /\ Req(w).op = "remove"
      /\ job[w].new = Req(w).users \ MembersOf(orgRows)
      /\ job[w].flag <=> Req(w).users \cap owners # {}
  BY <1>1, <1>2, Zenon DEF Removing, At
<1>4. /\ irm' = irm \ Req(w).users /\ UNCHANGED <<scen, subs, owners, orgRows, torn>>
  BY Zenon DEF DeleteRoomMember
<1>5. CASE job[w].new = {} /\ ~job[w].flag
  <2>1. Ack(w) /\ state' = [state EXCEPT ![job[w].m] = "done"]
    BY <1>5, Zenon DEF DeleteRoomMember, Ack
  <2>2. DOMAIN state' = DOMAIN state /\ \A i \in DOMAIN state : i # job[w].m /\ Open(i) => Open(i)'
    BY <2>1 DEF Open
  <2>3. Req(w).users \subseteq MembersOf(orgRows) /\ Req(w).users \cap owners = {}
    BY <1>3, <1>5, Zenon
  <2>4. Roster'
    BY <1>2, <1>3, <1>4, <2>2, <2>3, RosterLosesRow, Zenon
  <2> QED
    BY <1>1, <1>4, <2>1, <2>4, SerialEnded, Zenon
<1>6. CASE ~(job[w].new = {} /\ ~job[w].flag)
  <2> DEFINE p == IF job[w].new = {} THEN "rmRole" ELSE "rmSub"
  <2>1. Goto(w, p) /\ state' = state
    BY <1>6, Zenon DEF DeleteRoomMember
  <2>2. p \in {"rmRole", "rmSub"} /\ (p = "rmRole" <=> job[w].new = {})
    BY Zenon
  <2> HIDE DEF p
  <2>3. Moved(w) /\ job'[w].pc = p /\ job'[w].new = job[w].new /\ Req(w)' = Req(w)
    BY <1>2, <1>4, <2>1, <2>2, MovedTo, Zenon DEF Kept, Req
  <2>4. StayOpen
    BY <2>1, OpenSame
  <2>5. Roster'
    BY <1>2, <1>3, <1>4, <2>4, RosterLosesRow, Zenon DEF StayOpen
  <2>6. p = "rmRole" => Req(w).users \subseteq MembersOf(orgRows)'
    BY <1>3, <1>4, <2>2, Zenon DEF MembersOf
  <2>7. p = "rmSub" => job[w].new = Req(w).users /\ Req(w).users \cap Covered' = {}
    <3>1. PICK a \in Accounts : Req(w).users = {a}
      <4>1. scen \in Scenarios /\ job[w].m \in DOMAIN scen.reqs
        BY <1>2, Zenon DEF Typed
      <4> QED
        BY <1>2, <1>3, <4>1, Asked, Zenon DEF Ready
    <3>2. p = "rmSub" => a \notin MembersOf(orgRows)
      BY <1>3, <2>2, <3>1, Zenon
    <3>3. MembersOf(orgRows)' = MembersOf(orgRows)
      BY <1>4, Zenon DEF MembersOf
    <3> QED
      BY <1>3, <1>4, <3>1, <3>2, <3>3, Zenon DEF Covered
  <2>8. Removing(w)'
    BY <1>3, <2>2, <2>3, <2>6, <2>7, Zenon DEF Removing, At, Late
  <2>9. Creating(w)' /\ Extending(w)'
    BY <2>2, <2>3, Zenon DEF Creating, Extending, At, Late
  <2> QED
    BY <1>1, <1>4, <2>1, <2>3, <2>5, <2>8, <2>9, SerialMoved, Zenon
<1> QED
  BY <1>5, <1>6

(* The owner role of one who stays through an organisation. *)
LEMMA RemoveRoleSerial ==
  ASSUME Base, Serial, NEW w \in Workers, RemoveRole(w)
  PROVE  Serial'
<1>1. job[w].pc = "rmRole"
  BY Zenon DEF RemoveRole, At
<1>2. /\ Typed /\ job \in [Workers -> JobType] /\ job[w] \in JobType
      /\ job[w].m \in DOMAIN state /\ Open(job[w].m)
      /\ Req(w) \in Requests /\ Req(w) = scen.reqs[job[w].m]
      /\ Roster /\ Removing(w)
  BY <1>1, Here, Zenon DEF Ready
<1>3. Req(w).op = "remove" /\ Req(w).users \subseteq MembersOf(orgRows)
  BY <1>1, <1>2, Zenon DEF Removing, At
<1>4. owners' = owners \ Req(w).users /\ UNCHANGED <<scen, subs, irm, orgRows, torn>>
  BY Zenon DEF RemoveRole
<1>5. CASE Req(w).users \subseteq subs
  <2>1. Ack(w) /\ state' = [state EXCEPT ![job[w].m] = "done"]
    BY <1>5, Zenon DEF RemoveRole, Ack
  <2>2. \A a \in subs \ Covered : ~Settles(Req(w), a)
    BY <1>3, Zenon DEF Settles, Covered
  <2>3. \A a \in owners' \ irm : ~Demotes(Req(w), a)
    BY <1>3, <1>4, Zenon DEF Demotes
  <2>4. owners' \subseteq owners
    BY <1>4, Zenon
  <2>5. Roster'
    BY <1>2, <1>3, <1>4, <2>1, <2>2, <2>3, <2>4, RosterClosed, Zenon
  <2> QED
    BY <1>1, <1>4, <2>1, <2>5, SerialEnded, Zenon
<1>6. CASE ~(Req(w).users \subseteq subs)
  <2>1. Nak(w) /\ StayOpen
    BY <1>2, <1>6, OpenNak, Zenon DEF RemoveRole
  <2>2. PICK a \in Accounts : Req(w).users = {a}
    <3>1. scen \in Scenarios /\ job[w].m \in DOMAIN scen.reqs
      BY <1>2 DEF Typed
    <3> QED
      BY <1>2, <1>3, <3>1, Asked, Zenon DEF Ready
  <2>3. owners' = owners
    BY <1>2, <1>4, <1>6, <2>2, Zenon DEF Roster, RowsSubscribed
  <2>4. Roster'
    BY <1>2, <1>4, <2>1, <2>3, RosterSame, Zenon DEF RosterVars
  <2> QED
    BY <1>1, <1>4, <2>1, <2>4, SerialEnded, Zenon
<1> QED
  BY <1>5, <1>6, Zenon

(* The rotation of a removal. *)
LEMMA RotationSerial ==
  ASSUME Base, Serial, NEW w \in Workers,
         GetSubscriptionAccounts(w) \/ CommitRotation(w) \/ FanOutKey(w)
  PROVE  Serial'
<1>1. job[w].pc \in {"survivors", "rotate", "fanOut"}
  BY Zenon DEF GetSubscriptionAccounts, CommitRotation, FanOutKey, At
<1>2. job \in [Workers -> JobType] /\ Roster /\ Removing(w)
  BY <1>1, Here, Zenon DEF Ready
<1>3. UNCHANGED <<scen, state>> /\ StayOpen /\ UNCHANGED RosterVars
  BY OpenSame, Zenon DEF GetSubscriptionAccounts, CommitRotation, FanOutKey, RosterVars, room
<1>4. /\ Moved(w) /\ job'[w].pc \in {"rotate", "fanOut", "publish"} /\ job'[w].new = job[w].new
      /\ job'[w].m = job[w].m
      /\ job'[w].pc \in {"rotate", "fanOut"} => job'[w].rows = subs
  <2>1. CASE GetSubscriptionAccounts(w)
    <3>1. job' = [job EXCEPT ![w].pc = "rotate", ![w].rows = subs]
      BY <2>1 DEF GetSubscriptionAccounts
    <3> QED
      BY <1>2, <3>1 DEF Moved, JobType
  <2>2. CASE CommitRotation(w)
    <3>1. PICK q : job' = [job EXCEPT ![w].pc = "fanOut", ![w].pair = q]
      BY <2>2, Zenon DEF CommitRotation
    <3>2. job[w].rows = subs
      BY <1>2, <2>2, Zenon DEF CommitRotation, Removing, At
    <3> QED
      BY <1>2, <3>1, <3>2 DEF Moved, JobType
  <2>3. CASE FanOutKey(w)
    <3>1. Goto(w, "publish")
      BY <2>3, Zenon DEF FanOutKey
    <3>2. "publish" \notin {"idle", "rotate", "fanOut"}
      OBVIOUS
    <3> QED
      BY <1>2, <3>1, <3>2, MovedTo, Zenon DEF Kept
  <2> QED
    BY <2>1, <2>2, <2>3, Zenon
<1>5. Roster'
  BY <1>2, <1>3, RosterSame, Zenon
<1>6. Creating(w)' /\ Extending(w)' /\ Removing(w)'
  BY <1>1, <1>3, <1>4, NothingMore, Zenon DEF Closing, Late
<1> QED
  BY <1>1, <1>3, <1>4, <1>5, <1>6, SerialMoved, Zenon
-----------------------------------------------------------------------------
(* The recount, which all the handlers share, and the end of a handler. *)
LEMMA SharedSerial ==
  ASSUME Base, Serial, NEW w \in Workers, ReconcileCount(w) \/ ReconcileWrite(w)
  PROVE  Serial'
<1>1. job[w].pc \in {"count", "recount"}
  BY Zenon DEF ReconcileCount, ReconcileWrite, At
<1>2. job \in [Workers -> JobType] /\ Roster
  BY <1>1, Here, Zenon DEF Ready
<1>3. UNCHANGED <<scen, state>> /\ StayOpen /\ UNCHANGED RosterVars
  BY OpenSame, Zenon DEF ReconcileCount, ReconcileWrite, RosterVars, room
<1>4. AfterReconcile(w) \in {"cross", "told", "publish", "survivors"}
  BY DEF AfterReconcile
<1>5. PICK p \in {"recount", "cross", "told", "publish", "survivors"} :
        \E t : job' = [job EXCEPT ![w].pc = p, ![w].total = t]
  BY <1>4, Zenon DEF ReconcileCount, ReconcileWrite
<1>6. Moved(w) /\ job'[w].pc = p /\ job'[w].new = job[w].new /\ job'[w].m = job[w].m
  BY <1>2, <1>5 DEF Moved, JobType
<1>7. Roster'
  BY <1>2, <1>3, RosterSame, Zenon
<1>8. Creating(w)' /\ Extending(w)' /\ Removing(w)'
  BY <1>1, <1>3, <1>5, <1>6, NothingMore, Zenon DEF Closing, Late
<1> QED
  BY <1>1, <1>3, <1>6, <1>7, <1>8, SerialMoved, Zenon

(* The last step of every handler: it owes nothing any more. *)
LEMMA PublishSerial ==
  ASSUME Base, Serial, NEW w \in Workers, Publish(w)
  PROVE  Serial'
<1>1. job[w].pc = "publish"
  BY Zenon DEF Publish, At
<1>2. /\ job[w].m \in DOMAIN state /\ Req(w) = scen.reqs[job[w].m]
      /\ Roster /\ Creating(w) /\ Extending(w) /\ Removing(w)
  BY <1>1, Here, Zenon DEF Ready
<1>3. UNCHANGED <<scen, subs, owners, irm, orgRows, torn>> /\ Ack(w)
  BY Zenon DEF Publish, room
<1>4. /\ Req(w).op = "create" /\ Req(w).orgs # {} =>
           {Req(w).by} \cup Req(w).users \subseteq irm /\ Req(w).orgs \subseteq orgRows
      /\ Req(w).op = "add" /\ Tracking => Named(Req(w)) \subseteq Covered
      /\ Req(w).op = "remove" => Req(w).users \cap subs = {}
      /\ Req(w).op = "removeOrg" => Req(w).orgs \cap orgRows = {}
  BY <1>1, <1>2, Zenon DEF Creating, Extending, Removing, Late
<1>5. ASSUME Tracking, NEW a \in subs \ Covered PROVE ~Settles(Req(w), a)
  <2>1. ~(Req(w).op = "remove" /\ a \in Req(w).users)
    BY <1>4, Zenon
  <2>2. ~(Req(w).op = "add" /\ a \in Named(Req(w)))
    BY <1>4, <1>5, Zenon
  <2>3. ~(Req(w).op = "create" /\ Req(w).orgs # {} /\ a \in {Req(w).by} \cup Named(Req(w)))
    BY <1>4, Zenon DEF Named, Covered, MembersOf
  <2> QED
    BY <2>1, <2>2, <2>3, Zenon DEF Settles
<1>6. ASSUME NEW a \in owners' \ irm PROVE ~Demotes(Req(w), a)
  BY <1>2, <1>3, <1>4, Zenon DEF Demotes, Roster, RowsSubscribed
<1>7. state' = [state EXCEPT ![job[w].m] = "done"] /\ owners' \subseteq owners
  BY <1>3 DEF Ack
<1>8. Roster'
  BY <1>2, <1>3, <1>4, <1>5, <1>6, <1>7, RosterClosed, Zenon
<1> QED
  BY <1>1, <1>3, <1>8, SerialEnded, Zenon

(* A call that fails, without and with part of a bulk write. *)
LEMMA FailSerial ==
  ASSUME Base, Serial, NEW w \in Workers, Fail(w)
  PROVE  Serial'
<1>1. job[w].pc # "idle"
  BY Zenon DEF Fail, Base, Belongs
<1>2. job[w].m \in DOMAIN state /\ Roster
  BY <1>1, Here, Zenon DEF Ready
<1>3. UNCHANGED RosterVars /\ scen' = scen /\ Nak(w)
  BY Zenon DEF Fail, room, RosterVars
<1>4. StayOpen
  BY <1>2, <1>3, OpenNak, Zenon
<1>5. Roster'
  BY <1>2, <1>3, <1>4, RosterSame, Zenon
<1> QED
  BY <1>1, <1>3, <1>5, SerialEnded, Zenon

(* A bulk write that fails half-way leaves the rest to the redelivery. *)
LEMMA BulkSerial ==
  ASSUME Base, Serial, NEW w \in Workers, BulkFails(w)
  PROVE  Serial'
<1>1. job[w].pc \in {"createSubs", "createRows", "addSubs", "addRows"}
  BY Zenon DEF BulkFails, At
<1>2. /\ Typed /\ job[w].m \in DOMAIN state /\ Open(job[w].m)
      /\ Req(w) \in Requests /\ Req(w) = scen.reqs[job[w].m]
      /\ Belongs(job[w], scen.reqs, exists, crossSite)
      /\ Roster /\ Creating(w) /\ Extending(w)
  BY <1>1, Here, Zenon DEF Ready
<1>3. scen' = scen /\ Nak(w)
  BY Zenon DEF BulkFails
<1>4. StayOpen
  BY <1>2, <1>3, OpenNak, Zenon
<1>5. /\ job[w].pc \in {"createSubs", "createRows"} => Req(w).op = "create"
      /\ job[w].pc \in {"addSubs", "addRows"} => Req(w).op = "add"
  BY <1>2, Zenon DEF Belongs, CreateSteps, AddSteps
<1>6. CASE At(w, "createSubs")
  <2>1. /\ torn' = (torn \/ (Req(w).orgs = {} /\ Tracking)) /\ UNCHANGED <<irm, orgRows>>
        /\ \E some \in SUBSET ({Req(w).by} \cup Req(w).users \cup MembersOf(Req(w).orgs)) :
             subs' = subs \cup some /\ owners' = owners \cup ((some \cap {Req(w).by}) \ subs)
    BY <1>6, Zenon DEF BulkFails, At
  <2>2. PICK some \in SUBSET ({Req(w).by} \cup Req(w).users \cup MembersOf(Req(w).orgs)) :
          subs' = subs \cup some /\ owners' = owners \cup ((some \cap {Req(w).by}) \ subs)
    BY <2>1, Zenon
  <2>3. some \subseteq {Req(w).by} \cup Named(Req(w))
    BY Zenon DEF Named
  <2> QED
    BY <1>2, <1>3, <1>4, <1>5, <1>6, <2>1, <2>2, <2>3, RosterCreates, SerialEnded, Zenon DEF At
<1>7. CASE At(w, "createRows")
  <2>1. /\ torn' = (torn \/ (~Tracking /\ ~(subs \subseteq job[w].new))) /\ UNCHANGED <<subs, owners>>
        /\ \E some \in SUBSET ({Req(w).by} \cup Req(w).users) : irm' = irm \cup some
        /\ \E some \in SUBSET Req(w).orgs : orgRows' = orgRows \cup some
    BY <1>7, Zenon DEF BulkFails, At
  <2>2. PICK some \in SUBSET ({Req(w).by} \cup Req(w).users) : irm' = irm \cup some
    BY <2>1, Zenon
  <2>3. PICK orgs \in SUBSET Req(w).orgs : orgRows' = orgRows \cup orgs
    BY <2>1, Zenon
  <2>4. Req(w).orgs # {} /\ job[w].new = {Req(w).by} \cup Named(Req(w)) /\ job[w].new \subseteq subs
    BY <1>2, <1>7, Zenon DEF Creating
  <2>5. some \subseteq subs /\ MembersOf(orgs) \subseteq subs
    BY <2>4, Zenon DEF Named, MembersOf
  <2>6. \A a \in job[w].new : Settles(Req(w), a)
    BY <1>5, <1>7, <2>4, Zenon DEF Settles, At
  <2>7. ~torn' /\ ~Tracking => \A a \in subs : Settles(Req(w), a)
    BY <2>1, <2>6, Zenon
  <2>8. \A a \in owners : Demotes(Req(w), a)
    BY <1>2, <1>5, <1>7, <2>4, Zenon DEF Demotes, At, Roster, FounderOwns
  <2>9. Roster'
    <3>1. ~torn' /\ ~Tracking => /\ \A a \in subs : Settles(scen.reqs[job[w].m], a)
                                /\ \A a \in owners : Demotes(scen.reqs[job[w].m], a)
      BY <1>2, <2>7, <2>8, Zenon
    <3>2. torn => torn'
      BY <2>1, Zenon
    <3> QED
      BY <1>2, <1>3, <1>4, <2>1, <2>2, <2>3, <2>5, <3>1, <3>2, RosterTracks, Zenon
  <2> QED
    BY <1>3, <1>7, <2>9, SerialEnded, Zenon DEF At
<1>8. CASE At(w, "addSubs")
  <2>1. UNCHANGED <<owners, irm, orgRows, torn>> /\ \E some \in SUBSET job[w].new : subs' = subs \cup some
    BY <1>8, Zenon DEF BulkFails, At
  <2>2. PICK some \in SUBSET job[w].new : subs' = subs \cup some
    BY <2>1
  <2>3. Loaded(w)
    BY <1>2, <1>8, Zenon DEF Extending, At, Split
  <2>4. some \subseteq Named(Req(w)) /\ Req(w).op = "add"
    BY <1>5, <1>8, <2>3, Zenon DEF Loaded, At
  <2>5. Roster'
    BY <1>2, <1>3, <1>4, <2>1, <2>2, <2>4, RosterAdds, Zenon
  <2> QED
    BY <1>3, <1>8, <2>5, SerialEnded, Zenon DEF At
<1>9. CASE At(w, "addRows")
  <2>1. /\ torn' = (torn \/ job[w].flag) /\ UNCHANGED <<subs, owners>>
        /\ \E some \in SUBSET job[w].rows : irm' = irm \cup some
        /\ \E some \in SUBSET Req(w).orgs : orgRows' = orgRows \cup some
    BY <1>9, Zenon DEF BulkFails, At
  <2>2. PICK some \in SUBSET job[w].rows : irm' = irm \cup some
    BY <2>1, Zenon
  <2>3. PICK orgs \in SUBSET Req(w).orgs : orgRows' = orgRows \cup orgs
    BY <2>1, Zenon
  <2>4. Listed(w)
    BY <1>2, <1>9, Zenon DEF Extending
  <2>5. some \subseteq subs /\ MembersOf(orgs) \subseteq subs
    BY <2>4, Zenon DEF Listed, Named, MembersOf
  <2>6. torn' \/ Tracking \/ ~Tracking'
    BY <2>1, <2>2, <2>3, <2>4, Zenon DEF Listed, Loaded, Tracking
  <2>7. Roster'
    BY <1>2, <1>3, <1>4, <2>1, <2>2, <2>3, <2>5, <2>6, RosterTracks, Zenon
  <2> QED
    BY <1>3, <1>9, <2>7, SerialEnded, Zenon DEF At
<1> QED
  BY <1>1, <1>6, <1>7, <1>8, <1>9, Zenon DEF At
-----------------------------------------------------------------------------
(* Room-service accepts a request, or not. *)
LEMMA SubmitSerial ==
  ASSUME Base, Serial, NEW i \in DOMAIN state, Submit(i)
  PROVE  Serial'
<1>1. UNCHANGED RosterVars /\ UNCHANGED <<scen, job, subs, owners, irm, orgRows, torn>>
  BY Zenon DEF Submit, RosterVars, room
<1>2. PICK s \in {"queued", "done"} : state' = [state EXCEPT ![i] = s]
  BY Zenon DEF Submit
<1>3. state[i] = "unsent"
  BY DEF Submit
<1>4. DOMAIN state' = DOMAIN state /\ \A n \in DOMAIN state : n # i => state'[n] = state[n]
  BY <1>2
<1>5. state'[i] \notin {"running", "retry"}
  BY <1>2
<1>6. StayOpen
  BY <1>3, <1>4, Zenon DEF StayOpen, Open
<1>7. Roster'
  BY <1>1, <1>6, RosterSame, Zenon DEF Serial
<1>8. Solo'
  <2>1. ASSUME NEW w \in Workers, job[w].pc # "idle" PROVE state'[job[w].m] = "running"
    <3>1. state[job[w].m] = "running" /\ job[w].m \in DOMAIN state
      BY <2>1, Here, Zenon DEF Ready, Solo
    <3> QED
      BY <1>3, <1>4, <3>1, Zenon
  <2>2. ASSUME NEW n \in DOMAIN state', state'[n] = "running"
        PROVE  \E w \in Workers : job[w].pc # "idle" /\ job[w].m = n
    <3>1. n \in DOMAIN state /\ state[n] = "running"
      BY <1>4, <1>5, <2>2, Zenon
    <3> QED
      BY <3>1, Zenon DEF Serial, Solo
  <2> QED
    BY <1>1, <2>1, <2>2, Zenon DEF Serial, Solo
<1>9. Doing'
  BY <1>1, JobsSame, Zenon DEF Serial
<1> QED
  BY <1>7, <1>8, <1>9 DEF Serial

(* From the definition of Cardinality: its recursion has a solution on subsets of {x}. *)
LEMMA OneElement == \A x : Cardinality({x}) = 1
<1> SUFFICES ASSUME NEW x PROVE Cardinality({x}) = 1
  OBVIOUS
<1> DEFINE Solves(g) == g = [T \in SUBSET {x} |-> IF T = {} THEN 0 ELSE 1 + g[T \ {CHOOSE y : y \in T}]]
           sizes == [T \in SUBSET {x} |-> IF T = {} THEN 0 ELSE 1]
<1>1. \A T \in SUBSET {x} : T # {} => T = {x} /\ (CHOOSE y : y \in T) = x /\ T \ {x} = {}
  <2> SUFFICES ASSUME NEW T \in SUBSET {x}, T # {} PROVE T = {x} /\ (CHOOSE y : y \in T) = x /\ T \ {x} = {}
    OBVIOUS
  <2>1. T = {x}
    OBVIOUS
  <2>2. (CHOOSE y : y \in {x}) = x
    OBVIOUS
  <2>3. QED
    BY <2>1, <2>2
<1>2. Solves(sizes)
  <2>1. \A T \in SUBSET {x} : sizes[T] = IF T = {} THEN 0 ELSE 1 + sizes[T \ {CHOOSE y : y \in T}]
    BY <1>1
  <2> DEFINE other == [T \in SUBSET {x} |-> IF T = {} THEN 0 ELSE 1 + sizes[T \ {CHOOSE y : y \in T}]]
  <2>2. \A T \in SUBSET {x} : sizes[T] = other[T]
    BY <2>1
  <2>3. QED
    BY <2>2
<1>3. Solves(CHOOSE g : Solves(g))
  BY <1>2, Zenon
<1>4. Cardinality({x}) = (CHOOSE g : Solves(g))[{x}]
  BY Zenon DEF Cardinality
<1> DEFINE c == CHOOSE g : Solves(g)
<1> HIDE DEF c
<1>5. c = [T \in SUBSET {x} |-> IF T = {} THEN 0 ELSE 1 + c[T \ {CHOOSE y : y \in T}]]
  BY <1>3, Zenon DEF c
<1>6. c[{}] = 0 /\ c[{x}] = 1 + c[{x} \ {CHOOSE y : y \in {x}}]
  BY <1>5
<1>7. {x} \ {CHOOSE y : y \in {x}} = {}
  BY <1>1
<1>8. c[{x}] = 1
  BY <1>6, <1>7
<1>9. Cardinality({x}) = c[{x}]
  BY <1>4 DEF c
<1>10. QED
  BY <1>8, <1>9, Zenon

(* No handler runs when one is started. *)
LEMMA DeliverAlone ==
  ASSUME Base, Serial, workers = 1, NEW w \in Workers, NEW i, Deliver(w, i)
  PROVE  \A v \in Workers : job[v] = Idle
<1> SUFFICES ASSUME NEW v \in Workers, job[v] # Idle PROVE FALSE
  OBVIOUS
<1> DEFINE busy == {u \in Workers : job[u] # Idle}
<1>1. \A u \in busy : job[u].pc # "idle"
  BY Zenon DEF Base, Belongs
<1>2. busy = {v}
  BY <1>1 DEF Serial, Solo
<1>3. Cardinality(busy) < 1
  BY DEF Deliver
<1> HIDE DEF busy
<1> QED
  <2>1. Cardinality(busy) = 1
    BY <1>2, OneElement, Zenon
  <2> QED
    BY <1>3, <2>1

(* The consumer starts a handler: no other is running. *)
LEMMA DeliverSerial ==
  ASSUME Base, Serial, workers = 1, NEW w \in Workers, NEW i \in DOMAIN state, Deliver(w, i)
  PROVE  Serial'
<1>0. Idle.pc = "idle"
  BY Zenon DEF Idle
<1>1. \A v \in Workers : job[v] = Idle
  BY DeliverAlone, Zenon
<1>2. UNCHANGED RosterVars /\ UNCHANGED <<scen, subs, owners, irm, orgRows, torn>>
  BY Zenon DEF Deliver, RosterVars, room
<1>3. /\ state' = [state EXCEPT ![i] = "running"]
      /\ job' = [job EXCEPT ![w].m = i, ![w].pc = scen.reqs[i].op]
  BY Zenon DEF Deliver
<1>4. job \in [Workers -> JobType] /\ scen.reqs[i] \in Requests
  <2>1. Typed /\ job \in [Workers -> JobType] /\ i \in DOMAIN scen.reqs
    BY Zenon DEF Base, Typed
  <2> QED
    BY <2>1, Asked, Zenon
<1>5. /\ job'[w].m = i /\ job'[w].pc = scen.reqs[i].op
      /\ \A v \in Workers : v # w => job'[v] = Idle
  BY <1>1, <1>3, <1>4 DEF JobType
<1>6. job'[w].pc \in {"create", "add", "remove", "removeOrg"}
  BY <1>4, <1>5, Zenon DEF Requests
<1>7. /\ DOMAIN state' = DOMAIN state /\ state'[i] = "running"
      /\ \A n \in DOMAIN state : n # i => state'[n] = state[n] /\ state[n] # "running"
  <2>1. \A n \in DOMAIN state : state[n] # "running"
    <3>1. Solo /\ \A v \in Workers : job[v].pc = "idle"
      BY <1>0, <1>1, Zenon DEF Serial
    <3> QED
      BY <3>1, Zenon DEF Solo
  <2> QED
    BY <1>3, <2>1
<1>8. StayOpen
  BY <1>7, Zenon DEF StayOpen, Open
<1>9. Roster'
  BY <1>2, <1>8, RosterSame, Zenon DEF Serial
<1>10. \A v \in Workers : job'[v].pc # "idle" => v = w
  BY <1>0, <1>5, Zenon
<1>11. Solo'
  <2>1. \A v \in Workers : job'[v].pc # "idle" => state'[job'[v].m] = "running"
    BY <1>5, <1>7, <1>10, Zenon
  <2>2. \A n \in DOMAIN state' : state'[n] = "running" => \E v \in Workers : job'[v].pc # "idle" /\ job'[v].m = n
    BY <1>5, <1>6, <1>7, Zenon
  <2> QED
    BY <1>10, <2>1, <2>2, Zenon DEF Solo
<1>12. Req(w)' = scen.reqs[i]
  BY <1>2, <1>5, Zenon DEF Req
<1>13. Creating(w)' /\ Extending(w)'
  BY <1>6, Zenon DEF Creating, Extending, At, Late
<1>14. Removing(w)'
  BY <1>5, <1>6, <1>12, Zenon DEF Removing, At, Late
<1>15. Doing'
  BY <1>10, <1>13, <1>14, Zenon DEF Doing
<1> QED
  BY <1>9, <1>11, <1>15 DEF Serial

(* The RPC key.ensure does not touch the membership. *)
LEMMA OtherSerial ==
  ASSUME Serial, UNCHANGED <<scen, state, job, room, torn>>
  PROVE  Serial'
<1>1. UNCHANGED RosterVars /\ UNCHANGED <<scen, state, job, subs, owners, irm, orgRows, torn>>
  BY DEF room, RosterVars
<1>2. Roster'
  BY <1>1, OpenSame, RosterSame, Zenon DEF Serial
<1>3. Solo'
  BY <1>1, Zenon DEF Serial, Solo
<1>4. Doing'
  BY <1>1, JobsSame, Zenon DEF Serial
<1> QED
  BY <1>2, <1>3, <1>4 DEF Serial
-----------------------------------------------------------------------------
(* Every step preserves the invariant, with one worker. *)
LEMMA StepSerial ==
  ASSUME Base, Serial, NEW w \in Workers, Step(w)
  PROVE  Serial'
<1>1. CASE \/ CreateRoom(w) \/ ExistingRoomKey(w) \/ ExistingRoomSet(w) \/ CreateSubs(w)
           \/ CreateRows(w) \/ CreateCrossSite(w)
  BY <1>1, CreateKeySerial, CreateSubsSerial, CreateRowsSerial, CreateCrossSiteSerial, Zenon
<1>2. CASE \/ LoadAddMemberInputs(w) \/ KeyPairOrHeal(w) \/ Heal(w) \/ AddSubs(w) \/ Backfill(w)
           \/ AddRows(w) \/ BulkFails(w) \/ ApplyMemberCountDelta(w) \/ SubscriptionAdded(w)
  BY <1>2, LoadSerial, AddKeySerial, AddSubsSerial, BackfillSerial, AddRowsSerial, BulkSerial, AddedSerial, Zenon
<1>3. CASE \/ RemoveMember(w) \/ GetUserWithMembership(w) \/ DeleteRoomMember(w) \/ RemoveRole(w)
           \/ DeleteSubscription(w) \/ GetOrgMembers(w) \/ DeleteOrgRow(w)
           \/ GetSubscriptionAccounts(w) \/ CommitRotation(w) \/ ArchiveDemoted(w) \/ FanOutKey(w)
  <2>1. DeleteSubscription(w) => Serial'
    BY RemoveSubSerial, OrgSubsSerial, Zenon
  <2>2. ArchiveDemoted(w) => Serial'
    BY OtherSerial, Zenon DEF ArchiveDemoted
  <2> QED
    BY <1>3, <2>1, <2>2, RemoveMemberSerial, RemoveLoadSerial, RemoveRowSerial, RemoveRoleSerial, OrgLoadSerial,
       OrgRowSerial, RotationSerial, Zenon
<1>4. CASE ReconcileCount(w) \/ ReconcileWrite(w) \/ Publish(w)
  BY <1>4, SharedSerial, PublishSerial, Zenon
<1> QED
  BY <1>1, <1>2, <1>3, <1>4, Zenon DEF Step

(* And so does every action. *)
LEMMA NextSerial ==
  ASSUME Base, Serial, workers = 1, [Next]_vars
  PROVE  Serial'
<1>1. CASE \E i \in DOMAIN state : Submit(i)
  BY <1>1, SubmitSerial, Zenon
<1>2. CASE \E w \in Workers, i \in DOMAIN state : Deliver(w, i)
  BY <1>2, DeliverSerial, Zenon
<1>3. CASE \E w \in Workers : Step(w) \/ Fail(w)
  BY <1>3, StepSerial, FailSerial, Zenon
<1>4. CASE EnsureGet \/ EnsureSet \/ UNCHANGED vars
  <2>1. UNCHANGED <<scen, state, job, room, torn>>
    BY <1>4, Zenon DEF EnsureGet, EnsureSet, vars
  <2> QED
    BY <2>1, OtherSerial
<1> QED
  BY <1>1, <1>2, <1>3, <1>4, Zenon DEF Next, Rest

(* It holds initially. *)
LEMMA InitSerial == Init => Serial
<1> SUFFICES ASSUME Init PROVE Serial
  OBVIOUS
<1>1. scen \in Scenarios /\ state = [i \in DOMAIN scen.reqs |-> "unsent"] /\ job = [w \in Workers |-> Idle]
  BY Zenon DEF Init
<1>2. /\ subs = scen.room.subs /\ owners = scen.room.owners
      /\ irm = scen.room.irm /\ orgRows = scen.room.orgRows
  BY Zenon DEF Init
<1>3. \A w \in Workers : job[w].pc = "idle"
  BY <1>1, Zenon DEF Idle
<1>4. DOMAIN state = DOMAIN scen.reqs /\ \A i \in DOMAIN state : state[i] = "unsent"
  BY <1>1
<1>5. irm \cup owners \cup MembersOf(orgRows) \subseteq subs
  BY <1>1, <1>2, RoomsAssumption, Zenon
<1>6. Tracking => subs \subseteq irm \cup MembersOf(orgRows) /\ owners \subseteq irm
  BY <1>1, <1>2, RoomsAssumption, Zenon DEF Tracking
<1>7. \A i \in DOMAIN state : scen.reqs[i].op = "create" => subs = {}
  BY <1>1, <1>2, <1>4, RoomsAssumption, Zenon
<1>8. RowsSubscribed /\ FounderOwns
  BY <1>5, <1>7, Zenon DEF RowsSubscribed, FounderOwns
<1>9. OrgsSubscribed
  BY <1>5, Zenon DEF OrgsSubscribed, MembersOf
<1>10. SubscribersCovered /\ OwnersCovered
  BY <1>6, Zenon DEF SubscribersCovered, OwnersCovered, Covered
<1>11. Solo /\ Doing
  BY <1>3, <1>4, Zenon DEF Solo, Doing
<1> QED
  BY <1>8, <1>9, <1>10, <1>11 DEF Serial, Roster

(* Between requests no handler runs and nothing is owed. *)
LEMMA RestIdle ==
  ASSUME Base, Serial, AtRest
  PROVE  (\A w \in Workers : job[w].pc = "idle") /\ \A i \in DOMAIN state : ~Open(i)
<1>1. \A i \in DOMAIN state : ~Open(i)
  BY DEF AtRest, Open
<1>2. ASSUME NEW w \in Workers, job[w].pc # "idle" PROVE FALSE
  BY <1>1, <1>2, Here, Zenon DEF Ready
<1> QED
  BY <1>1, <1>2, Zenon

(* MAX_WORKERS does not change. *)
LEMMA WorkersStay == [Next]_vars => workers' = workers
<1> SUFFICES ASSUME [Next]_vars PROVE workers' = workers
  OBVIOUS
<1>1. ASSUME NEW w \in Workers, Step(w) PROVE workers' = workers
  <2>1. CASE \/ CreateRoom(w) \/ ExistingRoomKey(w) \/ ExistingRoomSet(w) \/ CreateSubs(w)
             \/ CreateRows(w) \/ CreateCrossSite(w)
    BY <2>1, Zenon DEF CreateRoom, ExistingRoomKey, ExistingRoomSet, CreateSubs, CreateRows, CreateCrossSite
  <2>2. CASE \/ LoadAddMemberInputs(w) \/ KeyPairOrHeal(w) \/ Heal(w) \/ AddSubs(w) \/ Backfill(w)
             \/ AddRows(w) \/ BulkFails(w) \/ ApplyMemberCountDelta(w) \/ SubscriptionAdded(w)
    BY <2>2, Zenon DEF LoadAddMemberInputs, KeyPairOrHeal, Heal, AddSubs, Backfill, AddRows, BulkFails,
       ApplyMemberCountDelta, SubscriptionAdded
  <2>3. CASE \/ RemoveMember(w) \/ GetUserWithMembership(w) \/ DeleteRoomMember(w) \/ RemoveRole(w)
             \/ DeleteSubscription(w) \/ GetOrgMembers(w) \/ DeleteOrgRow(w)
             \/ GetSubscriptionAccounts(w) \/ CommitRotation(w) \/ ArchiveDemoted(w) \/ FanOutKey(w)
    BY <2>3, Zenon DEF RemoveMember, GetUserWithMembership, DeleteRoomMember, RemoveRole, DeleteSubscription,
       GetOrgMembers, DeleteOrgRow, GetSubscriptionAccounts, CommitRotation, ArchiveDemoted, FanOutKey
  <2>4. CASE ReconcileCount(w) \/ ReconcileWrite(w) \/ Publish(w)
    BY <2>4, Zenon DEF ReconcileCount, ReconcileWrite, Publish
  <2> QED
    BY <1>1, <2>1, <2>2, <2>3, <2>4, Zenon DEF Step
<1>2. CASE \E i \in DOMAIN state : Submit(i) \/ \E w \in Workers : Deliver(w, i)
  BY <1>2, Zenon DEF Submit, Deliver
<1>3. CASE (\E w \in Workers : Fail(w)) \/ EnsureGet \/ EnsureSet \/ UNCHANGED vars
  BY <1>3, Zenon DEF Fail, EnsureGet, EnsureSet, vars
<1> QED
  BY <1>1, <1>2, <1>3, Zenon DEF Next, Rest

(* A handler that takes a step runs. *)
LEMMA StepReady ==
  ASSUME Base, Serial, NEW w \in Workers, Step(w) \/ Fail(w)
  PROVE  Ready(w)
<1>1. ASSUME job[w].pc = "idle" PROVE FALSE
  <2>1. ~(\/ CreateRoom(w) \/ ExistingRoomKey(w) \/ ExistingRoomSet(w) \/ CreateSubs(w)
          \/ CreateRows(w) \/ CreateCrossSite(w))
    BY <1>1, Zenon DEF CreateRoom, ExistingRoomKey, ExistingRoomSet, CreateSubs, CreateRows, CreateCrossSite, At
  <2>2. ~(\/ LoadAddMemberInputs(w) \/ KeyPairOrHeal(w) \/ Heal(w) \/ AddSubs(w) \/ Backfill(w)
          \/ AddRows(w) \/ BulkFails(w) \/ ApplyMemberCountDelta(w) \/ SubscriptionAdded(w))
    BY <1>1, Zenon DEF LoadAddMemberInputs, KeyPairOrHeal, Heal, AddSubs, Backfill, AddRows, BulkFails,
       ApplyMemberCountDelta, SubscriptionAdded, At
  <2>3. ~(\/ RemoveMember(w) \/ GetUserWithMembership(w) \/ DeleteRoomMember(w) \/ RemoveRole(w)
          \/ DeleteSubscription(w) \/ GetOrgMembers(w) \/ DeleteOrgRow(w)
          \/ GetSubscriptionAccounts(w) \/ CommitRotation(w) \/ ArchiveDemoted(w) \/ FanOutKey(w))
    BY <1>1, Zenon DEF RemoveMember, GetUserWithMembership, DeleteRoomMember, RemoveRole, DeleteSubscription,
       GetOrgMembers, DeleteOrgRow, GetSubscriptionAccounts, CommitRotation, ArchiveDemoted, FanOutKey, At
  <2>4. ~(ReconcileCount(w) \/ ReconcileWrite(w) \/ Publish(w))
    BY <1>1, Zenon DEF ReconcileCount, ReconcileWrite, Publish, At
  <2>5. ~Fail(w)
    BY <1>1, Zenon DEF Fail, Base, Belongs
  <2> QED
    BY <2>1, <2>2, <2>3, <2>4, <2>5, Zenon DEF Step
<1> QED
  BY <1>1, Here, Zenon

-----------------------------------------------------------------------------
(* The counter of the room.  Tally says by how much it is behind at every  *)
(* step of every handler: the new subscriptions of an addition until its   *)
(* delta, and anything in a handler that goes on to recount.               *)

(* A goroutine without a handler is at no step of one. *)
LEMMA NoStep == Idle.pc = "idle"
BY DEF Idle

(* The steps between a write of subscriptions and the update of the counter. *)
Behind == {"addList", "addRows", "addCount"}
Uncounted == Behind \cup {"createRows", "orgRow", "count", "recount"}

(* The counter, at the step w is at: it lacks the members added so far, or the
   recount to come will set it. *)
Counted(w) ==
  /\ job[w].pc \in Behind /\ ~drift => count + Cardinality(job[w].new) = Cardinality(subs)
  /\ At(w, "recount") => job[w].total = Cardinality(subs)
  /\ job[w].pc \notin Uncounted /\ ~drift => count = Cardinality(subs)

(* The inductive invariant of the counter. *)
Tally ==
  /\ (\A w \in Workers : job[w].pc = "idle") /\ ~drift => count = Cardinality(subs)
  /\ \A w \in Workers : job[w].pc # "idle" => Counted(w)
  /\ count \in Nat

(* The handler that runs goes on, or ends. *)
LEMMA TallyMoved ==
  ASSUME Solo, Tally, NEW w \in Workers, job[w].pc # "idle", Moved(w), Counted(w)', count' \in Nat
  PROVE  Tally'
<1>1. ASSUME NEW v \in Workers, job'[v].pc # "idle" PROVE v = w
  BY <1>1 DEF Solo, Moved
<1> QED
  BY <1>1, Zenon DEF Tally, Moved

(* When it ends, the counter is exact unless a call failed. *)
LEMMA TallyEnded ==
  ASSUME Solo, Tally, NEW w \in Workers, job[w].pc # "idle", Ended(w), count' \in Nat,
         ~drift' => count' = Cardinality(subs')
  PROVE  Tally'
<1>1. ASSUME NEW v \in Workers PROVE job'[v].pc = "idle"
  BY NoStep DEF Solo, Ended
<1> QED
  BY <1>1, Zenon DEF Tally

(* A step that neither adds nor takes members, nor counts them. *)
LEMMA TallySame ==
  ASSUME Base, Serial, Tally, NEW w \in Workers, job[w].pc # "idle", job[w].pc \notin Uncounted,
         job'[w].pc \notin Behind \cup {"recount"},
         UNCHANGED <<subs, count, drift>>, Moved(w) \/ Ended(w)
  PROVE  Tally'
<1>1. ~drift => count = Cardinality(subs)
  BY Zenon DEF Tally, Counted
<1>2. Counted(w)'
  BY <1>1, Zenon DEF Counted, At
<1> QED
  BY <1>1, <1>2, TallyMoved, TallyEnded, Zenon DEF Tally, Serial

(* A step up to the recount, or to the row of the organisation. *)
LEMMA TallyLater ==
  ASSUME Base, Serial, Tally, NEW w \in Workers, job[w].pc # "idle",
         job'[w].pc \in {"createRows", "orgRow", "count"}, count' = count, Moved(w)
  PROVE  Tally'
<1>1. Counted(w)'
  BY DEF Counted, At, Uncounted, Behind
<1> QED
  BY <1>1, TallyMoved, Zenon DEF Tally, Serial

(* processCreateRoom: its subscriptions are counted by the recount it goes on to. *)
LEMMA CreateTally ==
  ASSUME Base, Serial, Tally, NEW w \in Workers,
         CreateRoom(w) \/ ExistingRoomKey(w) \/ ExistingRoomSet(w) \/ CreateSubs(w) \/ CreateRows(w) \/ CreateCrossSite(w)
  PROVE  Tally'
<1>1. job \in [Workers -> JobType]
  BY DEF Base, Typed
<1>2. CASE CreateRoom(w) \/ ExistingRoomKey(w) \/ ExistingRoomSet(w) \/ CreateCrossSite(w)
  <2>1. job[w].pc \in {"create", "createKey", "createSet", "cross"}
    BY <1>2, Zenon DEF CreateRoom, ExistingRoomKey, ExistingRoomSet, CreateCrossSite, At
  <2>2. UNCHANGED <<subs, count, drift>>
    BY <1>2, Zenon DEF CreateRoom, ExistingRoomKey, ExistingRoomSet, CreateCrossSite, room
  <2>3. PICK p \in {"createKey", "createSet", "createSubs", "told"} :
          Goto(w, p) \/ \E q : job' = [job EXCEPT ![w].pc = p, ![w].pair = q]
    BY <1>2, Zenon DEF CreateRoom, ExistingRoomKey, ExistingRoomSet, CreateCrossSite
  <2>4. Moved(w) /\ job'[w].pc = p
    BY <1>1, <2>3 DEF Moved, Goto, JobType
  <2> QED
    BY <2>1, <2>2, <2>3, <2>4, TallySame DEF Uncounted, Behind
<1>3. CASE CreateSubs(w) \/ CreateRows(w)
  <2>1. job[w].pc \in {"createSubs", "createRows"} /\ count' = count
    BY <1>3, Zenon DEF CreateSubs, CreateRows, At
  <2>2. PICK p \in {"createRows", "count"} : Goto(w, p) \/ \E q : job' = [job EXCEPT ![w].new = q, ![w].pc = p]
    BY <1>3, Zenon DEF CreateSubs, CreateRows
  <2>3. Moved(w) /\ job'[w].pc = p
    BY <1>1, <2>2, Zenon DEF Moved, Goto, JobType
  <2> QED
    BY <2>1, <2>2, <2>3, TallyLater, Zenon
<1> QED
  BY <1>2, <1>3

(* The steps of an addition that do not count. *)
LEMMA AddTally ==
  ASSUME Base, Serial, Tally, NEW w \in Workers,
         KeyPairOrHeal(w) \/ Heal(w) \/ Backfill(w) \/ AddRows(w) \/ SubscriptionAdded(w)
  PROVE  Tally'
<1>1. job \in [Workers -> JobType]
  BY DEF Base, Typed
<1>2. CASE KeyPairOrHeal(w) \/ Heal(w) \/ SubscriptionAdded(w)
  <2>1. job[w].pc \in {"addKey", "addHeal", "told"}
    BY <1>2, Zenon DEF KeyPairOrHeal, Heal, SubscriptionAdded, At
  <2>2. UNCHANGED <<subs, count, drift>>
    BY <1>2, Zenon DEF KeyPairOrHeal, Heal, SubscriptionAdded, room
  <2>3. PICK p \in {"addHeal", "addSubs", "publish"} :
          Goto(w, p) \/ \E q : job' = [job EXCEPT ![w].pc = p, ![w].pair = q]
    BY <1>2, Zenon DEF KeyPairOrHeal, Heal, SubscriptionAdded
  <2>4. Moved(w) /\ job'[w].pc = p
    BY <1>1, <2>3 DEF Moved, Goto, JobType
  <2> QED
    BY <2>1, <2>2, <2>3, <2>4, TallySame, Zenon DEF Uncounted, Behind
<1>3. CASE Backfill(w) \/ AddRows(w)
  <2>1. job[w].pc \in {"addList", "addRows"}
    BY <1>3, Zenon DEF Backfill, AddRows, At
  <2>2. UNCHANGED <<subs, count, drift>>
    BY <1>3, Zenon DEF Backfill, AddRows, room
  <2>3. PICK p \in {"addRows", "addCount"} :
          Goto(w, p) \/ \E q : job' = [job EXCEPT ![w].pc = p, ![w].rows = q]
    BY <1>3, Zenon DEF Backfill, AddRows
  <2>4. Moved(w) /\ job'[w].pc = p /\ job'[w].new = job[w].new
    BY <1>1, <2>3 DEF Moved, Goto, JobType
  <2>5. ~drift => count + Cardinality(job[w].new) = Cardinality(subs)
    BY <2>1, Zenon DEF Tally, Counted, Behind
  <2>6. Counted(w)'
    BY <2>2, <2>3, <2>4, <2>5, Zenon DEF Counted, Uncounted, Behind, At
  <2> QED
    BY <2>1, <2>2, <2>4, <2>6, TallyMoved, Zenon DEF Tally, Serial
<1> QED
  BY <1>2, <1>3

(* An addition finds nobody to subscribe, and counts nobody. *)
LEMMA LoadTally ==
  ASSUME AccountsCount, Base, Serial, Tally, NEW w \in Workers, LoadAddMemberInputs(w)
  PROVE  Tally'
<1>1. job \in [Workers -> JobType] /\ job[w].pc = "add"
  BY Zenon DEF Base, Typed, LoadAddMemberInputs, At
<1>2. UNCHANGED <<subs, count, drift>>
  BY Zenon DEF LoadAddMemberInputs
<1>3. \/ Ack(w)
      \/ \E n, r, f : job' = [job EXCEPT ![w].pc = IF n = {} THEN "addList" ELSE "addKey",
                                         ![w].new = n, ![w].rows = r, ![w].flag = f]
  <2> DEFINE n == (Req(w).users \cup MembersOf(Req(w).orgs)) \ subs
             r == IF Req(w).orgs # {} \/ Tracking THEN Req(w).users \ irm ELSE {}
             f == Req(w).orgs # {} /\ ~Tracking
  <2>1. \/ Ack(w)
        \/ job' = [job EXCEPT ![w].pc = IF n = {} THEN "addList" ELSE "addKey",
                              ![w].new = n, ![w].rows = r, ![w].flag = f]
    BY Zenon DEF LoadAddMemberInputs
  <2> HIDE DEF n, r, f
  <2> QED
    BY <2>1, Zenon
<1>4. CASE Ack(w)
  <2>1. Ended(w) /\ job'[w].pc = "idle"
    BY <1>1, <1>4, NoStep DEF Ack, Ended
  <2> QED
    BY <1>1, <1>2, <2>1, TallySame DEF Uncounted, Behind
<1>5. ASSUME NEW n, NEW r, NEW f,
             job' = [job EXCEPT ![w].pc = IF n = {} THEN "addList" ELSE "addKey",
                                ![w].new = n, ![w].rows = r, ![w].flag = f]
      PROVE  Tally'
  <2>1. Moved(w) /\ job'[w].pc = (IF n = {} THEN "addList" ELSE "addKey") /\ job'[w].new = n
    BY <1>1, <1>5, ZenonT(60) DEF Moved, JobType
  <2>2. ~drift => count = Cardinality(subs)
    BY <1>1 DEF Tally, Counted, Uncounted, Behind
  <2>3. count \in Nat /\ (n = {} => Cardinality(n) = 0)
    BY Zenon DEF AccountsCount, Tally
  <2>4. Counted(w)'
    BY <1>2, <2>1, <2>2, <2>3 DEF Counted, Uncounted, Behind, At
  <2> QED
    BY <1>1, <1>2, <2>1, <2>3, <2>4, TallyMoved, Zenon DEF Serial
<1> QED
  BY <1>3, <1>4, <1>5, Zenon

(* The members it subscribes had no subscription. *)
LEMMA AddSubsTally ==
  ASSUME AccountsCount, Base, Serial, Tally, NEW w \in Workers, AddSubs(w)
  PROVE  Tally'
<1>1. job[w].pc = "addSubs" /\ subs' = subs \cup job[w].new /\ UNCHANGED <<count, drift>> /\ Goto(w, "addList")
  BY Zenon DEF AddSubs, At
<1>2. job \in [Workers -> JobType] /\ job[w] \in JobType /\ Extending(w) /\ Typed
  BY <1>1, Here, Zenon DEF Ready
<1>3. Moved(w) /\ job'[w].pc = "addList" /\ job'[w].new = job[w].new
  BY <1>1, <1>2, MovedTo, Zenon DEF Kept
<1>4. job[w].new \cap subs = {}
  BY <1>1, <1>2, Zenon DEF Extending, Split
<1>5. subs \subseteq Accounts /\ job[w].new \subseteq Accounts
  BY <1>2 DEF Typed, JobType
<1>6. Cardinality(subs') = Cardinality(subs) + Cardinality(job[w].new)
  <2>1. subs \cap job[w].new = {}
    BY <1>4
  <2> QED
    BY <1>1, <1>5, <2>1, Zenon DEF AccountsCount
<1>7. ~drift => count = Cardinality(subs)
  BY <1>1, Zenon DEF Tally, Counted, Uncounted, Behind
<1>8. Counted(w)'
  BY <1>1, <1>3, <1>6, <1>7, Zenon DEF Counted, Uncounted, Behind, At
<1> QED
  BY <1>1, <1>3, <1>8, TallyMoved, Zenon DEF Serial, Tally

(* The steps that count: the delta of an addition, and the recount. *)
LEMMA CountTally ==
  ASSUME AccountsCount, Base, Serial, Tally, NEW w \in Workers,
         ApplyMemberCountDelta(w) \/ ReconcileCount(w) \/ ReconcileWrite(w)
  PROVE  Tally'
<1>1. job[w].pc \in {"addCount", "count", "recount"}
  BY Zenon DEF ApplyMemberCountDelta, ReconcileCount, ReconcileWrite, At
<1>2. job \in [Workers -> JobType] /\ job[w] \in JobType /\ Typed
  BY <1>1, Here, Zenon DEF Ready
<1>3. \A s \in SUBSET Accounts : Cardinality(s) \in Nat
  BY Zenon DEF AccountsCount
<1>4. CASE ApplyMemberCountDelta(w)
  <2>1. job[w].pc = "addCount" /\ count' = count + Cardinality(job[w].new) /\ UNCHANGED <<subs, drift>>
    BY <1>4, Zenon DEF ApplyMemberCountDelta, At
  <2>2. PICK p \in {"count", "told"} : Goto(w, p)
    BY <1>4, Zenon DEF ApplyMemberCountDelta
  <2>3. Moved(w) /\ job'[w].pc = p
    BY <1>2, <2>2, MovedTo, Zenon DEF Kept
  <2>4. ~drift => count' = Cardinality(subs)
    BY <2>1, Zenon DEF Tally, Counted, Behind
  <2>5. Counted(w)'
    BY <2>1, <2>3, <2>4, Zenon DEF Counted, Uncounted, Behind, At
  <2>6. count' \in Nat
    BY <1>2, <1>3, <2>1 DEF Tally, JobType
  <2> QED
    BY <2>1, <2>3, <2>5, <2>6, TallyMoved DEF Serial
<1>5. CASE ReconcileCount(w)
  <2>1. job' = [job EXCEPT ![w].pc = "recount", ![w].total = Cardinality(subs)] /\ UNCHANGED <<subs, count, drift>>
    BY <1>5, Zenon DEF ReconcileCount, room
  <2>2. Moved(w) /\ job'[w].pc = "recount" /\ job'[w].total = Cardinality(subs)
    BY <1>2, <2>1 DEF Moved, JobType
  <2>3. Counted(w)'
    BY <2>1, <2>2 DEF Counted, Uncounted, Behind, At
  <2> QED
    BY <1>1, <2>1, <2>2, <2>3, TallyMoved, Zenon DEF Serial, Tally
<1>6. CASE ReconcileWrite(w)
  <2>1. job[w].pc = "recount" /\ count' = job[w].total /\ subs' = subs
    BY <1>6, Zenon DEF ReconcileWrite, At
  <2>2. AfterReconcile(w) \in {"cross", "told", "publish", "survivors"}
    BY DEF AfterReconcile
  <2>3. PICK p \in {"cross", "told", "publish", "survivors"} : job' = [job EXCEPT ![w].pc = p, ![w].total = 0]
    BY <1>6, <2>2, Zenon DEF ReconcileWrite
  <2>4. Moved(w) /\ job'[w].pc = p
    BY <1>2, <2>3 DEF Moved, JobType
  <2>5. count' = Cardinality(subs)
    BY <2>1, Zenon DEF Tally, Counted, At
  <2>6. Counted(w)'
    BY <2>1, <2>4, <2>5, Zenon DEF Counted, Uncounted, Behind, At
  <2>7. count' \in Nat
    BY <1>2, <1>3, <2>5 DEF Typed
  <2> QED
    BY <2>1, <2>4, <2>6, <2>7, TallyMoved, Zenon DEF Serial
<1> QED
  BY <1>4, <1>5, <1>6

(* processRemoveMember up to its recount. *)
LEMMA RemoveTally ==
  ASSUME Base, Serial, Tally, NEW w \in Workers,
         \/ RemoveMember(w) \/ GetUserWithMembership(w) \/ DeleteRoomMember(w) \/ RemoveRole(w)
         \/ DeleteSubscription(w) \/ GetOrgMembers(w) \/ DeleteOrgRow(w)
  PROVE  Tally'
<1>1. job \in [Workers -> JobType]
  BY DEF Base, Typed
<1>2. CASE RemoveMember(w) \/ GetUserWithMembership(w) \/ GetOrgMembers(w)
  <2>1. job[w].pc \in {"remove", "removeOrg", "rmLoad", "orgLoad"}
    BY <1>2, Zenon DEF RemoveMember, GetUserWithMembership, GetOrgMembers, At
  <2>2. UNCHANGED <<subs, count, drift>>
    BY <1>2, Zenon DEF RemoveMember, GetUserWithMembership, GetOrgMembers, room
  <2>3. PICK p \in {"rmLoad", "orgLoad", "rmRow", "orgRow", "orgSubs"} :
          \/ \E q : job' = [job EXCEPT ![w].pc = p, ![w].pair = q]
          \/ \E f, n : job' = [job EXCEPT ![w].pc = p, ![w].flag = f, ![w].new = n]
          \/ \E n : job' = [job EXCEPT ![w].new = n, ![w].pc = p]
    <3>1. CASE RemoveMember(w)
      <4>1. (IF job[w].pc = "remove" THEN "rmLoad" ELSE "orgLoad") \in {"rmLoad", "orgLoad"}
        BY Zenon
      <4>2. job' = [job EXCEPT ![w].pc = (IF job[w].pc = "remove" THEN "rmLoad" ELSE "orgLoad"), ![w].pair = key]
        BY <3>1 DEF RemoveMember
      <4> QED
        BY <4>1, <4>2, Zenon
    <3>2. CASE GetUserWithMembership(w)
      BY <3>2, Zenon DEF GetUserWithMembership
    <3>3. CASE GetOrgMembers(w)
      BY <3>3, Zenon DEF GetOrgMembers
    <3> QED
      BY <1>2, <3>1, <3>2, <3>3, Zenon
  <2>4. Moved(w) /\ job'[w].pc = p
    <3>1. ASSUME NEW q, job' = [job EXCEPT ![w].pc = p, ![w].pair = q] PROVE Moved(w) /\ job'[w].pc = p
      BY <1>1, <3>1 DEF Moved, JobType
    <3>2. ASSUME NEW f, NEW n, job' = [job EXCEPT ![w].pc = p, ![w].flag = f, ![w].new = n]
          PROVE  Moved(w) /\ job'[w].pc = p
      BY <1>1, <3>2 DEF Moved, JobType
    <3>3. ASSUME NEW n, job' = [job EXCEPT ![w].new = n, ![w].pc = p] PROVE Moved(w) /\ job'[w].pc = p
      BY <1>1, <3>3 DEF Moved, JobType
    <3> QED
      BY <2>3, <3>1, <3>2, <3>3, Zenon
  <2> QED
    BY <2>1, <2>2, <2>3, <2>4, TallySame, Zenon DEF Uncounted, Behind
<1>3. CASE DeleteRoomMember(w) \/ RemoveRole(w)
  <2>1. job[w].pc \in {"rmRow", "rmRole"}
    BY <1>3, Zenon DEF DeleteRoomMember, RemoveRole, At
  <2>2. UNCHANGED <<subs, count, drift>>
    BY <1>3, Zenon DEF DeleteRoomMember, RemoveRole
  <2>3. Ack(w) \/ Nak(w) \/ \E p \in {"rmRole", "rmSub"} : Goto(w, p)
    BY <1>3, Zenon DEF DeleteRoomMember, RemoveRole
  <2>4. (Moved(w) \/ Ended(w)) /\ job'[w].pc \in {"idle", "rmRole", "rmSub"}
    <3>1. CASE Ack(w) \/ Nak(w)
      BY <1>1, <3>1, NoStep DEF Ack, Nak, Ended
    <3>2. CASE \E p \in {"rmRole", "rmSub"} : Goto(w, p)
      BY <1>1, <3>2 DEF Goto, Moved, JobType
    <3> QED
      BY <2>3, <3>1, <3>2, Zenon
  <2> QED
    BY <2>1, <2>2, <2>4, TallySame, Zenon DEF Uncounted, Behind
<1>4. CASE DeleteSubscription(w) \/ DeleteOrgRow(w)
  <2>1. job[w].pc \in {"rmSub", "orgSubs", "orgRow"} /\ count' = count
    BY <1>4, Zenon DEF DeleteSubscription, DeleteOrgRow, At
  <2>2. PICK p \in {"orgRow", "count"} : Goto(w, p)
    BY <1>4, Zenon DEF DeleteSubscription, DeleteOrgRow
  <2>3. Moved(w) /\ job'[w].pc = p
    BY <1>1, <2>2 DEF Moved, Goto, JobType
  <2> QED
    BY <2>1, <2>2, <2>3, TallyLater, Zenon
<1> QED
  BY <1>2, <1>3, <1>4

(* The rotation does not count. *)
LEMMA RotateTally ==
  ASSUME Base, Serial, Tally, NEW w \in Workers,
         GetSubscriptionAccounts(w) \/ CommitRotation(w) \/ FanOutKey(w)
  PROVE  Tally'
<1>1. job \in [Workers -> JobType]
  BY DEF Base, Typed
<1>2. job[w].pc \in {"survivors", "rotate", "fanOut"}
  BY Zenon DEF GetSubscriptionAccounts, CommitRotation, FanOutKey, At
<1>3. UNCHANGED <<subs, count, drift>>
  BY Zenon DEF GetSubscriptionAccounts, CommitRotation, FanOutKey, room
<1>4. PICK p \in {"rotate", "fanOut", "publish"} :
        \/ Goto(w, p)
        \/ \E q : job' = [job EXCEPT ![w].pc = p, ![w].pair = q]
        \/ \E q : job' = [job EXCEPT ![w].pc = p, ![w].rows = q]
  BY Zenon DEF GetSubscriptionAccounts, CommitRotation, FanOutKey
<1>5. Moved(w) /\ job'[w].pc = p
  BY <1>1, <1>4 DEF Moved, Goto, JobType
<1> QED
  BY <1>2, <1>3, <1>4, <1>5, TallySame DEF Uncounted, Behind

(* Nor does its archive write. *)
LEMMA ArchiveTally ==
  ASSUME Tally, NEW w \in Workers, ArchiveDemoted(w)
  PROVE  Tally'
<1>1. UNCHANGED <<job, subs, count, drift>>
  BY Zenon DEF ArchiveDemoted, room
<1> QED
  BY <1>1, Zenon DEF Tally, Counted, At

(* The end of the handlers: a failed call is remembered in drift. *)
LEMMA EndTally ==
  ASSUME Base, Serial, Tally, NEW w \in Workers, Publish(w) \/ Fail(w) \/ BulkFails(w)
  PROVE  Tally'
<1>1. job \in [Workers -> JobType]
  BY DEF Base, Typed
<1>2. job[w].pc # "idle"
  <2>1. CASE Publish(w) \/ BulkFails(w)
    BY <2>1, Zenon DEF Publish, BulkFails, At
  <2>2. CASE Fail(w)
    BY <2>2, Zenon DEF Fail, Base, Belongs
  <2> QED
    BY <2>1, <2>2
<1>3. Ended(w)
  <2>1. Ack(w) \/ Nak(w)
    BY Zenon DEF Publish, Fail, BulkFails
  <2> QED
    BY <1>1, <2>1, EndedNow, Zenon
<1>4. count' = count /\ (drift' \/ Publish(w))
  BY Zenon DEF Publish, Fail, BulkFails, room
<1>5. Publish(w) => UNCHANGED <<subs, drift>> /\ job[w].pc = "publish"
  BY Zenon DEF Publish, room, At
<1>6. Publish(w) /\ ~drift' => count' = Cardinality(subs')
  BY <1>2, <1>4, <1>5, Zenon DEF Tally, Counted, Uncounted, Behind
<1> QED
  BY <1>2, <1>3, <1>4, <1>6, TallyEnded, Zenon DEF Serial, Tally
-----------------------------------------------------------------------------
(* Every step preserves it, with one worker. *)
LEMMA NextTally ==
  ASSUME AccountsCount, Base, Serial, Tally, workers = 1, [Next]_vars
  PROVE  Tally'
<1>1. ASSUME NEW w \in Workers, Step(w) PROVE Tally'
  <2>1. CASE \/ CreateRoom(w) \/ ExistingRoomKey(w) \/ ExistingRoomSet(w) \/ CreateSubs(w)
             \/ CreateRows(w) \/ CreateCrossSite(w)
    BY <2>1, CreateTally, Zenon
  <2>2. CASE \/ LoadAddMemberInputs(w) \/ KeyPairOrHeal(w) \/ Heal(w) \/ AddSubs(w) \/ Backfill(w)
             \/ AddRows(w) \/ BulkFails(w) \/ ApplyMemberCountDelta(w) \/ SubscriptionAdded(w)
    BY <2>2, LoadTally, AddTally, AddSubsTally, EndTally, CountTally, Zenon
  <2>3. CASE \/ RemoveMember(w) \/ GetUserWithMembership(w) \/ DeleteRoomMember(w) \/ RemoveRole(w)
             \/ DeleteSubscription(w) \/ GetOrgMembers(w) \/ DeleteOrgRow(w)
             \/ GetSubscriptionAccounts(w) \/ CommitRotation(w) \/ ArchiveDemoted(w) \/ FanOutKey(w)
    BY <2>3, RemoveTally, RotateTally, ArchiveTally, Zenon
  <2>4. CASE ReconcileCount(w) \/ ReconcileWrite(w) \/ Publish(w)
    BY <2>4, CountTally, EndTally, Zenon
  <2> QED
    BY <1>1, <2>1, <2>2, <2>3, <2>4, Zenon DEF Step
<1>2. CASE \E w \in Workers : Fail(w)
  BY <1>2, EndTally, Zenon
<1>3. CASE (\E i \in DOMAIN state : Submit(i)) \/ EnsureGet \/ EnsureSet \/ UNCHANGED vars
  <2>1. UNCHANGED <<job, subs, count, drift>>
    BY <1>3, Zenon DEF Submit, EnsureGet, EnsureSet, vars, room
  <2> QED
    BY <2>1, Zenon DEF Tally, Counted, At
<1>4. ASSUME NEW w \in Workers, NEW i \in DOMAIN state, Deliver(w, i) PROVE Tally'
  <2>1. \A v \in Workers : job[v] = Idle
    BY <1>4, DeliverAlone, Zenon
  <2>2. ~drift => count = Cardinality(subs)
    BY <2>1, NoStep, Zenon DEF Tally
  <2>3. UNCHANGED <<subs, count, drift>> /\ job' = [job EXCEPT ![w].m = i, ![w].pc = scen.reqs[i].op]
    BY <1>4, Zenon DEF Deliver, room
  <2>4. job \in [Workers -> JobType] /\ scen.reqs[i] \in Requests
    <3>1. Typed /\ job \in [Workers -> JobType] /\ i \in DOMAIN scen.reqs
      BY Zenon DEF Base, Typed
    <3> QED
      BY <3>1, Asked, Zenon
  <2>5. job'[w].pc = scen.reqs[i].op /\ \A v \in Workers : v # w => job'[v] = job[v]
    BY <2>3, <2>4 DEF JobType
  <2>6. job'[w].pc \in {"create", "add", "remove", "removeOrg"}
    BY <2>4, <2>5 DEF Requests
  <2>7. \A v \in Workers : job'[v].pc # "idle" => v = w
    BY <2>1, <2>5, NoStep
  <2>8. Counted(w)'
    BY <2>2, <2>3, <2>6, Zenon DEF Counted, Uncounted, Behind, At
  <2> QED
    BY <2>2, <2>3, <2>7, <2>8, Zenon DEF Tally
<1> QED
  BY <1>1, <1>2, <1>3, <1>4, Zenon DEF Next, Rest

(* It holds initially. *)
LEMMA InitTally == AccountsCount /\ Init => Tally
<1> SUFFICES ASSUME AccountsCount, Init PROVE Tally
  OBVIOUS
<1>1. count = Cardinality(subs) /\ subs \subseteq Accounts /\ \A w \in Workers : job[w].pc = "idle"
  BY ScenariosAssumption, NoStep, Zenon DEF Init
<1>2. count \in Nat
  BY <1>1, Zenon DEF AccountsCount
<1> QED
  BY <1>1, <1>2, Zenon DEF Tally
=============================================================================
