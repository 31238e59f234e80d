-------------------------- MODULE RoomMembersProofs --------------------------
(***************************************************************************)
(* Proofs about RoomMembers for any set of accounts, goroutines, requests  *)
(* and failures: a room is marked cross-site before its remote members are *)
(* told, the room key implements KeyLedger, and every key that was sent    *)
(* can be had back by its version.                                         *)
(*                                                                         *)
(* None of the three is inductive.  Base gives the first.  KeyInv ties the *)
(* current key, the archive and the pairs the jobs are carrying to the     *)
(* ledger; it is preserved only where nobody overwrites a key: see         *)
(* Provisioned.                                                            *)
(*                                                                         *)
(* The last part is for one worker, and used in RoomSerialProofs: every    *)
(* step preserves Custody, which names for everybody who left with the     *)
(* current key the removal, running or waiting for its redelivery, that    *)
(* replaces it, and for every member without it the handler that sends it. *)
(***************************************************************************)
EXTENDS RoomSerial, TLAPS

(* The pairs of the ledger s. *)
IssuedIn(s) == {[ver |-> v - 1, secret |-> s[v]] : v \in 1..Len(s)}

(* No creation and no key.ensure meets a room that exists without a key: these two
   read the key and then write version 0, over whatever was written in between. *)
Provisioned ==
  \A s \in Scenarios :
    s.room.exists /\ s.room.key = NoKey =>
      ~s.ensure /\ \A i \in DOMAIN s.reqs : s.reqs[i].op # "create"

Legacy(s) == s.room.exists /\ s.room.key = NoKey

(* The pairs in the archive, and on their way there, were issued; and every issued
   one is the current one, archived, in the previous slot, or was dropped. *)
Archived ==
  /\ retired \subseteq IssuedIn(issued)
  /\ archiving \in [Workers -> IssuedIn(issued) \cup {NoKey}]
  /\ \A p \in IssuedIn(issued) : p = key \/ p \in retired \cup Previous \/ p.ver \in dropped

(* The current key is the last entry of the ledger; the older ones are accounted
   for (Archived); and only a room from before keys has none. *)
Store ==
  /\ issued \in Seq(Nat)
  /\ \A v \in 1..Len(issued) : issued[v] <= minted
  /\ key = NoKey => issued = <<>>
  /\ key # NoKey => Len(issued) = key.ver + 1 /\ issued[key.ver + 1] = key.secret
  /\ Archived
  /\ ~exists => key = NoKey
  /\ exists /\ key = NoKey => Legacy(scen)

(* The RPC key.ensure is not about to write. *)
Provisioning ==
  /\ ensure # "absent"
  /\ ensure = "unsent" => scen.ensure

(* The pair a job is going to send was issued. *)
Paired(j, reqs, pairs) ==
  /\ j.pc # "createSet"
  /\ j.pc \in {"createSubs", "createRows", "addSubs", "fanOut"} => j.pair \in pairs
  /\ \/ j.pc \in {"cross", "addList", "addRows", "addCount", "told"}
     \/ j.pc \in {"count", "recount"} /\ reqs[j.m].op \in {"create", "add"}
     => j.new = {} \/ j.pair \in pairs

KeyInv ==
  /\ Store
  /\ Provisioning
  /\ held \in [Accounts -> SUBSET IssuedIn(issued)]
  /\ \A w \in Workers : Paired(job[w], scen.reqs, IssuedIn(issued))

LedgerStep == [Ledger!Issue \/ Ledger!Send]_<<issued, held>>

(* What every step has to show. *)
Preserved == Base' /\ (Provisioned /\ KeyInv => KeyInv' /\ LedgerStep)
-----------------------------------------------------------------------------
(* The requests of a scenario are requests. *)
LEMMA ReqType == ASSUME Typed, NEW i \in DOMAIN scen.reqs PROVE scen.reqs[i] \in Requests /\ i \in Nat
BY ScenariosAssumption DEF Typed

(* The members of organisations are accounts. *)
LEMMA MembersType == ASSUME NEW os PROVE MembersOf(os) \subseteq Accounts
BY DEF MembersOf

(* An idle goroutine is well-formed. *)
LEMMA IdleJob == Idle \in JobType
BY DEF Idle, JobType, Steps, SharedSteps, Counts

(* It is told by its program counter. *)
LEMMA IdlePc == Idle.pc = "idle"
BY DEF Idle

(* Nor does it carry a pair. *)
LEMMA IdlePair == Idle.pair = NoKey
BY DEF Idle

(* Failures add up. *)
LEMMA NatSum == ASSUME NEW m \in Nat, NEW n \in Nat PROVE m + n \in Nat /\ (m + n = 0 => m = 0 /\ n = 0)
OBVIOUS

(* Both invariants hold initially. *)
LEMMA InitBase == Init => Base
<1> SUFFICES ASSUME Init PROVE Base
  OBVIOUS
<1>2. Typed
  BY IdleJob, ScenariosAssumption DEF Init, Typed, Pairs, Places
<1>3. ASSUME NEW w \in Workers PROVE Belongs(job[w], scen.reqs, exists, crossSite)
  BY DEF Init, Belongs, Adding, Idle, CreateSteps, AddSteps, RemoveSteps
<1>4. RoomFirst(scen.reqs, state, exists)
  BY DEF Init, RoomFirst
<1> QED
  BY <1>2, <1>3, <1>4 DEF Base

(* The initial key, if any, is the whole ledger. *)
LEMMA InitKeys == Init => KeyInv
<1> SUFFICES ASSUME Init PROVE KeyInv
  OBVIOUS
<1>1. key \in {NoKey, [ver |-> 0, secret |-> 1]} /\ (~exists => key = NoKey)
  BY ScenariosAssumption DEF Init
<1>2. CASE key = NoKey
  <2>1. issued = <<>> /\ IssuedIn(issued) = {}
    BY <1>2 DEF Init, IssuedIn
  <2>2. Store
    BY <1>2, <2>1 DEF Init, Store, Legacy, Archived
  <2>3. held \in [Accounts -> SUBSET IssuedIn(issued)]
    BY <1>2, <2>1 DEF Init
  <2> QED
    BY <2>2, <2>3, Zenon DEF KeyInv, Init, Provisioning, Paired, Idle
<1>3. CASE key = [ver |-> 0, secret |-> 1]
  <2>0. key # NoKey
    BY <1>3, NoKeyAssumption
  <2>1. issued = <<1>> /\ minted = 1 /\ IssuedIn(issued) = {key}
    BY <1>3, <2>0 DEF Init, IssuedIn
  <2>2. Store
    BY <1>1, <1>3, <2>0, <2>1 DEF Init, Store, Legacy, Archived
  <2>3. held \in [Accounts -> SUBSET IssuedIn(issued)]
    BY <2>0, <2>1 DEF Init
  <2> QED
    BY <2>2, <2>3 DEF KeyInv, Init, Provisioning, Paired, Idle
<1> QED
  BY <1>1, <1>2, <1>3
-----------------------------------------------------------------------------
(* The keys and the room are left alone. *)
LEMMA StoreStays == ASSUME Store, UNCHANGED <<scen, exists, keys>> PROVE Store'
<1>1. UNCHANGED <<key, retired, minted, issued, dropped, archiving>>
  BY DEF keys
<1>2. Archived'
  BY <1>1, Zenon DEF Store, Archived, Previous
<1> QED
  BY <1>1, <1>2, Zenon DEF Store, Legacy

(* The first pair of a room. *)
LEMMA FirstArchived ==
  ASSUME Store, IssuedIn(issued) = {}, IssuedIn(issued') = {key'}, UNCHANGED <<retired, archiving>>
  PROVE  Archived'
BY Zenon DEF Store, Archived

(* What every step of one goroutine has to show about its next job j. *)
LEMMA MoveBase ==
  ASSUME Base, NEW w \in Workers, NEW j \in JobType, job' = [job EXCEPT ![w] = j],
         scen' = scen, state' = state, subs' \subseteq Accounts,
         key' \in Pairs \cup {NoKey}, minted' \in Nat,
         exists => exists', exists /\ crossSite => crossSite',
         Belongs(j, scen.reqs, exists', crossSite')
  PROVE  Base'
<1>1. Typed'
  BY DEF Base, Typed
<1>2. ASSUME NEW v \in Workers PROVE Belongs(job'[v], scen.reqs, exists', crossSite')
  <2>1. CASE v = w
    BY <2>1 DEF Base, Typed
  <2>2. CASE v # w
    <3>1. job'[v] = job[v] /\ Belongs(job[v], scen.reqs, exists, crossSite)
      BY <2>2 DEF Base, Typed
    <3>2. Adding(job[v], scen.reqs) => job[v].pc \notin {"idle", "create"}
      BY DEF Adding
    <3> QED
      BY <3>1, <3>2, Zenon DEF Belongs
  <2> QED
    BY <2>1, <2>2
<1>3. RoomFirst(scen.reqs, state', exists')
  BY DEF Base, RoomFirst
<1> QED
  BY <1>1, <1>2, <1>3 DEF Base

(* The same for the keys. *)
LEMMA MoveKeys ==
  ASSUME Typed, KeyInv, NEW w \in Workers, NEW j \in JobType, job' = [job EXCEPT ![w] = j],
         UNCHANGED <<scen, ensure>>, Store', IssuedIn(issued) \subseteq IssuedIn(issued'),
         held' \in [Accounts -> SUBSET IssuedIn(issued')],
         Paired(j, scen.reqs, IssuedIn(issued'))
  PROVE  KeyInv'
<1>1. ASSUME NEW v \in Workers PROVE Paired(job'[v], scen.reqs, IssuedIn(issued'))
  <2>1. CASE v = w
    BY <2>1 DEF Typed
  <2>2. CASE v # w
    <3>1. job'[v] = job[v] /\ Paired(job[v], scen.reqs, IssuedIn(issued))
      BY <2>2 DEF Typed, KeyInv
    <3> QED
      BY <3>1, Zenon DEF Paired
  <2> QED
    BY <2>1, <2>2
<1>2. Provisioning'
  BY DEF KeyInv, Provisioning
<1> QED
  BY <1>1, <1>2 DEF KeyInv

(* A step that leaves the keys and the requests alone. *)
LEMMA MoveOn ==
  ASSUME Base, NEW w \in Workers, NEW j \in JobType, job' = [job EXCEPT ![w] = j],
         UNCHANGED <<scen, state, exists, keys, held, ensure>>,
         subs' \subseteq Accounts, crossSite => crossSite',
         Belongs(j, scen.reqs, exists, crossSite'),
         Provisioned /\ KeyInv => Paired(j, scen.reqs, IssuedIn(issued))
  PROVE  Preserved
<1>1. Base'
  BY MoveBase, Zenon DEF keys, Base, Typed
<1>2. ASSUME Provisioned, KeyInv PROVE KeyInv'
  <2>1. Store'
    BY <1>2, StoreStays, Zenon DEF KeyInv
  <2> QED
    BY <1>2, <2>1, MoveKeys, ZenonT(60) DEF keys, Base, KeyInv
<1>3. LedgerStep
  BY DEF LedgerStep, keys
<1> QED
  BY <1>1, <1>2, <1>3 DEF Preserved

(* The end of a handler. *)
LEMMA MoveOff ==
  ASSUME Base, NEW w \in Workers, job[w] # Idle, Ack(w) \/ Nak(w),
         UNCHANGED <<scen, exists, key, minted, issued, held, ensure>>, Store => Store',
         subs' \subseteq Accounts, crossSite => crossSite'
  PROVE  Preserved
<1>1. job' = [job EXCEPT ![w] = Idle] /\ Idle \in JobType
  BY IdleJob DEF Ack, Nak
<1>2. PICK s \in {"done", "retry"} : state' = [state EXCEPT ![job[w].m] = s]
  BY DEF Ack, Nak
<1>3. Typed'
  BY <1>1, <1>2, Zenon DEF Base, Typed, Places
<1>4. RoomFirst(scen.reqs, state', exists)
  <2>1. job[w].pc # "idle" /\ Belongs(job[w], scen.reqs, exists, crossSite)
    BY Zenon DEF Base, Belongs
  <2>2. scen.reqs[job[w].m].op # "create" => exists
    BY <2>1, Zenon DEF Belongs, CreateSteps
  <2> QED
    BY <1>2, <2>2, Zenon DEF Base, Typed, RoomFirst
<1>5. ASSUME NEW v \in Workers PROVE Belongs(job'[v], scen.reqs, exists, crossSite')
  <2>1. CASE v = w
    BY <1>1, <2>1, Zenon DEF Base, Typed, Belongs, Adding, Idle, CreateSteps, AddSteps, RemoveSteps
  <2>2. CASE v # w
    BY <1>1, <2>2, Zenon DEF Base, Typed, Belongs
  <2> QED
    BY <2>1, <2>2, Zenon
<1>6. Base'
  BY <1>3, <1>4, <1>5, Zenon DEF Base
<1>7. ASSUME Provisioned, KeyInv PROVE KeyInv'
  <2>1. Store'
    BY <1>7, Zenon DEF KeyInv
  <2>2. Paired(Idle, scen.reqs, IssuedIn(issued))
    BY Zenon DEF Paired, Idle
  <2> QED
    BY <1>1, <1>7, <2>1, <2>2, MoveKeys, Zenon DEF Base, KeyInv
<1>8. LedgerStep
  BY DEF LedgerStep
<1> QED
  BY <1>6, <1>7, <1>8 DEF Preserved
-----------------------------------------------------------------------------
(* Writing the next version appends to the ledger. *)
LEMMA InstallNext ==
  ASSUME Typed, Store, NEW p, p = [ver |-> Len(issued), secret |-> Fresh], Install(p), held' = held
  PROVE  /\ key' = p /\ p \in Pairs /\ minted' = minted + 1 /\ minted' \in Nat
         /\ issued' \in Seq(Nat)
         /\ Len(issued') = p.ver + 1 /\ issued'[p.ver + 1] = p.secret
         /\ \A v \in 1..Len(issued') : issued'[v] <= minted'
         /\ IssuedIn(issued') = IssuedIn(issued) \cup {p}
         /\ Ledger!Issue
<1>1. issued \in Seq(Nat) /\ minted \in Nat /\ Fresh = minted + 1 /\ Fresh \in Nat
  BY DEF Typed, Store, Fresh
<1>2. key' = p /\ minted' = minted + 1 /\ issued' = Append(issued, Fresh)
  BY DEF Install
<1>3. /\ issued' \in Seq(Nat) /\ Len(issued') = Len(issued) + 1
      /\ issued'[Len(issued) + 1] = Fresh
      /\ \A v \in 1..Len(issued) : issued'[v] = issued[v]
  BY <1>1, <1>2
<1>4. Len(issued) \in Nat /\ p \in Pairs
  BY <1>1 DEF Pairs
<1>5. \A v \in 1..Len(issued) : issued[v] \in Nat /\ issued[v] <= minted
  BY <1>1 DEF Store
<1>6. \A v \in 1..Len(issued') : issued'[v] <= minted'
  BY <1>1, <1>2, <1>3, <1>4, <1>5
<1>7. IssuedIn(issued') = IssuedIn(issued) \cup {p}
  <2>1. ASSUME NEW q \in IssuedIn(issued') PROVE q \in IssuedIn(issued) \cup {p}
    <3>1. PICK v \in 1..Len(issued') : q = [ver |-> v - 1, secret |-> issued'[v]]
      BY Zenon DEF IssuedIn
    <3>2. CASE v \in 1..Len(issued)
      BY <1>3, <3>1, <3>2, Zenon DEF IssuedIn
    <3>3. CASE v = Len(issued) + 1
      BY <1>3, <1>4, <3>1, <3>3
    <3> QED
      BY <1>3, <1>4, <3>1, <3>2, <3>3
  <2>2. ASSUME NEW q \in IssuedIn(issued) PROVE q \in IssuedIn(issued')
    <3>1. PICK v \in 1..Len(issued) : q = [ver |-> v - 1, secret |-> issued[v]]
      BY DEF IssuedIn
    <3> QED
      BY <1>3, <1>4, <3>1, SMTT(60) DEF IssuedIn
  <2>3. p \in IssuedIn(issued')
    <3>1. Len(issued) + 1 \in 1..Len(issued') /\ (Len(issued) + 1) - 1 = Len(issued)
      BY <1>3, <1>4
    <3> QED
      BY <1>3, <3>1, Zenon DEF IssuedIn
  <2> QED
    BY <2>1, <2>2, <2>3
<1>8. Ledger!Issue
  <2>1. SubSeq(issued', 1, Len(issued)) = issued
    BY <1>1, <1>3, <1>4
  <2>2. \A v \in 1..Len(issued) : issued[v] # issued'[Len(issued')]
    BY <1>1, <1>3, <1>4, <1>5
  <2> QED
    BY <1>3, <2>1, <2>2 DEF Ledger!Issue
<1> QED
  BY <1>1, <1>2, <1>3, <1>4, <1>6, <1>7, <1>8

(* The current key is the last entry of the ledger. *)
LEMMA CurrentIssued ==
  ASSUME Typed, Store, key # NoKey
  PROVE  key \in Pairs /\ key \in IssuedIn(issued) /\ Len(issued) = key.ver + 1
<1>1. key \in Pairs
  BY DEF Typed
<1>2. key = [ver |-> (key.ver + 1) - 1, secret |-> issued[key.ver + 1]] /\ key.ver + 1 \in 1..Len(issued)
  BY <1>1, SMTT(60) DEF Store, Pairs
<1> QED
  BY <1>1, <1>2 DEF IssuedIn, Store

(* SetIfAbsent leaves the pair it returns in the room. *)
LEMMA SetIfAbsentKeeps ==
  ASSUME Typed, Store, exists, SetIfAbsent, UNCHANGED <<scen, exists, held>>
  PROVE  /\ Store' /\ Settled \in IssuedIn(issued') /\ Settled \in Pairs
         /\ IssuedIn(issued) \subseteq IssuedIn(issued') /\ LedgerStep
<1>1. CASE key = NoKey
  <2>1. Len(issued) = 0 /\ IssuedIn(issued) = {}
    BY <1>1 DEF Store, IssuedIn
  <2>2. Settled = [ver |-> Len(issued), secret |-> Fresh] /\ Install(Settled)
    BY <1>1, <2>1 DEF Settled, SetIfAbsent
  <2>3. /\ key' = Settled /\ Settled \in Pairs
        /\ issued' \in Seq(Nat)
        /\ Len(issued') = Settled.ver + 1 /\ issued'[Settled.ver + 1] = Settled.secret
        /\ \A v \in 1..Len(issued') : issued'[v] <= minted'
        /\ IssuedIn(issued') = {Settled}
        /\ Ledger!Issue
    BY <2>1, <2>2, InstallNext, Zenon
  <2>4. Archived' /\ key' # NoKey
    <3>1. UNCHANGED <<retired, archiving>>
      BY DEF SetIfAbsent
    <3>2. Settled # NoKey
      BY <2>3, NoKeyAssumption DEF Pairs
    <3> QED
      BY <2>1, <2>3, <3>1, <3>2, FirstArchived, Zenon
  <2>5. Store'
    BY <2>3, <2>4 DEF Store
  <2> QED
    BY <2>1, <2>3, <2>5 DEF LedgerStep
<1>2. CASE key # NoKey
  <2>1. UNCHANGED keys /\ Settled = key /\ key \in Pairs
    BY <1>2 DEF SetIfAbsent, Settled, keys, Typed
  <2>2. key \in IssuedIn(issued)
    BY <1>2, CurrentIssued
  <2>3. Store'
    BY <2>1, StoreStays, Zenon
  <2> QED
    BY <2>1, <2>2, <2>3 DEF LedgerStep, keys
<1> QED
  BY <1>1, <1>2
-----------------------------------------------------------------------------
(* A version was issued once. *)
LEMMA OneVersion ==
  ASSUME NEW p \in IssuedIn(issued), NEW q \in IssuedIn(issued), q.ver = p.ver
  PROVE  q = p
<1>1. PICK v \in 1..Len(issued) : q = [ver |-> v - 1, secret |-> issued[v]]
  BY Zenon DEF IssuedIn
<1>2. PICK u \in 1..Len(issued) : p = [ver |-> u - 1, secret |-> issued[u]]
  BY Zenon DEF IssuedIn
<1>3. v = u
  <2>1. q.ver = v - 1 /\ p.ver = u - 1
    BY <1>1, <1>2, Zenon
  <2> QED
    BY <1>1, <1>2, <2>1
<1> QED
  BY <1>1, <1>2, <1>3, Zenon

(* A version is pending while some goroutine has to archive it. *)
LEMMA Pending ==
  ASSUME NEW ws, NEW v \in ws, archiving[v] # NoKey
  PROVE  archiving[v].ver \in PendingAt(ws)
BY Zenon DEF PendingAt

(* A handler that fails before its archive write drops the version. *)
LEMMA FailKeeps ==
  ASSUME Store, NEW w \in Workers, Fail(w)
  PROVE  Store'
<1>1. /\ UNCHANGED <<scen, exists, key, retired, minted, issued>>
      /\ dropped' = dropped \cup PendingAt({w})
      /\ archiving' = [archiving EXCEPT ![w] = NoKey]
  BY Zenon DEF Fail, room
<1>2. archiving' \in [Workers -> IssuedIn(issued) \cup {NoKey}]
  BY <1>1, Zenon DEF Store, Archived
<1>3. ASSUME NEW p \in Previous PROVE p \in Previous' \/ p.ver \in dropped'
  <2>1. PICK v \in Workers : archiving[v] = p /\ p # NoKey /\ p.ver + 1 = key.ver
    BY <1>3, Zenon DEF Previous
  <2>2. CASE v = w
    BY <1>1, <2>1, <2>2, Pending, Zenon
  <2>3. CASE v # w
    <3>1. archiving'[v] = p
      BY <1>1, <2>1, <2>3, Zenon DEF Store, Archived
    <3> QED
      BY <1>1, <2>1, <3>1, Zenon DEF Previous
  <2> QED
    BY <2>2, <2>3, Zenon
<1>4. Archived'
  BY <1>1, <1>2, <1>3, Zenon DEF Store, Archived
<1> QED
  BY <1>1, <1>4, Zenon DEF Store, Legacy
-----------------------------------------------------------------------------
(* The invariants, for one goroutine. *)
LEMMA JobFacts ==
  ASSUME Base, NEW w \in Workers
  PROVE  /\ job[w] \in JobType /\ Belongs(job[w], scen.reqs, exists, crossSite)
         /\ KeyInv => Paired(job[w], scen.reqs, IssuedIn(issued))
         /\ job[w].pc # "idle" => Req(w) \in Requests
         /\ Typed
BY ReqType, Zenon DEF Base, Typed, Belongs, Req, KeyInv

(* processCreateRoom, once the room is there. *)
LEMMA CreatePreserves ==
  ASSUME Base, NEW w \in Workers,
         ExistingRoomKey(w) \/ CreateSubs(w) \/ CreateRows(w) \/ CreateCrossSite(w)
  PROVE  Preserved
<1>0. /\ job[w] \in JobType /\ Belongs(job[w], scen.reqs, exists, crossSite) /\ Typed
      /\ KeyInv => Paired(job[w], scen.reqs, IssuedIn(issued))
      /\ job[w].pc # "idle" => Req(w) \in Requests
  BY JobFacts, Zenon
<1>1. job[w] \in JobType
  BY <1>0, Zenon
<1>2. CASE ExistingRoomKey(w) /\ key = NoKey
  <2> DEFINE j == [job[w] EXCEPT !.pc = "createSet"]
  <2>1. job' = [job EXCEPT ![w] = j]
    BY <1>2 DEF ExistingRoomKey, Goto
  <2>3. "createSet" \in Steps
    BY DEF Steps, SharedSteps, CreateSteps, AddSteps, RemoveSteps
  <2>4. j \in JobType /\ j.m = job[w].m /\ j.pc = "createSet"
        /\ j.new = job[w].new /\ j.pair = job[w].pair
    BY <2>3, <1>1 DEF JobType
  <2> HIDE DEF j
  <2>5. Belongs(j, scen.reqs, exists, crossSite)
    BY <1>2, <2>4, <1>0, Zenon
    DEF ExistingRoomKey, At, Req, Belongs, Adding, CreateSteps, AddSteps, RemoveSteps
  <2>6. Provisioned /\ KeyInv => Paired(j, scen.reqs, IssuedIn(issued))
    BY <1>2, <2>4, <1>0, Zenon
    DEF ExistingRoomKey, At, Req, Paired, KeyInv, Store, Provisioned, Legacy, Typed, Belongs, CreateSteps
  <2> QED
    BY <1>2, <2>1, <2>4, <2>5, <2>6, MoveOn, <1>0, Zenon DEF ExistingRoomKey, room, Typed
<1>3. CASE ExistingRoomKey(w) /\ key # NoKey
  <2> DEFINE q == key
             j == [job[w] EXCEPT !.pc = "createSubs", !.pair = q]
  <2>1. job' = [job EXCEPT ![w] = j]
    BY <1>3, Zenon DEF ExistingRoomKey, Goto
  <2>2. q \in Pairs \cup {NoKey} /\ q = key
    BY <1>3, <1>0 DEF ExistingRoomKey, Typed
  <2> HIDE DEF q
  <2>3. "createSubs" \in Steps
    BY <2>2 DEF Steps, SharedSteps, CreateSteps, AddSteps, RemoveSteps
  <2>4. j \in JobType /\ j.m = job[w].m /\ j.pc = "createSubs" /\ j.new = job[w].new /\ j.pair = q
    BY <2>2, <2>3, <1>1, Zenon DEF JobType
  <2> HIDE DEF j
  <2>5. Belongs(j, scen.reqs, exists, crossSite)
    BY <1>3, <2>2, <2>4, <1>0, Zenon
    DEF ExistingRoomKey, At, Req, Belongs, Adding, CreateSteps, AddSteps, RemoveSteps
  <2>6. Provisioned /\ KeyInv => Paired(j, scen.reqs, IssuedIn(issued))
    BY <1>3, <2>2, <2>4, <1>0, CurrentIssued, Zenon
    DEF ExistingRoomKey, At, Req, Paired, KeyInv, Typed
  <2> QED
    BY <1>3, <2>2, <2>1, <2>4, <2>5, <2>6, MoveOn, <1>0, Zenon DEF ExistingRoomKey, room, Typed
<1>4. CASE CreateSubs(w)
  <2> DEFINE n == {Req(w).by} \cup Req(w).users \cup MembersOf(Req(w).orgs)
             p == IF Req(w).orgs = {} THEN "count" ELSE "createRows"
             j == [job[w] EXCEPT !.new = n, !.pc = p]
  <2>1. job' = [job EXCEPT ![w] = j]
    BY <1>4, Zenon DEF CreateSubs, Goto
  <2>2. n \in SUBSET Accounts /\ p \in {"count", "createRows"} /\ subs' = subs \cup n
    BY <1>4, <1>0, MembersType DEF CreateSubs, At, Requests
  <2> HIDE DEF n, p
  <2>3. p \in Steps
    BY <2>2 DEF Steps, SharedSteps, CreateSteps, AddSteps, RemoveSteps
  <2>4. j \in JobType /\ j.m = job[w].m /\ j.pc = p /\ j.new = n /\ j.pair = job[w].pair
    BY <2>2, <2>3, <1>1, Zenon DEF JobType
  <2> HIDE DEF j
  <2>5. Belongs(j, scen.reqs, exists, crossSite)
    BY <1>4, <2>2, <2>4, <1>0, Zenon
    DEF CreateSubs, At, Req, Belongs, Adding, CreateSteps, AddSteps, RemoveSteps
  <2>6. Provisioned /\ KeyInv => Paired(j, scen.reqs, IssuedIn(issued))
    BY <1>4, <2>2, <2>4, <1>0, Zenon DEF CreateSubs, At, Req, Paired
  <2> QED
    BY <1>4, <2>2, <2>1, <2>4, <2>5, <2>6, MoveOn, <1>0, Zenon DEF CreateSubs, room, Typed
<1>5. CASE CreateRows(w)
  <2> DEFINE j == [job[w] EXCEPT !.pc = "count"]
  <2>1. job' = [job EXCEPT ![w] = j]
    BY <1>5 DEF CreateRows, Goto
  <2>3. "count" \in Steps
    BY DEF Steps, SharedSteps, CreateSteps, AddSteps, RemoveSteps
  <2>4. j \in JobType /\ j.m = job[w].m /\ j.pc = "count"
        /\ j.new = job[w].new /\ j.pair = job[w].pair
    BY <2>3, <1>1 DEF JobType
  <2> HIDE DEF j
  <2>5. Belongs(j, scen.reqs, exists, crossSite)
    BY <1>5, <2>4, <1>0, Zenon
    DEF CreateRows, At, Req, Belongs, Adding, CreateSteps, AddSteps, RemoveSteps
  <2>6. Provisioned /\ KeyInv => Paired(j, scen.reqs, IssuedIn(issued))
    BY <1>5, <2>4, <1>0, Zenon DEF CreateRows, At, Req, Paired
  <2> QED
    BY <1>5, <2>1, <2>4, <2>5, <2>6, MoveOn, <1>0, Zenon DEF CreateRows, room, Typed
<1>6. CASE CreateCrossSite(w)
  <2> DEFINE j == [job[w] EXCEPT !.pc = "told"]
  <2>1. job' = [job EXCEPT ![w] = j]
    BY <1>6 DEF CreateCrossSite, Goto
  <2>3. "told" \in Steps
    BY DEF Steps, SharedSteps, CreateSteps, AddSteps, RemoveSteps
  <2>4. j \in JobType /\ j.m = job[w].m /\ j.pc = "told"
        /\ j.new = job[w].new /\ j.pair = job[w].pair
    BY <2>3, <1>1 DEF JobType
  <2> HIDE DEF j
  <2>5. Belongs(j, scen.reqs, exists, crossSite')
    BY <1>6, <2>4, <1>0, Zenon
    DEF CreateCrossSite, At, Req, Belongs, Adding, CreateSteps, AddSteps, RemoveSteps
  <2>6. Provisioned /\ KeyInv => Paired(j, scen.reqs, IssuedIn(issued))
    BY <1>6, <2>4, <1>0, Zenon DEF CreateCrossSite, At, Req, Paired
  <2> QED
    BY <1>6, <2>1, <2>4, <2>5, <2>6, MoveOn, <1>0, Zenon DEF CreateCrossSite, room, Typed
<1> QED
  BY <1>2, <1>3, <1>4, <1>5, <1>6

(* processAddMembers, from the key to the counter. *)
LEMMA AddPreserves ==
  ASSUME Base, NEW w \in Workers,
         KeyPairOrHeal(w) \/ AddSubs(w) \/ Backfill(w) \/ AddRows(w) \/ ApplyMemberCountDelta(w)
  PROVE  Preserved
<1>0. /\ job[w] \in JobType /\ Belongs(job[w], scen.reqs, exists, crossSite) /\ Typed
      /\ KeyInv => Paired(job[w], scen.reqs, IssuedIn(issued))
      /\ job[w].pc # "idle" => Req(w) \in Requests
  BY JobFacts, Zenon
<1>1. job[w] \in JobType
  BY <1>0, Zenon
<1>3. CASE KeyPairOrHeal(w)
  <2> DEFINE p == IF key = NoKey THEN "addHeal" ELSE "addSubs"
             q == key
             j == [job[w] EXCEPT !.pc = p, !.pair = q]
  <2>1. job' = [job EXCEPT ![w] = j]
    BY <1>3, Zenon DEF KeyPairOrHeal, Goto
  <2>2. p \in {"addHeal", "addSubs"} /\ q \in Pairs \cup {NoKey} /\ q = key /\ (p = "addSubs" => key # NoKey)
    BY <1>3, <1>0 DEF KeyPairOrHeal, Typed
  <2> HIDE DEF p, q
  <2>3. p \in Steps
    BY <2>2 DEF Steps, SharedSteps, CreateSteps, AddSteps, RemoveSteps
  <2>4. j \in JobType /\ j.m = job[w].m /\ j.pc = p /\ j.new = job[w].new /\ j.pair = q
    BY <2>2, <2>3, <1>1, Zenon DEF JobType
  <2> HIDE DEF j
  <2>5. Belongs(j, scen.reqs, exists, crossSite)
    BY <1>3, <2>2, <2>4, <1>0, Zenon
    DEF KeyPairOrHeal, At, Req, Belongs, Adding, CreateSteps, AddSteps, RemoveSteps
  <2>6. Provisioned /\ KeyInv => Paired(j, scen.reqs, IssuedIn(issued))
    BY <1>3, <2>2, <2>4, <1>0, CurrentIssued, Zenon
    DEF KeyPairOrHeal, At, Req, Paired, KeyInv, Typed
  <2> QED
    BY <1>3, <2>2, <2>1, <2>4, <2>5, <2>6, MoveOn, <1>0, ZenonT(60) DEF KeyPairOrHeal, room, Typed
<1>4. CASE AddSubs(w)
  <2> DEFINE j == [job[w] EXCEPT !.pc = "addList"]
  <2>1. job' = [job EXCEPT ![w] = j]
    BY <1>4 DEF AddSubs, Goto
  <2>3. "addList" \in Steps
    BY DEF Steps, SharedSteps, CreateSteps, AddSteps, RemoveSteps
  <2>4. j \in JobType /\ j.m = job[w].m /\ j.pc = "addList"
        /\ j.new = job[w].new /\ j.pair = job[w].pair
    BY <2>3, <1>1 DEF JobType
  <2> HIDE DEF j
  <2>5. Belongs(j, scen.reqs, exists, crossSite)
    BY <1>4, <2>4, <1>0, Zenon
    DEF AddSubs, At, Req, Belongs, Adding, CreateSteps, AddSteps, RemoveSteps
  <2>6. Provisioned /\ KeyInv => Paired(j, scen.reqs, IssuedIn(issued))
    BY <1>4, <2>4, <1>0, Zenon DEF AddSubs, At, Req, Paired
  <2> QED
    BY <1>4, <2>1, <2>4, <2>5, <2>6, MoveOn, <1>0, Zenon DEF AddSubs, room, Typed, JobType
<1>5. CASE Backfill(w)
  <2> DEFINE o == IF job[w].flag THEN job[w].rows \cup (subs \ job[w].new) ELSE job[w].rows
             j == [job[w] EXCEPT !.pc = "addRows", !.rows = o]
  <2>1. job' = [job EXCEPT ![w] = j]
    BY <1>5, Zenon DEF Backfill, Goto
  <2>2. o \in SUBSET Accounts
    BY <1>5, <1>0 DEF Backfill, JobType, Typed
  <2> HIDE DEF o
  <2>3. "addRows" \in Steps
    BY <2>2 DEF Steps, SharedSteps, CreateSteps, AddSteps, RemoveSteps
  <2>4. j \in JobType /\ j.m = job[w].m /\ j.pc = "addRows"
        /\ j.new = job[w].new /\ j.pair = job[w].pair
    BY <2>2, <2>3, <1>1, Zenon DEF JobType
  <2> HIDE DEF j
  <2>5. Belongs(j, scen.reqs, exists, crossSite)
    BY <1>5, <2>2, <2>4, <1>0, Zenon
    DEF Backfill, At, Req, Belongs, Adding, CreateSteps, AddSteps, RemoveSteps
  <2>6. Provisioned /\ KeyInv => Paired(j, scen.reqs, IssuedIn(issued))
    BY <1>5, <2>2, <2>4, <1>0, Zenon DEF Backfill, At, Req, Paired
  <2> QED
    BY <1>5, <2>2, <2>1, <2>4, <2>5, <2>6, MoveOn, <1>0, Zenon DEF Backfill, room, Typed
<1>6. CASE AddRows(w)
  <2> DEFINE j == [job[w] EXCEPT !.pc = "addCount"]
  <2>1. job' = [job EXCEPT ![w] = j]
    BY <1>6 DEF AddRows, Goto
  <2>3. "addCount" \in Steps
    BY DEF Steps, SharedSteps, CreateSteps, AddSteps, RemoveSteps
  <2>4. j \in JobType /\ j.m = job[w].m /\ j.pc = "addCount"
        /\ j.new = job[w].new /\ j.pair = job[w].pair
    BY <2>3, <1>1 DEF JobType
  <2> HIDE DEF j
  <2>5. Belongs(j, scen.reqs, exists, crossSite)
    BY <1>6, <2>4, <1>0, Zenon
    DEF AddRows, At, Req, Belongs, Adding, CreateSteps, AddSteps, RemoveSteps
  <2>6. Provisioned /\ KeyInv => Paired(j, scen.reqs, IssuedIn(issued))
    BY <1>6, <2>4, <1>0, Zenon DEF AddRows, At, Req, Paired
  <2> QED
    BY <1>6, <2>1, <2>4, <2>5, <2>6, MoveOn, <1>0, Zenon DEF AddRows, room, Typed
<1>7. CASE ApplyMemberCountDelta(w)
  <2>0. PICK p \in {"count", "told"} : Goto(w, p)
    BY <1>7 DEF ApplyMemberCountDelta
  <2> DEFINE j == [job[w] EXCEPT !.pc = p]
  <2>1. job' = [job EXCEPT ![w] = j]
    BY <2>0 DEF Goto
  <2>2. p \in Steps
    BY <2>0 DEF Steps, SharedSteps
  <2>3. j \in JobType /\ j.m = job[w].m /\ j.pc = p /\ j.new = job[w].new /\ j.pair = job[w].pair
    BY <2>2, <1>1 DEF JobType
  <2> HIDE DEF j
  <2>4. Belongs(j, scen.reqs, exists, crossSite)
    BY <1>7, <2>0, <2>3, <1>0, Zenon
    DEF ApplyMemberCountDelta, At, Belongs, Adding, CreateSteps, AddSteps, RemoveSteps
  <2>5. Provisioned /\ KeyInv => Paired(j, scen.reqs, IssuedIn(issued))
    BY <1>7, <2>0, <2>3, <1>0, Zenon DEF ApplyMemberCountDelta, At, Paired
  <2> QED
    BY <1>7, <2>1, <2>3, <2>4, <2>5, MoveOn, <1>0, Zenon DEF ApplyMemberCountDelta, Typed
<1> QED
  BY <1>3, <1>4, <1>5, <1>6, <1>7

(* processRemoveMember, up to the rotation. *)
LEMMA RemovePreserves ==
  ASSUME Base, NEW w \in Workers,
         \/ RemoveMember(w) \/ GetUserWithMembership(w) \/ DeleteRoomMember(w) \/ RemoveRole(w)
         \/ DeleteSubscription(w) \/ GetOrgMembers(w) \/ DeleteOrgRow(w) \/ GetSubscriptionAccounts(w)
  PROVE  Preserved
<1>0. /\ job[w] \in JobType /\ Belongs(job[w], scen.reqs, exists, crossSite) /\ Typed
      /\ KeyInv => Paired(job[w], scen.reqs, IssuedIn(issued))
      /\ job[w].pc # "idle" => Req(w) \in Requests
  BY JobFacts, Zenon
<1>1. job[w] \in JobType
  BY <1>0, Zenon
<1>2. CASE RemoveMember(w)
  <2> DEFINE p == IF job[w].pc = "remove" THEN "rmLoad" ELSE "orgLoad"
             q == key
             j == [job[w] EXCEPT !.pc = p, !.pair = q]
  <2>1. job' = [job EXCEPT ![w] = j]
    BY <1>2, Zenon DEF RemoveMember, Goto
  <2>2. p \in {"rmLoad", "orgLoad"} /\ q \in Pairs \cup {NoKey}
    BY <1>2, <1>0 DEF RemoveMember, Typed
  <2> HIDE DEF p, q
  <2>3. p \in Steps
    BY <2>2 DEF Steps, SharedSteps, CreateSteps, AddSteps, RemoveSteps
  <2>4. j \in JobType /\ j.m = job[w].m /\ j.pc = p /\ j.new = job[w].new /\ j.pair = q
    BY <2>2, <2>3, <1>1, Zenon DEF JobType
  <2> HIDE DEF j
  <2>5. Belongs(j, scen.reqs, exists, crossSite)
    BY <1>2, <2>2, <2>4, <1>0, Zenon
    DEF RemoveMember, At, Req, Belongs, Adding, CreateSteps, AddSteps, RemoveSteps
  <2>6. Provisioned /\ KeyInv => Paired(j, scen.reqs, IssuedIn(issued))
    BY <1>2, <2>2, <2>4, <1>0, Zenon DEF RemoveMember, At, Req, Paired
  <2> QED
    BY <1>2, <2>2, <2>1, <2>4, <2>5, <2>6, MoveOn, <1>0, Zenon DEF RemoveMember, room, Typed
<1>3. CASE GetUserWithMembership(w)
  <2> DEFINE f == (Req(w).users \cap owners # {})
             n == Req(w).users \ MembersOf(orgRows)
             j == [job[w] EXCEPT !.pc = "rmRow", !.flag = f, !.new = n]
  <2>1. job' = [job EXCEPT ![w] = j]
    BY <1>3, Zenon DEF GetUserWithMembership, Goto
  <2>2. f \in BOOLEAN /\ n \in SUBSET Accounts
    BY <1>3, <1>0, Zenon DEF GetUserWithMembership, At, Requests
  <2> HIDE DEF f, n
  <2>3. "rmRow" \in Steps
    BY <2>2 DEF Steps, SharedSteps, CreateSteps, AddSteps, RemoveSteps
  <2>4. j \in JobType /\ j.m = job[w].m /\ j.pc = "rmRow" /\ j.new = n /\ j.pair = job[w].pair
    BY <2>2, <2>3, <1>1, Zenon DEF JobType
  <2> HIDE DEF j
  <2>5. Belongs(j, scen.reqs, exists, crossSite)
    BY <1>3, <2>2, <2>4, <1>0, Zenon
    DEF GetUserWithMembership, At, Req, Belongs, Adding, CreateSteps, AddSteps, RemoveSteps
  <2>6. Provisioned /\ KeyInv => Paired(j, scen.reqs, IssuedIn(issued))
    BY <1>3, <2>2, <2>4, <1>0, Zenon DEF GetUserWithMembership, At, Req, Paired
  <2> QED
    BY <1>3, <2>2, <2>1, <2>4, <2>5, <2>6, MoveOn, <1>0, Zenon
    DEF GetUserWithMembership, room, Typed
<1>4. CASE DeleteRoomMember(w) /\ job[w].new = {} /\ ~job[w].flag
  <2>1. job[w] # Idle /\ (Ack(w) \/ Nak(w))
    BY <1>4, IdlePc, Zenon DEF DeleteRoomMember, At
  <2>2. subs' \subseteq Accounts /\ (crossSite => crossSite')
    BY <1>4, <1>0, Zenon DEF DeleteRoomMember, room, Typed
  <2>3. UNCHANGED <<scen, exists, keys, held, ensure>>
    BY <1>4, Zenon DEF DeleteRoomMember, room
  <2> QED
    BY <2>1, <2>2, <2>3, StoreStays, MoveOff, Zenon DEF keys
<1>5. CASE DeleteRoomMember(w) /\ ~(job[w].new = {} /\ ~job[w].flag)
  <2> DEFINE p == IF job[w].new = {} THEN "rmRole" ELSE "rmSub"
             j == [job[w] EXCEPT !.pc = p]
  <2>1. job' = [job EXCEPT ![w] = j]
    BY <1>5 DEF DeleteRoomMember, Goto
  <2>2. p \in {"rmRole", "rmSub"}
    BY <1>5, <1>0, Zenon DEF DeleteRoomMember
  <2> HIDE DEF p
  <2>3. p \in Steps
    BY <2>2 DEF Steps, SharedSteps, CreateSteps, AddSteps, RemoveSteps
  <2>4. j \in JobType /\ j.m = job[w].m /\ j.pc = p /\ j.new = job[w].new /\ j.pair = job[w].pair
    BY <2>2, <2>3, <1>1 DEF JobType
  <2> HIDE DEF j
  <2>5. Belongs(j, scen.reqs, exists, crossSite)
    BY <1>5, <2>2, <2>4, <1>0, Zenon
    DEF DeleteRoomMember, At, Req, Belongs, Adding, CreateSteps, AddSteps, RemoveSteps
  <2>6. Provisioned /\ KeyInv => Paired(j, scen.reqs, IssuedIn(issued))
    BY <1>5, <2>2, <2>4, <1>0, ZenonT(60) DEF DeleteRoomMember, At, Req, Paired
  <2> QED
    BY <1>5, <2>2, <2>1, <2>4, <2>5, <2>6, MoveOn, <1>0, ZenonT(60) DEF DeleteRoomMember, room, Typed
<1>6. CASE RemoveRole(w)
  <2>1. job[w] # Idle /\ (Ack(w) \/ Nak(w))
    BY <1>6, IdlePc, Zenon DEF RemoveRole, At
  <2>2. subs' \subseteq Accounts /\ (crossSite => crossSite')
    BY <1>6, <1>0, Zenon DEF RemoveRole, room, Typed
  <2>3. UNCHANGED <<scen, exists, keys, held, ensure>>
    BY <1>6, Zenon DEF RemoveRole, room
  <2> QED
    BY <2>1, <2>2, <2>3, StoreStays, MoveOff, Zenon DEF keys
<1>7. CASE DeleteSubscription(w)
  <2> DEFINE p == IF At(w, "rmSub") THEN "count" ELSE "orgRow"
             j == [job[w] EXCEPT !.pc = p]
  <2>1. job' = [job EXCEPT ![w] = j]
    BY <1>7 DEF DeleteSubscription, Goto
  <2>2. p \in {"count", "orgRow"}
    BY <1>7, <1>0, Zenon DEF DeleteSubscription
  <2> HIDE DEF p
  <2>3. p \in Steps
    BY <2>2 DEF Steps, SharedSteps, CreateSteps, AddSteps, RemoveSteps
  <2>4. j \in JobType /\ j.m = job[w].m /\ j.pc = p /\ j.new = job[w].new /\ j.pair = job[w].pair
    BY <2>2, <2>3, <1>1 DEF JobType
  <2> HIDE DEF j
  <2>5. Belongs(j, scen.reqs, exists, crossSite)
    BY <1>7, <2>2, <2>4, <1>0, Zenon
    DEF DeleteSubscription, At, Req, Belongs, Adding, CreateSteps, AddSteps, RemoveSteps
  <2>6. Provisioned /\ KeyInv => Paired(j, scen.reqs, IssuedIn(issued))
    BY <1>7, <2>2, <2>4, <1>0, Zenon DEF DeleteSubscription, At, Req, Paired, Belongs, RemoveSteps
  <2> QED
    BY <1>7, <2>2, <2>1, <2>4, <2>5, <2>6, MoveOn, <1>0, ZenonT(60) DEF DeleteSubscription, room, Typed
<1>8. CASE GetOrgMembers(w)
  <2> DEFINE n == MembersOf(Req(w).orgs) \ (irm \cup MembersOf(orgRows \ Req(w).orgs))
             p == IF n = {} THEN "orgRow" ELSE "orgSubs"
             j == [job[w] EXCEPT !.new = n, !.pc = p]
  <2>1. job' = [job EXCEPT ![w] = j]
    BY <1>8, Zenon DEF GetOrgMembers, Goto
  <2>2. n \in SUBSET Accounts /\ p \in {"orgRow", "orgSubs"}
    BY <1>8, <1>0, MembersType DEF GetOrgMembers
  <2> HIDE DEF n, p
  <2>3. p \in Steps
    BY <2>2 DEF Steps, SharedSteps, CreateSteps, AddSteps, RemoveSteps
  <2>4. j \in JobType /\ j.m = job[w].m /\ j.pc = p /\ j.new = n /\ j.pair = job[w].pair
    BY <2>2, <2>3, <1>1, Zenon DEF JobType
  <2> HIDE DEF j
  <2>5. Belongs(j, scen.reqs, exists, crossSite)
    BY <1>8, <2>2, <2>4, <1>0, Zenon
    DEF GetOrgMembers, At, Req, Belongs, Adding, CreateSteps, AddSteps, RemoveSteps
  <2>6. Provisioned /\ KeyInv => Paired(j, scen.reqs, IssuedIn(issued))
    BY <1>8, <2>2, <2>4, <1>0, Zenon DEF GetOrgMembers, At, Req, Paired
  <2> QED
    BY <1>8, <2>2, <2>1, <2>4, <2>5, <2>6, MoveOn, <1>0, Zenon DEF GetOrgMembers, room, Typed
<1>9. CASE DeleteOrgRow(w)
  <2> DEFINE j == [job[w] EXCEPT !.pc = "count"]
  <2>1. job' = [job EXCEPT ![w] = j]
    BY <1>9 DEF DeleteOrgRow, Goto
  <2>3. "count" \in Steps
    BY DEF Steps, SharedSteps, CreateSteps, AddSteps, RemoveSteps
  <2>4. j \in JobType /\ j.m = job[w].m /\ j.pc = "count"
        /\ j.new = job[w].new /\ j.pair = job[w].pair
    BY <2>3, <1>1 DEF JobType
  <2> HIDE DEF j
  <2>5. Belongs(j, scen.reqs, exists, crossSite)
    BY <1>9, <2>4, <1>0, Zenon
    DEF DeleteOrgRow, At, Req, Belongs, Adding, CreateSteps, AddSteps, RemoveSteps
  <2>6. Provisioned /\ KeyInv => Paired(j, scen.reqs, IssuedIn(issued))
    BY <1>9, <2>4, <1>0, Zenon DEF DeleteOrgRow, At, Req, Paired, Belongs, RemoveSteps
  <2> QED
    BY <1>9, <2>1, <2>4, <2>5, <2>6, MoveOn, <1>0, ZenonT(60) DEF DeleteOrgRow, room, Typed
<1>10. CASE GetSubscriptionAccounts(w)
  <2> DEFINE o == subs
             j == [job[w] EXCEPT !.pc = "rotate", !.rows = o]
  <2>1. job' = [job EXCEPT ![w] = j]
    BY <1>10, Zenon DEF GetSubscriptionAccounts, Goto
  <2>2. o \in SUBSET Accounts
    BY <1>10, <1>0 DEF GetSubscriptionAccounts, Typed
  <2> HIDE DEF o
  <2>3. "rotate" \in Steps
    BY <2>2 DEF Steps, SharedSteps, CreateSteps, AddSteps, RemoveSteps
  <2>4. j \in JobType /\ j.m = job[w].m /\ j.pc = "rotate"
        /\ j.new = job[w].new /\ j.pair = job[w].pair
    BY <2>2, <2>3, <1>1, Zenon DEF JobType
  <2> HIDE DEF j
  <2>5. Belongs(j, scen.reqs, exists, crossSite)
    BY <1>10, <2>2, <2>4, <1>0, Zenon
    DEF GetSubscriptionAccounts, At, Req, Belongs, Adding, CreateSteps, AddSteps, RemoveSteps
  <2>6. Provisioned /\ KeyInv => Paired(j, scen.reqs, IssuedIn(issued))
    BY <1>10, <2>2, <2>4, <1>0, ZenonT(60) DEF GetSubscriptionAccounts, At, Req, Paired
  <2> QED
    BY <1>10, <2>2, <2>1, <2>4, <2>5, <2>6, MoveOn, <1>0, Zenon
    DEF GetSubscriptionAccounts, room, Typed
<1> QED
  BY <1>2, <1>3, <1>4, <1>5, <1>6, <1>7, <1>8, <1>9, <1>10, Zenon

(* The recount, the last publishes, and failures. *)
LEMMA SharedPreserves ==
  ASSUME Base, NEW w \in Workers,
         ReconcileCount(w) \/ ReconcileWrite(w) \/ Publish(w) \/ BulkFails(w) \/ Fail(w)
  PROVE  Preserved
<1>0. /\ job[w] \in JobType /\ Belongs(job[w], scen.reqs, exists, crossSite) /\ Typed
      /\ KeyInv => Paired(job[w], scen.reqs, IssuedIn(issued))
      /\ job[w].pc # "idle" => Req(w) \in Requests
  BY JobFacts, Zenon
<1>1. job[w] \in JobType
  BY <1>0, Zenon
<1>2. CASE ReconcileCount(w)
  <2> DEFINE t == Cardinality(subs)
             j == [job[w] EXCEPT !.pc = "recount", !.total = t]
  <2>1. job' = [job EXCEPT ![w] = j]
    BY <1>2, Zenon DEF ReconcileCount, Goto
  <2>2. t \in Counts
    BY <1>2, <1>0 DEF ReconcileCount, Typed, Counts
  <2> HIDE DEF t
  <2>3. "recount" \in Steps
    BY <2>2 DEF Steps, SharedSteps, CreateSteps, AddSteps, RemoveSteps
  <2>4. j \in JobType /\ j.m = job[w].m /\ j.pc = "recount"
        /\ j.new = job[w].new /\ j.pair = job[w].pair
    BY <2>2, <2>3, <1>1, Zenon DEF JobType
  <2> HIDE DEF j
  <2>5. Belongs(j, scen.reqs, exists, crossSite)
    BY <1>2, <2>2, <2>4, <1>0, Zenon
    DEF ReconcileCount, At, Req, Belongs, Adding, CreateSteps, AddSteps, RemoveSteps
  <2>6. Provisioned /\ KeyInv => Paired(j, scen.reqs, IssuedIn(issued))
    BY <1>2, <2>2, <2>4, <1>0, Zenon DEF ReconcileCount, At, Req, Paired
  <2> QED
    BY <1>2, <2>2, <2>1, <2>4, <2>5, <2>6, MoveOn, <1>0, ZenonT(60) DEF ReconcileCount, room, Typed
<1>3. CASE ReconcileWrite(w)
  <2> DEFINE p == AfterReconcile(w)
             t == 0
             j == [job[w] EXCEPT !.pc = p, !.total = t]
  <2>1. job' = [job EXCEPT ![w] = j]
    BY <1>3, Zenon DEF ReconcileWrite, Goto
  <2>2. p \in {"cross", "told", "publish", "survivors"} /\ t \in Counts
        /\ (p = "cross" => Req(w).op = "create") /\ (p = "told" => Req(w).op = "add")
        /\ (p = "survivors" => Req(w).op \in {"remove", "removeOrg"})
    BY <1>3, <1>0 DEF ReconcileWrite, AfterReconcile, Requests, At, Counts
  <2> HIDE DEF p, t
  <2>3. p \in Steps
    BY <2>2 DEF Steps, SharedSteps, CreateSteps, AddSteps, RemoveSteps
  <2>4. j \in JobType /\ j.m = job[w].m /\ j.pc = p /\ j.new = job[w].new /\ j.pair = job[w].pair
    BY <2>2, <2>3, <1>1, Zenon DEF JobType
  <2> HIDE DEF j
  <2>5. Belongs(j, scen.reqs, exists, crossSite)
    BY <1>3, <2>2, <2>4, <1>0, Zenon
    DEF ReconcileWrite, At, Req, Belongs, Adding, CreateSteps, AddSteps, RemoveSteps
  <2>6. Provisioned /\ KeyInv => Paired(j, scen.reqs, IssuedIn(issued))
    BY <1>3, <2>2, <2>4, <1>0, Zenon DEF ReconcileWrite, At, Req, Paired
  <2> QED
    BY <1>3, <2>2, <2>1, <2>4, <2>5, <2>6, MoveOn, <1>0, ZenonT(60) DEF ReconcileWrite, room, Typed
<1>4. CASE Publish(w)
  <2>1. job[w] # Idle /\ (Ack(w) \/ Nak(w))
    BY <1>4, IdlePc, Zenon DEF Publish, At
  <2>2. subs' \subseteq Accounts /\ (crossSite => crossSite')
    BY <1>4, <1>0, Zenon DEF Publish, room, Typed
  <2>3. UNCHANGED <<scen, exists, keys, held, ensure>>
    BY <1>4, Zenon DEF Publish, room
  <2> QED
    BY <2>1, <2>2, <2>3, StoreStays, MoveOff, Zenon DEF keys
<1>5. CASE BulkFails(w)
  <2>1. job[w].pc # "idle" /\ Nak(w)
    BY <1>5, Zenon DEF BulkFails, At
  <2>3. job[w] # Idle
    BY <2>1, IdlePc, Zenon
  <2>2. subs' \subseteq Accounts
    <3>1. CASE At(w, "createSubs")
      BY <1>5, <3>1, <1>0, MembersType, Zenon DEF BulkFails, At, Typed, Requests
    <3>2. CASE At(w, "addSubs")
      BY <1>5, <3>2, <1>0, Zenon DEF BulkFails, At, Typed, JobType
    <3>3. CASE ~At(w, "createSubs") /\ ~At(w, "addSubs")
      BY <1>5, <3>3, <1>0, Zenon DEF BulkFails, Typed
    <3> QED
      BY <3>1, <3>2, <3>3
  <2> QED
    BY <1>5, <2>1, <2>2, <2>3, StoreStays, MoveOff, Zenon DEF BulkFails, keys
<1>6. CASE Fail(w)
  <2>1. job[w] # Idle /\ (Ack(w) \/ Nak(w))
    BY <1>6, IdlePc, Zenon DEF Fail, At
  <2>2. subs' \subseteq Accounts /\ (crossSite => crossSite')
    BY <1>6, <1>0, Zenon DEF Fail, room, Typed
  <2>3. UNCHANGED <<scen, exists, key, minted, issued, held, ensure>>
    BY <1>6, Zenon DEF Fail, room
  <2> QED
    BY <1>6, <2>1, <2>2, <2>3, FailKeeps, MoveOff, Zenon
<1> QED
  BY <1>2, <1>3, <1>4, <1>5, <1>6

(* The start of processAddMembers marks the room for the members it will add. *)
LEMMA LoadPreserves ==
  ASSUME Base, NEW w \in Workers, LoadAddMemberInputs(w)
  PROVE  Preserved
<1>0. job[w].pc = "add"
  BY Zenon DEF LoadAddMemberInputs, At
<1>1. job[w] \in JobType /\ Req(w) \in Requests /\ Typed /\ job[w] # Idle /\ exists
  <2>1. job[w] # Idle
    BY <1>0, IdlePc, Zenon
  <2> QED
    BY <1>0, <2>1, JobFacts, Zenon DEF Belongs
<1> DEFINE candidates == Req(w).users \cup MembersOf(Req(w).orgs)
           n == candidates \ subs
           o == IF Req(w).orgs # {} \/ Tracking THEN Req(w).users \ irm ELSE {}
           f == Req(w).orgs # {} /\ ~Tracking
           p == IF n = {} THEN "addList" ELSE "addKey"
           j == [job[w] EXCEPT !.pc = p, !.new = n, !.rows = o, !.flag = f]
<1>2. /\ crossSite' = (crossSite \/ candidates \cap Remote # {})
      /\ \/ Ack(w)
         \/ job' = [job EXCEPT ![w] = j] /\ state' = state
  BY ZenonT(60) DEF LoadAddMemberInputs
<1>3. UNCHANGED <<scen, exists, subs, keys, held, ensure>>
  BY Zenon DEF LoadAddMemberInputs
<1>4. n \in SUBSET Accounts /\ o \in SUBSET Accounts /\ f \in BOOLEAN /\ n \subseteq candidates
  BY <1>1, MembersType, Zenon DEF Requests
<1>5. p \in {"addList", "addKey"} /\ (p = "addList" => n = {})
  BY Zenon
<1> HIDE DEF candidates, n, o, f, p
<1>6. p \in Steps
  BY <1>5 DEF Steps, AddSteps
<1>7. j \in JobType /\ j.m = job[w].m /\ j.pc = p /\ j.new = n /\ j.pair = job[w].pair
  BY <1>1, <1>4, <1>6, Zenon DEF JobType
<1> HIDE DEF j
<1>8. Belongs(j, scen.reqs, exists, crossSite')
  BY <1>1, <1>2, <1>4, <1>5, <1>7, JobFacts, Zenon
  DEF LoadAddMemberInputs, At, Belongs, Adding, CreateSteps, AddSteps, RemoveSteps
<1>9. Paired(j, scen.reqs, IssuedIn(issued))
  BY <1>5, <1>7, Zenon DEF Paired
<1>10. CASE Ack(w)
  BY <1>1, <1>2, <1>3, <1>10, StoreStays, MoveOff, Zenon DEF Typed, keys
<1>11. CASE job' = [job EXCEPT ![w] = j] /\ state' = state
  BY <1>1, <1>2, <1>3, <1>7, <1>8, <1>9, <1>11, MoveOn, Zenon DEF Typed
<1> QED
  BY <1>2, <1>10, <1>11

(* The first write of a room's key is the first entry of the ledger. *)
LEMMA CreateRoomPreserves ==
  ASSUME Base, NEW w \in Workers, CreateRoom(w)
  PROVE  Preserved
<1>1. job[w] \in JobType /\ Typed /\ job[w].m \in DOMAIN scen.reqs /\ Req(w).op = "create"
  BY JobFacts, Zenon DEF CreateRoom, At, Belongs, CreateSteps, Req
<1>2. CASE exists
  <2> DEFINE j == [job[w] EXCEPT !.pc = "createKey"]
  <2>1. job' = [job EXCEPT ![w] = j]
      /\ UNCHANGED <<scen, state, exists, crossSite, subs, keys, held, ensure>>
    BY <1>2 DEF CreateRoom, Goto
  <2>2. "createKey" \in Steps
    BY DEF Steps, CreateSteps
  <2>3. j \in JobType /\ j.m = job[w].m /\ j.pc = "createKey"
    BY <1>1, <2>2 DEF JobType
  <2> HIDE DEF j
  <2>4. Belongs(j, scen.reqs, exists, crossSite)
    BY <1>1, <1>2, <2>3, Zenon DEF Belongs, Adding, CreateSteps, AddSteps, RemoveSteps, Req
  <2>5. Paired(j, scen.reqs, IssuedIn(issued))
    BY <2>3 DEF Paired
  <2> QED
    BY <1>1, <2>1, <2>3, <2>4, <2>5, MoveOn, Zenon DEF Typed
<1>3. CASE ~exists
  <2> DEFINE q == [ver |-> 0, secret |-> Fresh]
             j == [job[w] EXCEPT !.pc = "createSubs", !.pair = q]
  <2>1. /\ exists' = TRUE /\ UNCHANGED <<scen, state, subs, held, ensure>>
        /\ Install(q) /\ key' = q /\ minted' = minted + 1 /\ UNCHANGED <<retired, archiving>>
    BY <1>3 DEF CreateRoom, Set, Install
  <2>2. job' = [job EXCEPT ![w] = j]
    BY <1>3, <2>1, ZenonT(60) DEF CreateRoom
  <2>3. q \in Pairs /\ "createSubs" \in Steps
    BY <1>1 DEF Typed, Fresh, Pairs, Steps, CreateSteps
  <2>4. q.ver = 0 /\ q = [ver |-> 0, secret |-> Fresh]
    OBVIOUS
  <2> HIDE DEF q
  <2>5. j \in JobType /\ j.m = job[w].m /\ j.pc = "createSubs" /\ j.pair = q
    BY <1>1, <2>3, Zenon DEF JobType
  <2> HIDE DEF j
  <2>6. Belongs(j, scen.reqs, exists', crossSite')
    BY <1>1, <2>1, <2>5, ZenonT(60) DEF Belongs, Adding, CreateSteps, AddSteps, RemoveSteps, Req
  <2>7. key' \in Pairs \cup {NoKey} /\ minted' \in Nat
    BY <1>1, <2>1, <2>3 DEF Typed
  <2>8. Base'
    BY <1>1, <1>3, <2>1, <2>2, <2>5, <2>6, <2>7, MoveBase, Zenon DEF Typed
  <2>9. ASSUME Provisioned, KeyInv PROVE KeyInv' /\ LedgerStep
    <3>1. key = NoKey /\ issued = <<>> /\ Len(issued) = 0 /\ IssuedIn(issued) = {} /\ Store
      BY <1>3, <2>9 DEF KeyInv, Store, IssuedIn
    <3>2. q = [ver |-> Len(issued), secret |-> Fresh] /\ held' = held
      BY <2>1, <2>4, <3>1, Zenon
    <3>3. /\ issued' \in Seq(Nat)
          /\ Len(issued') = q.ver + 1 /\ issued'[q.ver + 1] = q.secret
          /\ \A v \in 1..Len(issued') : issued'[v] <= minted'
          /\ IssuedIn(issued') = {q}
          /\ Ledger!Issue
      BY <1>1, <2>1, <3>1, <3>2, InstallNext, Zenon
    <3>4. q # NoKey
      BY <2>3, NoKeyAssumption DEF Pairs
    <3>5. Store'
      <4>1. Archived'
        BY <2>1, <3>1, <3>3, FirstArchived, Zenon
      <4> QED
        BY <2>1, <3>1, <3>3, <3>4, <4>1, Zenon DEF Store
    <3>6. held' \in [Accounts -> SUBSET IssuedIn(issued')]
      BY <2>1, <2>9, <3>1 DEF KeyInv
    <3>7. Paired(j, scen.reqs, IssuedIn(issued'))
      BY <2>5, <3>3, Zenon DEF Paired
    <3>8. KeyInv'
      BY <1>1, <2>1, <2>2, <2>5, <2>9, <3>1, <3>5, <3>6, <3>7, MoveKeys, ZenonT(60)
    <3> QED
      BY <3>3, <3>8, SMTT(60) DEF LedgerStep
  <2> QED
    BY <2>8, <2>9 DEF Preserved
<1> QED
  BY <1>2, <1>3

(* A provisioned room never comes to existingRoomKey's Set. *)
LEMMA ExistingRoomSetPreserves ==
  ASSUME Base, NEW w \in Workers, ExistingRoomSet(w)
  PROVE  Preserved
<1>1. job[w] \in JobType /\ Typed /\ Belongs(job[w], scen.reqs, exists, crossSite)
  BY JobFacts, Zenon
<1> DEFINE q == [ver |-> 0, secret |-> Fresh]
           j == [job[w] EXCEPT !.pc = "createSubs", !.pair = q]
<1>2. key' = q /\ minted' = minted + 1 /\ UNCHANGED <<scen, state, exists, crossSite, subs>>
  BY DEF ExistingRoomSet, Set, Install, room
<1>3. job' = [job EXCEPT ![w] = j]
  BY <1>2, Zenon DEF ExistingRoomSet
<1>4. q \in Pairs /\ "createSubs" \in Steps /\ minted' \in Nat
  BY <1>1, <1>2 DEF Typed, Fresh, Pairs, Steps, CreateSteps
<1> HIDE DEF q
<1>5. j \in JobType /\ j.m = job[w].m /\ j.pc = "createSubs"
  BY <1>1, <1>4, Zenon DEF JobType
<1> HIDE DEF j
<1>6. Belongs(j, scen.reqs, exists, crossSite)
  BY <1>1, <1>5, Zenon DEF ExistingRoomSet, At, Belongs, Adding, CreateSteps, AddSteps, RemoveSteps
<1>7. Base'
  BY <1>1, <1>2, <1>3, <1>4, <1>5, <1>6, MoveBase, ZenonT(60) DEF Typed
<1>8. KeyInv => FALSE
  BY JobFacts, Zenon DEF ExistingRoomSet, At, Paired
<1> QED
  BY <1>7, <1>8 DEF Preserved

(* keyPairOrHeal: the pair that SetIfAbsent returns is the one in the room. *)
LEMMA HealPreserves ==
  ASSUME Base, NEW w \in Workers, Heal(w)
  PROVE  Preserved
<1>0. job[w].pc = "addHeal"
  BY DEF Heal, At
<1>1. job[w] \in JobType /\ Typed /\ Belongs(job[w], scen.reqs, exists, crossSite) /\ exists
  BY <1>0, JobFacts, Zenon DEF Belongs
<1> DEFINE q == Settled
           j == [job[w] EXCEPT !.pc = "addSubs", !.pair = q]
<1>2. job' = [job EXCEPT ![w] = j] /\ SetIfAbsent
      /\ UNCHANGED <<scen, state, exists, crossSite, subs, held, ensure>>
  BY Zenon DEF Heal, room
<1>3. q \in Pairs /\ key' \in Pairs \cup {NoKey} /\ minted' \in Nat
  BY <1>1, <1>2 DEF Typed, Settled, Fresh, Pairs, SetIfAbsent, Install
<1>4. "addSubs" \in Steps /\ q = Settled
  BY DEF Steps, AddSteps
<1> HIDE DEF q
<1>5. j \in JobType /\ j.m = job[w].m /\ j.pc = "addSubs" /\ j.pair = q /\ j.new = job[w].new
  BY <1>1, <1>3, <1>4, Zenon DEF JobType
<1> HIDE DEF j
<1>6. Belongs(j, scen.reqs, exists, crossSite)
  BY <1>0, <1>1, <1>5, Zenon DEF Belongs, Adding, CreateSteps, AddSteps, RemoveSteps
<1>7. Base'
  BY <1>1, <1>2, <1>3, <1>5, <1>6, MoveBase, Zenon DEF Typed
<1>8. ASSUME Provisioned, KeyInv PROVE KeyInv' /\ LedgerStep
  <2>1. Store' /\ q \in IssuedIn(issued') /\ IssuedIn(issued) \subseteq IssuedIn(issued') /\ LedgerStep
    BY <1>1, <1>2, <1>4, <1>8, SetIfAbsentKeeps DEF KeyInv
  <2>2. Paired(j, scen.reqs, IssuedIn(issued'))
    BY <1>5, <2>1, Zenon DEF Paired
  <2>3. held' \in [Accounts -> SUBSET IssuedIn(issued')]
    BY <1>2, <1>8, <2>1 DEF KeyInv
  <2> QED
    BY <1>1, <1>2, <1>5, <1>8, <2>1, <2>2, <2>3, MoveKeys, ZenonT(60)
<1> QED
  BY <1>7, <1>8 DEF Preserved

(* A rotation appends the next version, and the one it replaces is the previous. *)
LEMMA RotateKeeps ==
  ASSUME Typed, Store, exists, key # NoKey, NEW w \in Workers, Rotate(w),
         UNCHANGED <<scen, exists, held>>
  PROVE  /\ Store' /\ Rotated \in IssuedIn(issued') /\ Rotated \in Pairs
         /\ IssuedIn(issued) \subseteq IssuedIn(issued') /\ LedgerStep
         /\ key' \in Pairs /\ minted' \in Nat
<1>1. key \in Pairs /\ key \in IssuedIn(issued) /\ Len(issued) = key.ver + 1
  BY CurrentIssued
<1>2. Rotated = [ver |-> Len(issued), secret |-> Fresh] /\ Install(Rotated)
  BY <1>1, Zenon DEF Rotated, Rotate
<1>3. /\ key' = Rotated /\ Rotated \in Pairs /\ minted' \in Nat
      /\ issued' \in Seq(Nat)
      /\ Len(issued') = Rotated.ver + 1 /\ issued'[Rotated.ver + 1] = Rotated.secret
      /\ \A v \in 1..Len(issued') : issued'[v] <= minted'
      /\ IssuedIn(issued') = IssuedIn(issued) \cup {Rotated}
      /\ Ledger!Issue
  BY <1>2, InstallNext, Zenon
<1>4. key' # NoKey
  BY <1>3, NoKeyAssumption DEF Pairs
<1>5. /\ retired' = retired /\ archiving' = [archiving EXCEPT ![w] = key]
      /\ dropped' = dropped \cup PendingAt(Workers)
  BY Zenon DEF Rotate
<1>6. archiving' \in [Workers -> IssuedIn(issued') \cup {NoKey}]
  <2>1. archiving \in [Workers -> IssuedIn(issued') \cup {NoKey}]
    BY <1>3 DEF Store, Archived
  <2> QED
    BY <1>1, <1>3, <1>5, <2>1, Zenon
<1>7. key \in Previous'
  <2>1. archiving'[w] = key
    BY <1>5, Zenon DEF Store, Archived
  <2>2. key.ver + 1 = key'.ver
    BY <1>1, <1>3, Zenon DEF Rotated
  <2> QED
    BY <2>1, <2>2, Zenon DEF Previous
<1>8. ASSUME NEW q \in Previous PROVE q.ver \in dropped'
  <2>1. PICK v \in Workers : archiving[v] = q /\ q # NoKey
    BY <1>8, Zenon DEF Previous
  <2> QED
    BY <1>5, <2>1, Pending, Zenon
<1>9. Archived'
  <2>1. ASSUME NEW q \in IssuedIn(issued') PROVE q = key' \/ q \in retired' \cup Previous' \/ q.ver \in dropped'
    BY <1>3, <1>5, <1>7, <1>8, Zenon DEF Store, Archived
  <2>2. retired' \subseteq IssuedIn(issued')
    BY <1>3, <1>5, Zenon DEF Store, Archived
  <2> QED
    BY <1>6, <2>1, <2>2, Zenon DEF Archived
<1>10. Store'
  BY <1>3, <1>4, <1>9, Zenon DEF Store
<1> QED
  BY <1>3, <1>10 DEF LedgerStep

(* CommitRotation. *)
LEMMA RotationPreserves ==
  ASSUME Base, NEW w \in Workers, CommitRotation(w)
  PROVE  Preserved
<1>0. job[w].pc = "rotate"
  BY DEF CommitRotation, At
<1>1. job[w] \in JobType /\ Typed /\ Belongs(job[w], scen.reqs, exists, crossSite) /\ exists
  BY <1>0, JobFacts, Zenon DEF Belongs
<1>2. UNCHANGED <<scen, state, exists, crossSite, subs, held, ensure>>
  BY DEF CommitRotation, room
<1>3. PICK q : /\ job' = [job EXCEPT ![w].pc = "fanOut", ![w].pair = q]
               /\ \/ key # NoKey /\ q = Rotated /\ Rotate(w)
                  \/ q = Settled /\ SetIfAbsent
  BY DEF CommitRotation
<1>4. q \in Pairs /\ key' \in Pairs \cup {NoKey} /\ minted' \in Nat
  <2>1. CASE key # NoKey /\ q = Rotated /\ Rotate(w)
    BY <1>1, <2>1 DEF Rotate, Rotated, Install, Typed, Pairs, Fresh
  <2>2. CASE q = Settled /\ SetIfAbsent
    BY <1>1, <2>2 DEF Typed, Settled, Fresh, Pairs, SetIfAbsent, Install
  <2> QED
    BY <1>3, <2>1, <2>2
<1> DEFINE j == [job[w] EXCEPT !.pc = "fanOut", !.pair = q]
<1>5. job' = [job EXCEPT ![w] = j]
  BY <1>3, Zenon
<1>6. "fanOut" \in Steps
  BY DEF Steps, RemoveSteps
<1>7. j \in JobType /\ j.m = job[w].m /\ j.pc = "fanOut" /\ j.pair = q
  BY <1>1, <1>4, <1>6, Zenon DEF JobType
<1> HIDE DEF j
<1>8. Belongs(j, scen.reqs, exists, crossSite)
  BY <1>0, <1>1, <1>7, Zenon DEF Belongs, Adding, CreateSteps, AddSteps, RemoveSteps
<1>9. Base'
  BY <1>1, <1>2, <1>4, <1>5, <1>7, <1>8, MoveBase, Zenon DEF Typed
<1>10. ASSUME Provisioned, KeyInv PROVE KeyInv' /\ LedgerStep
  <2>1. Store' /\ q \in IssuedIn(issued') /\ IssuedIn(issued) \subseteq IssuedIn(issued') /\ LedgerStep
    <3>1. CASE key # NoKey /\ q = Rotated /\ Rotate(w)
      BY <1>1, <1>2, <1>10, <3>1, RotateKeeps, Zenon DEF KeyInv
    <3>2. CASE q = Settled /\ SetIfAbsent
      BY <1>1, <1>2, <1>10, <3>2, SetIfAbsentKeeps, Zenon DEF KeyInv
    <3> QED
      BY <1>3, <3>1, <3>2
  <2>2. Paired(j, scen.reqs, IssuedIn(issued'))
    BY <1>7, <2>1, Zenon DEF Paired
  <2>3. held' \in [Accounts -> SUBSET IssuedIn(issued')]
    BY <1>2, <1>10, <2>1 DEF KeyInv
  <2> QED
    BY <1>1, <1>2, <1>5, <1>7, <1>10, <2>1, <2>2, <2>3, MoveKeys, Zenon
<1> QED
  BY <1>9, <1>10 DEF Preserved

(* The archive write of a rotation: it puts in the archive what it takes from the
   previous slot, or drops it. *)
LEMMA ArchivePreserves ==
  ASSUME Base, NEW w \in Workers, ArchiveDemoted(w)
  PROVE  Preserved
<1>1. PICK ok \in BOOLEAN : ArchiveRetired(archiving[w], ok)
  BY Zenon DEF ArchiveDemoted
<1>2. /\ UNCHANGED <<scen, state, job, exists, subs, crossSite, key, minted, issued, held, ensure>>
      /\ archiving' = [archiving EXCEPT ![w] = NoKey] /\ archiving[w] # NoKey
  BY Zenon DEF ArchiveDemoted, room
<1>3. Base'
  BY <1>2, Zenon DEF Base, Typed
<1>4. ASSUME Store PROVE Archived'
  <2>1. archiving[w] \in IssuedIn(issued) /\ archiving' \in [Workers -> IssuedIn(issued) \cup {NoKey}]
    BY <1>2, <1>4, Zenon DEF Store, Archived
  <2>2. retired' \subseteq IssuedIn(issued) /\ retired \subseteq retired'
    BY <1>1, <1>4, <2>1, Zenon DEF ArchiveRetired, Store, Archived
  <2>3. archiving[w] \in retired' \/ archiving[w].ver \in dropped'
    BY <1>1, Zenon DEF ArchiveRetired
  <2>4. ASSUME NEW p \in IssuedIn(issued), p.ver \in dropped PROVE p \in retired' \/ p.ver \in dropped'
    <3>1. CASE p.ver = archiving[w].ver
      BY <2>1, <2>3, <3>1, OneVersion, Zenon
    <3>2. CASE p.ver # archiving[w].ver
      BY <1>1, <2>4, <3>2, Zenon DEF ArchiveRetired
    <3> QED
      BY <3>1, <3>2, Zenon
  <2>5. ASSUME NEW p \in Previous PROVE p \in retired' \cup Previous' \/ p.ver \in dropped'
    <3>1. PICK v \in Workers : archiving[v] = p /\ p # NoKey /\ p.ver + 1 = key.ver
      BY <2>5, Zenon DEF Previous
    <3>2. CASE v = w
      BY <2>3, <3>1, <3>2, Zenon
    <3>3. CASE v # w
      <4>1. archiving'[v] = p
        BY <1>2, <1>4, <3>1, <3>3, Zenon DEF Store, Archived
      <4> QED
        BY <1>2, <3>1, <4>1, Zenon DEF Previous
    <3> QED
      BY <3>2, <3>3, Zenon
  <2> QED
    BY <1>2, <1>4, <2>1, <2>2, <2>4, <2>5, Zenon DEF Store, Archived
<1>5. ASSUME KeyInv PROVE KeyInv'
  <2>1. Store'
    BY <1>2, <1>4, <1>5, Zenon DEF KeyInv, Store, Legacy
  <2> QED
    BY <1>2, <1>5, <2>1, Zenon DEF KeyInv, Provisioning
<1>6. LedgerStep
  BY <1>2 DEF LedgerStep
<1> QED
  BY <1>3, <1>5, <1>6 DEF Preserved

(* A publish per account hands out the pair it was given. *)
LEMMA SendKeeps ==
  ASSUME held \in [Accounts -> SUBSET IssuedIn(issued)], issued' = issued,
         NEW to, NEW p, NEW lost, SendKey(to, p, lost), to = {} \/ p \in IssuedIn(issued)
  PROVE  held' \in [Accounts -> SUBSET IssuedIn(issued)] /\ Ledger!Send
<1>1. held' = [a \in Accounts |-> IF a \in to \ lost THEN held[a] \cup {p} ELSE held[a]]
  BY DEF SendKey
<1>2. ASSUME NEW a \in Accounts
      PROVE  held[a] \subseteq held'[a] /\ held'[a] \subseteq held[a] \cup IssuedIn(issued)
  <2>1. CASE a \in to \ lost
    BY <1>1, <2>1
  <2>2. CASE a \notin to \ lost
    BY <1>1, <2>2
  <2> QED
    BY <2>1, <2>2, Zenon
<1>3. Ledger!Send
  BY <1>2, Zenon DEF Ledger!Send, Ledger!Issued, IssuedIn
<1>4. ASSUME NEW a \in Accounts PROVE held'[a] \in SUBSET IssuedIn(issued)
  BY <1>2, Zenon
<1> QED
  BY <1>1, <1>3, <1>4

(* publishSubscriptionAdded and the fan-out of a rotation. *)
LEMMA SendPreserves ==
  ASSUME Base, NEW w \in Workers, SubscriptionAdded(w) \/ FanOutKey(w)
  PROVE  Preserved
<1>0. job[w].pc \in {"told", "fanOut"}
  BY Zenon DEF SubscriptionAdded, FanOutKey, At
<1>1. job[w] \in JobType /\ Typed /\ Belongs(job[w], scen.reqs, exists, crossSite)
      /\ (KeyInv => Paired(job[w], scen.reqs, IssuedIn(issued)))
  BY <1>0, JobFacts, Zenon
<1> DEFINE j == [job[w] EXCEPT !.pc = "publish"]
<1>2. job' = [job EXCEPT ![w] = j]
      /\ UNCHANGED <<scen, state, exists, crossSite, subs, keys, ensure>>
  BY DEF SubscriptionAdded, FanOutKey, Goto, room
<1>3. "publish" \in Steps
  BY DEF Steps, SharedSteps
<1>4. j \in JobType /\ j.m = job[w].m /\ j.pc = "publish"
  BY <1>1, <1>3 DEF JobType
<1> HIDE DEF j
<1>5. Belongs(j, scen.reqs, exists, crossSite)
  BY <1>0, <1>1, <1>4, Zenon DEF Belongs, Adding, CreateSteps, AddSteps, RemoveSteps
<1>6. Base'
  BY <1>1, <1>2, <1>4, <1>5, MoveBase, ZenonT(60) DEF Typed, keys
<1>7. ASSUME Provisioned, KeyInv PROVE KeyInv' /\ LedgerStep
  <2>1. PICK to, lost : SendKey(to, job[w].pair, lost) /\ (to = {} \/ job[w].pair \in IssuedIn(issued))
    <3>1. CASE SubscriptionAdded(w)
      BY <1>1, <1>7, <3>1, Zenon DEF SubscriptionAdded, At, Paired
    <3>2. CASE FanOutKey(w)
      BY <1>1, <1>7, <3>2, Zenon DEF FanOutKey, At, Paired
    <3> QED
      BY <3>1, <3>2
  <2>2. held' \in [Accounts -> SUBSET IssuedIn(issued)] /\ Ledger!Send /\ issued' = issued
    BY <1>2, <1>7, <2>1, SendKeeps, Zenon DEF KeyInv, keys
  <2>3. Store'
    BY <1>2, <1>7, StoreStays, Zenon DEF KeyInv
  <2>4. Paired(j, scen.reqs, IssuedIn(issued))
    BY <1>4, Zenon DEF Paired
  <2>5. KeyInv'
    BY <1>1, <1>2, <1>4, <1>7, <2>2, <2>3, <2>4, MoveKeys, Zenon
  <2> QED
    BY <2>2, <2>5 DEF LedgerStep
<1> QED
  BY <1>6, <1>7 DEF Preserved

(* room-service: only a creation passes its checks before there is a room. *)
LEMMA SubmitPreserves ==
  ASSUME Base, NEW i \in DOMAIN state, Submit(i)
  PROVE  Preserved
<1>1. Typed /\ i \in DOMAIN scen.reqs /\ scen.reqs[i] \in Requests
  BY ReqType, Zenon DEF Base, Typed
<1>2. UNCHANGED <<scen, job, room, keys, held, ensure>>
  BY DEF Submit
<1>3. PICK s \in {"queued", "done"} :
        state' = [state EXCEPT ![i] = s] /\ (s = "queued" => Accepts(scen.reqs[i]))
  BY Zenon DEF Submit
<1>4. s = "queued" /\ scen.reqs[i].op # "create" => exists
  <2> SUFFICES ASSUME s = "queued", scen.reqs[i].op # "create" PROVE exists
    BY Zenon
  <2>1. CASE scen.reqs[i].op = "add"
    BY <1>3, <2>1 DEF Accepts, CanAdd
  <2>2. CASE scen.reqs[i].op = "remove"
    <3>1. scen.reqs[i].users # {}
      BY <1>1, <2>2, ScenariosAssumption, Zenon DEF Typed
    <3> QED
      BY <1>3, <2>2, <3>1 DEF Accepts, CanRemove
  <2>3. CASE scen.reqs[i].op = "removeOrg"
    BY <1>3, <2>3 DEF Accepts, CanRemoveOrg
  <2> QED
    BY <1>1, <2>1, <2>2, <2>3, Zenon DEF Requests
<1>5. Typed'
  BY <1>1, <1>2, <1>3, Zenon DEF Typed, Places, room, keys
<1>6. RoomFirst(scen.reqs, state', exists)
  BY <1>1, <1>3, <1>4, Zenon DEF Base, Typed, RoomFirst
<1>7. Base'
  BY <1>2, <1>5, <1>6, Zenon DEF Base, room
<1>8. KeyInv => KeyInv'
  BY <1>2, StoreStays, Zenon DEF KeyInv, Provisioning, room, keys
<1>9. LedgerStep
  BY <1>2 DEF LedgerStep, keys
<1> QED
  BY <1>7, <1>8, <1>9 DEF Preserved

(* The consumer hands a request to a goroutine. *)
LEMMA DeliverPreserves ==
  ASSUME Base, NEW w \in Workers, NEW i \in DOMAIN state, Deliver(w, i)
  PROVE  Preserved
<1>1. Typed /\ i \in DOMAIN scen.reqs /\ scen.reqs[i] \in Requests /\ i \in Nat /\ job[w] \in JobType
  BY ReqType, Zenon DEF Base, Typed
<1> DEFINE p == scen.reqs[i].op
           j == [job[w] EXCEPT !.m = i, !.pc = p]
<1>2. UNCHANGED <<scen, room, keys, held, ensure>> /\ job' = [job EXCEPT ![w] = j]
      /\ state' = [state EXCEPT ![i] = "running"]
  BY Zenon DEF Deliver
<1>3. p \in {"create", "add", "remove", "removeOrg"} /\ (p # "create" => exists) /\ p = scen.reqs[i].op
  BY <1>1 DEF Deliver, Requests, Base, RoomFirst
<1> HIDE DEF p
<1>4. p \in Steps
  BY <1>3, Zenon DEF Steps, CreateSteps, AddSteps, RemoveSteps
<1>5. j \in JobType /\ j.m = i /\ j.pc = p
  BY <1>1, <1>4, Zenon DEF JobType
<1> HIDE DEF j
<1>6. Belongs(j, scen.reqs, exists, crossSite)
  BY <1>1, <1>3, <1>5, Zenon DEF Belongs, Adding, CreateSteps, AddSteps, RemoveSteps
<1>7. Typed'
  BY <1>1, <1>2, <1>5, Zenon DEF Typed, Places, room, keys
<1>8. RoomFirst(scen.reqs, state', exists)
  BY <1>1, <1>2, <1>3, Zenon DEF Base, Typed, RoomFirst
<1>9. ASSUME NEW v \in Workers PROVE Belongs(job'[v], scen.reqs, exists, crossSite)
  BY <1>1, <1>2, <1>6, Zenon DEF Base, Typed
<1>10. Base'
  BY <1>2, <1>7, <1>8, <1>9, Zenon DEF Base, room
<1>11. ASSUME Provisioned, KeyInv PROVE KeyInv'
  <2>1. Store'
    BY <1>2, <1>11, StoreStays, Zenon DEF KeyInv, room
  <2>2. Paired(j, scen.reqs, IssuedIn(issued))
    BY <1>3, <1>5, Zenon DEF Paired
  <2> QED
    BY <1>1, <1>2, <1>5, <1>11, <2>1, <2>2, MoveKeys, Zenon DEF keys, KeyInv
<1>12. LedgerStep
  BY <1>2 DEF LedgerStep, keys
<1> QED
  BY <1>10, <1>11, <1>12 DEF Preserved

(* ensureRoomKey: a provisioned room never comes to its Set. *)
LEMMA EnsurePreserves ==
  ASSUME Base, EnsureGet \/ EnsureSet
  PROVE  Preserved
<1>1. CASE EnsureGet
  <2>1. UNCHANGED <<scen, state, job, room, keys, held>>
    BY <1>1 DEF EnsureGet
  <2>2. Base'
    BY <2>1, Zenon DEF Base, Typed, room, keys
  <2>3. ASSUME Provisioned, KeyInv PROVE KeyInv'
    <3>1. ensure' = "done"
      BY <1>1, <2>3, Zenon
      DEF EnsureGet, KeyInv, Store, Provisioning, Provisioned, Legacy, Base, Typed
    <3>2. Store'
      BY <2>1, <2>3, StoreStays, Zenon DEF KeyInv, room
    <3> QED
      BY <2>1, <2>3, <3>1, <3>2, Zenon DEF KeyInv, Provisioning, keys
  <2>4. LedgerStep
    BY <2>1 DEF LedgerStep, keys
  <2> QED
    BY <2>2, <2>3, <2>4 DEF Preserved
<1>2. CASE EnsureSet
  <2>1. UNCHANGED <<scen, state, job, room>> /\ key' = [ver |-> 0, secret |-> Fresh] /\ minted' = minted + 1
    BY <1>2, Zenon DEF EnsureSet, Set, Install
  <2>2. key' \in Pairs /\ minted' \in Nat
    BY <2>1 DEF Base, Typed, Fresh, Pairs
  <2>3. Base'
    BY <2>1, <2>2, Zenon DEF Base, Typed, room
  <2>4. KeyInv => FALSE
    BY <1>2 DEF EnsureSet, KeyInv, Provisioning
  <2> QED
    BY <2>3, <2>4 DEF Preserved
<1> QED
  BY <1>1, <1>2

(* Every step preserves the invariants, and is a step of the ledger. *)
LEMMA NextPreserves == Base /\ [Next]_vars => Preserved
<1> SUFFICES ASSUME Base, [Next]_vars PROVE Preserved
  OBVIOUS
<1>1. ASSUME NEW w \in Workers, Step(w) PROVE Preserved
  BY <1>1, CreateRoomPreserves, ExistingRoomSetPreserves, CreatePreserves, LoadPreserves,
     HealPreserves, AddPreserves, SendPreserves, RemovePreserves, RotationPreserves,
     ArchivePreserves, SharedPreserves, ZenonT(60)
  DEF Step
<1>2. CASE UNCHANGED vars
  <2>1. UNCHANGED <<scen, state, job, room, keys, held, ensure>>
    BY <1>2 DEF vars
  <2>2. Base'
    BY <2>1, Zenon DEF Base, Typed, room, keys
  <2>3. KeyInv => KeyInv'
    BY <2>1, StoreStays, Zenon DEF KeyInv, Provisioning, room, keys
  <2>4. LedgerStep
    BY <2>1 DEF LedgerStep, keys
  <2> QED
    BY <2>2, <2>3, <2>4 DEF Preserved
<1>3. CASE Next
  <2>1. CASE \E i \in DOMAIN state : Submit(i)
    BY <2>1, SubmitPreserves
  <2>2. CASE \E w \in Workers, i \in DOMAIN state : Deliver(w, i)
    BY <2>2, DeliverPreserves
  <2>3. CASE \E w \in Workers : Step(w)
    BY <2>3, <1>1
  <2>4. CASE \E w \in Workers : Fail(w)
    BY <2>4, SharedPreserves
  <2>5. CASE EnsureGet \/ EnsureSet
    BY <2>5, EnsurePreserves
  <2>6. CASE Rest
    BY <2>6, <1>2 DEF Rest
  <2> QED
    BY <1>3, <2>1, <2>2, <2>3, <2>4, <2>5, <2>6 DEF Next
<1> QED
  BY <1>2, <1>3
-----------------------------------------------------------------------------
(* Whatever the requests, the goroutines and the failures: a worker about to
   announce a room to members of another site finds it marked cross-site,
   because the mark lands before the first write of the handler that adds them
   and is never taken back. *)
THEOREM CrossSiteFirst == Spec => []AnnouncedAsCrossSite
<1>1. Init => Base
  BY InitBase
<1>2. Base /\ [Next]_vars => Base'
  BY NextPreserves DEF Preserved
<1>3. Base => AnnouncedAsCrossSite
  BY Zenon DEF Base, Belongs, Adding, AnnouncedAsCrossSite, At
<1> QED
  BY <1>1, <1>2, <1>3, PTL DEF Spec

(* In a room that is created with its key, and in one from before keys that is
   only healed and rotated, the key implements KeyLedger, whatever races. *)
THEOREM KeysRefineLedger == ASSUME Provisioned PROVE Spec => KeysAreLedger
<1>1. Init => Base /\ KeyInv
  BY InitBase, InitKeys
<1>2. Base /\ KeyInv /\ [Next]_vars => Base' /\ KeyInv' /\ [Ledger!Issue \/ Ledger!Send]_<<issued, held>>
  BY NextPreserves DEF Preserved, LedgerStep
<1>3. Init => Ledger!Init
  <2> SUFFICES ASSUME Init PROVE Ledger!Init
    OBVIOUS
  <2>1. KeyInv /\ key \in {NoKey, [ver |-> 0, secret |-> 1]}
    BY InitKeys, ScenariosAssumption, Zenon DEF Init
  <2>2. CASE key = NoKey
    <3>1. issued = <<>> /\ held = [a \in Accounts |-> {}]
      BY <2>2, Zenon DEF Init
    <3> QED
      BY <3>1 DEF Ledger!Init
  <2>3. CASE key # NoKey
    <3>1. key = [ver |-> 0, secret |-> 1] /\ issued = <<1>>
      <4>1. key = [ver |-> 0, secret |-> 1] /\ issued = <<key.secret>>
        BY <2>1, <2>3, Zenon DEF Init
      <4> QED
        BY <4>1, Zenon
    <3>2. Ledger!Issued = {key}
      BY <3>1 DEF Ledger!Issued
    <3>3. held \in [Accounts -> {{}, {key}}]
      BY <2>3, Zenon DEF Init
    <3>4. issued \in Seq(Nat) /\ Len(issued) <= 1
      BY <3>1
    <3> QED
      BY <3>2, <3>3, <3>4, SMTT(60) DEF Ledger!Init
  <2> QED
    BY <2>2, <2>3
<1> QED
  BY <1>1, <1>2, <1>3, PTL DEF Spec, KeysAreLedger, Ledger!Spec

(* In the same rooms, every pair anybody was sent can be had back by its
   version, with its bytes, unless its archive write failed or came too late: the
   previous slot covers for it until the next rotation. *)
THEOREM KeysStayRetrievable == ASSUME Provisioned PROVE Spec => []KeysRetrievable
<1>1. Init => Base /\ KeyInv
  BY InitBase, InitKeys
<1>2. Base /\ KeyInv /\ [Next]_vars => Base' /\ KeyInv'
  BY NextPreserves DEF Preserved
<1>3. Base /\ KeyInv => KeysRetrievable
  <2> SUFFICES ASSUME Base, KeyInv, NEW a \in Accounts, NEW p \in held[a], p.ver \notin dropped
               PROVE  GetByVersion(p.ver) = {p}
    BY Zenon DEF KeysRetrievable
  <2>1. p \in IssuedIn(issued) /\ Store /\ Typed
    BY Zenon DEF KeyInv, Base
  <2>2. p = key \/ p \in retired \cup Previous
    BY <2>1, ZenonT(60) DEF Store, Archived
  <2>3. key # NoKey
    <3>1. ASSUME key = NoKey PROVE FALSE
      <4>1. issued = <<>>
        BY <2>1, <3>1, Zenon DEF Store
      <4>2. PICK v \in 1..Len(issued) : TRUE
        BY <2>1, Zenon DEF IssuedIn
      <4> QED
        BY <4>1, <4>2
    <3> QED
      BY <3>1, Zenon
  <2>4. retired \cup Previous \cup {key} \subseteq IssuedIn(issued)
    <3>1. Previous \subseteq IssuedIn(issued)
      BY <2>1, Zenon DEF Store, Archived, Previous
    <3> QED
      BY <2>1, <2>3, <3>1, CurrentIssued, Zenon DEF Store, Archived
  <2>5. ASSUME NEW q \in IssuedIn(issued), q.ver = p.ver PROVE q = p
    BY <2>1, <2>5, OneVersion, Zenon
  <2> QED
    BY <2>2, <2>3, <2>4, <2>5, Zenon DEF GetByVersion
<1> QED
  BY <1>1, <1>2, <1>3, PTL DEF Spec
-----------------------------------------------------------------------------
(* Who leaves with r, and the steps of its handler before it knows them, and
   before it has replaced the key they hold. *)
Removal(r, a) ==
  \/ r.op = "remove" /\ a \in r.users
  \/ r.op = "removeOrg" /\ a \in MembersOf(r.orgs)
Unloaded == {"remove", "removeOrg", "rmLoad", "orgLoad"}
Unrotated == {"rmRow", "rmSub", "orgSubs", "orgRow", "count", "recount", "survivors", "rotate"}

(* A failed removal will rotate the key away from a, and w is going to. *)
Waiting(a) == \E i \in DOMAIN state : state[i] = "retry" /\ Removal(scen.reqs[i], a)
Owes(w, a) ==
  (job[w].pc \in Unloaded \/ (job[w].pc \in Unrotated /\ a \in job[w].new)) /\ Removal(Req(w), a)

(* Whoever left and holds the current key is rotated away by a removal that runs or waits. *)
Leavers ==
  key # NoKey => \A a \in Accounts \ subs : key \in held[a] => Waiting(a) \/ \E w \in Workers : Owes(w, a)

(* No key in use was minted later than the last one. *)
Minted ==
  /\ \A a \in Accounts : \A p \in held[a] \cap Pairs : p.secret <= minted
  /\ key \in Pairs => key.secret <= minted
  /\ \A w \in Workers : job[w].pair \in Pairs => job[w].pair.secret <= minted

(* A removal that found the room without a key: a key it has now was sent to nobody. *)
Unkeyed ==
  \A w \in Workers :
    job[w].pc \in Unrotated \cup {"rmLoad", "orgLoad"} /\ Req(w).op \in {"remove", "removeOrg"}
      /\ job[w].pair = NoKey /\ key # NoKey => \A a \in Accounts : key \notin held[a]

(* The room was created with a key. *)
Keyed == scen.room.exists => scen.room.key # NoKey

(* Such a room always has a key, and nobody mints another in its place. *)
Provided ==
  Keyed =>
    /\ exists => key # NoKey
    /\ ~exists => subs = {}
    /\ ensure # "absent"
    /\ \A w \in Workers : job[w].pc # "createSet"

(* w is going to send the current key to a. *)
Told(w, a) ==
  /\ job[w].pair = key
  /\ \/ a \in job[w].new /\ job[w].pc \in {"createRows", "cross", "addList", "addRows", "addCount", "told"}
     \/ a \in job[w].new /\ job[w].pc \in {"count", "recount"} /\ Req(w).op \in {"create", "add"}
     \/ a \in job[w].rows /\ At(w, "fanOut")

(* Nothing was lost so far, so everybody has what was sent. *)
Sure == Keyed /\ faults = 0 /\ key # NoKey

(* Every member holds the current key or is about to be sent it. *)
Supplied ==
  Sure =>
    /\ \A a \in subs : key \in held[a] \/ \E w \in Workers : Told(w, a)
    /\ \A w \in Workers : job[w].pc \in {"createSubs", "addSubs"} => job[w].pair = key

(* Only creations and additions announce members. *)
Telling == \A w \in Workers : At(w, "told") => Req(w).op \in {"create", "add"}

(* The inductive invariant of the keys. *)
Custody == Leavers /\ Minted /\ Unkeyed /\ Provided /\ Supplied /\ Telling /\ faults \in Nat
-----------------------------------------------------------------------------
(* The others are idle: they owe nobody a rotation, and send nothing. *)
LEMMA OthersIdle ==
  ASSUME Solo, NEW w \in Workers, job[w].pc # "idle", NEW v \in Workers, v # w
  PROVE  job[v].pc = "idle" /\ \A a : ~Owes(v, a) /\ ~Told(v, a)
<1>1. job[v].pc = "idle"
  BY Zenon DEF Solo
<1> QED
  BY <1>1, Zenon DEF Owes, Told, Unloaded, Unrotated, At

(* And they stay idle. *)
LEMMA OthersStayIdle ==
  ASSUME Solo, NEW w \in Workers, job[w].pc # "idle", NEW v \in Workers, v # w, job'[v] = job[v]
  PROVE  job'[v].pc = "idle" /\ \A a : ~Owes(v, a)' /\ ~Told(v, a)'
<1>1. job'[v].pc = "idle"
  <2>1. job[v].pc = "idle"
    BY Zenon DEF Solo
  <2> QED
    BY <2>1, Zenon
<1> QED
  BY <1>1, Zenon DEF Owes, Told, Unloaded, Unrotated, At

(* What a step that has nothing to do with keys leaves alone. *)
CalmVars == <<scen, state, exists, key, minted, held, ensure, faults>>

(* A step of w that neither writes nor sends a key. *)
LEMMA CustodyCalm ==
  ASSUME Base, Serial, Custody, NEW w \in Workers, job[w].pc # "idle", Moved(w), UNCHANGED CalmVars,
         job'[w].pair \in {job[w].pair, key},
         Keyed => job'[w].pc # "createSet",
         job'[w].pc = "told" => Req(w).op \in {"create", "add"},
         exists \/ subs' = subs,
         \A a \in Accounts \ subs' : key \in held[a] /\ (a \in subs \/ Owes(w, a)) => Owes(w, a)' \/ Waiting(a),
         Req(w).op \in {"remove", "removeOrg"} /\ job'[w].pc \in Unrotated \cup {"rmLoad", "orgLoad"} =>
           \/ job'[w].pair = key
           \/ job[w].pc \in Unrotated \cup {"rmLoad", "orgLoad"} /\ job'[w].pair = job[w].pair,
         Sure => /\ \A a \in subs' : a \notin subs \/ Told(w, a) => Told(w, a)'
                 /\ job'[w].pc \in {"createSubs", "addSubs"} => job'[w].pair = key
  PROVE  Custody'
<1>1. UNCHANGED <<scen, state, exists, key, minted, held, ensure, faults>> /\ Req(w)' = Req(w)
  BY Zenon DEF CalmVars, Req, Moved
<1>2. \A a : Waiting(a)' <=> Waiting(a)
  BY <1>1, Zenon DEF Waiting
<1>3. Solo /\ \A v \in Workers : v # w => job'[v] = job[v]
  BY Zenon DEF Serial, Moved
<1>4. \A v \in Workers : v # w => job'[v].pc = "idle" /\ job'[v] = job[v] /\ \A a : ~Owes(v, a)' /\ ~Told(v, a)'
  BY <1>3, OthersStayIdle, Zenon
<1>5. \A v \in Workers : v # w => job[v].pc = "idle" /\ \A a : ~Owes(v, a) /\ ~Told(v, a)
  BY <1>3, OthersIdle, Zenon
<1>6. Leavers'
  <2> SUFFICES ASSUME key # NoKey, NEW a \in Accounts \ subs', key \in held[a]
               PROVE  Waiting(a) \/ \E v \in Workers : Owes(v, a)'
    BY <1>1, <1>2, Zenon DEF Leavers
  <2>1. CASE a \in subs \/ Owes(w, a)
    BY <2>1, Zenon
  <2>2. CASE a \notin subs /\ ~Owes(w, a)
    <3>1. Waiting(a) \/ \E v \in Workers : Owes(v, a)
      BY <2>2, Zenon DEF Custody, Leavers
    <3> QED
      BY <1>5, <2>2, <3>1, Zenon
  <2> QED
    BY <2>1, <2>2, Zenon
<1>7. Minted'
  <2>1. \A v \in Workers : job'[v].pair \in Pairs => job'[v].pair.secret <= minted
    BY <1>3, Zenon DEF Custody, Minted
  <2> QED
    BY <1>1, <2>1, Zenon DEF Custody, Minted
<1>8. Unkeyed'
  <2> SUFFICES ASSUME NEW v \in Workers, Req(v)'.op \in {"remove", "removeOrg"},
                      job'[v].pc \in Unrotated \cup {"rmLoad", "orgLoad"},
                      job'[v].pair = NoKey, key # NoKey
               PROVE  \A a \in Accounts : key \notin held[a]
    BY <1>1, Zenon DEF Unkeyed
  <2>1. v = w
    BY <1>4, Zenon DEF Unrotated
  <2> QED
    BY <1>1, <2>1, Zenon DEF Custody, Unkeyed
<1>9. Provided'
  <2> SUFFICES ASSUME Keyed PROVE /\ exists => key # NoKey
                                  /\ ~exists => subs' = {}
                                  /\ ensure # "absent"
                                  /\ \A v \in Workers : job'[v].pc # "createSet"
    BY <1>1, Zenon DEF Provided, Keyed
  <2>1. (exists => key # NoKey) /\ (~exists => subs = {}) /\ ensure # "absent"
    BY Zenon DEF Custody, Provided
  <2> QED
    BY <1>4, <2>1, Zenon
<1>10. Supplied'
  <2> SUFFICES ASSUME Sure PROVE /\ \A a \in subs' : key \in held[a] \/ \E v \in Workers : Told(v, a)'
                                 /\ \A v \in Workers : job'[v].pc \in {"createSubs", "addSubs"} => job'[v].pair = key
    BY <1>1, Zenon DEF Supplied, Sure, Keyed
  <2>1. ASSUME NEW a \in subs' PROVE key \in held[a] \/ \E v \in Workers : Told(v, a)'
    <3>1. CASE a \in subs /\ ~Told(w, a)
      BY <1>5, <3>1, Zenon DEF Custody, Supplied
    <3>2. CASE a \notin subs \/ Told(w, a)
      BY <3>2, Zenon
    <3> QED
      BY <3>1, <3>2, Zenon
  <2>2. ASSUME NEW v \in Workers, job'[v].pc \in {"createSubs", "addSubs"} PROVE job'[v].pair = key
    <3>1. v = w
      BY <1>4, <2>2, Zenon
    <3> QED
      BY <2>2, <3>1, Zenon
  <2> QED
    BY <2>1, <2>2, Zenon
<1>11. Telling'
  <2> SUFFICES ASSUME NEW v \in Workers, job'[v].pc = "told" PROVE Req(v)'.op \in {"create", "add"}
    BY Zenon DEF Telling, At
  <2>1. v = w
    BY <1>4, Zenon
  <2> QED
    BY <1>1, <2>1, Zenon
<1> QED
  BY <1>1, <1>6, <1>7, <1>8, <1>9, <1>10, <1>11, Zenon DEF Custody

(* A fresh pair becomes the key, and is not sent yet. *)
Rekeyed ==
  /\ key' \in Pairs /\ key'.secret = minted + 1 /\ minted' = minted + 1 /\ held' = held

(* Nobody holds it. *)
LEMMA RekeyedUnsent ==
  ASSUME Typed, Minted, Rekeyed
  PROVE  \A a \in Accounts : key' \notin held'[a]
<1> SUFFICES ASSUME NEW a \in Accounts, key' \in held[a] PROVE FALSE
  BY Zenon DEF Rekeyed
<1>1. key' \in held[a] \cap Pairs
  BY DEF Rekeyed
<1>2. key'.secret <= minted
  BY <1>1, Zenon DEF Minted
<1> QED
  BY <1>2 DEF Rekeyed, Typed

(* It is the last one minted. *)
LEMMA RekeyedMinted ==
  ASSUME Typed, Minted, Rekeyed, \A v \in Workers : job'[v].pair = job[v].pair \/ job'[v].pair = key'
  PROVE  Minted'
<1>1. minted \in Nat
  BY Zenon DEF Typed
<1>2. ASSUME NEW a \in Accounts, NEW p \in held'[a] \cap Pairs PROVE p.secret <= minted'
  <2>1. p.secret <= minted /\ p.secret \in Nat
    BY Zenon DEF Minted, Rekeyed, Pairs
  <2> QED
    BY <1>1, <2>1 DEF Rekeyed
<1>3. key'.secret <= minted'
  BY <1>1 DEF Rekeyed
<1>4. ASSUME NEW v \in Workers, job'[v].pair \in Pairs PROVE job'[v].pair.secret <= minted'
  <2>1. CASE job'[v].pair = key'
    BY <1>3, <2>1, Zenon
  <2>2. CASE job'[v].pair = job[v].pair
    <3>1. job[v].pair.secret <= minted /\ job[v].pair.secret \in Nat
      BY <1>4, <2>2, Zenon DEF Minted, Pairs
    <3> QED
      BY <1>1, <2>2, <3>1 DEF Rekeyed
  <2> QED
    BY <2>1, <2>2, Zenon
<1> QED
  BY <1>2, <1>3, <1>4, Zenon DEF Minted

(* A step of w that writes a key. *)
LEMMA CustodyRekeyed ==
  ASSUME Base, Serial, Custody, NEW w \in Workers, job[w].pc # "idle", Moved(w), Rekeyed,
         UNCHANGED <<scen, subs, ensure>>, exists', job'[w].pair = key',
         faults' \in Nat, job'[w].pc \notin {"createSet", "told"},
         Keyed => \A a \in subs : Told(w, a)'
  PROVE  Custody'
<1>1. key' # NoKey /\ Req(w)' = Req(w) /\ Typed /\ Minted
  BY NoKeyAssumption, Zenon DEF Rekeyed, Req, Moved, Pairs, Base, Custody
<1>2. \A a \in Accounts : key' \notin held'[a]
  BY <1>1, RekeyedUnsent, Zenon
<1>3. Solo /\ \A v \in Workers : v # w => job'[v] = job[v]
  BY Zenon DEF Serial, Moved
<1>4. \A v \in Workers : v # w => job'[v].pc = "idle" /\ job'[v] = job[v]
  BY <1>3, OthersStayIdle, Zenon
<1>5. Minted'
  BY <1>1, <1>4, RekeyedMinted, Zenon
<1>6. Leavers' /\ Unkeyed'
  BY <1>2, Zenon DEF Leavers, Unkeyed
<1>7. Provided'
  <2>1. \A v \in Workers : job'[v].pc # "createSet"
    BY <1>4, Zenon
  <2> QED
    BY <1>1, <2>1, Zenon DEF Custody, Provided, Keyed
<1>8. Supplied'
  <2>1. \A v \in Workers : job'[v].pc \in {"createSubs", "addSubs"} => job'[v].pair = key'
    BY <1>4, Zenon
  <2> QED
    BY <2>1, Zenon DEF Supplied, Sure, Keyed
<1>9. Telling'
  <2>1. \A v \in Workers : job'[v].pc # "told"
    BY <1>4, Zenon
  <2> QED
    BY <2>1, Zenon DEF Telling, At
<1> QED
  BY <1>5, <1>6, <1>7, <1>8, <1>9, Zenon DEF Custody

(* A step of w that sends its key to members. *)
LEMMA CustodySent ==
  ASSUME Base, Serial, Custody, AccountsCount, NEW w \in Workers, job[w].pc # "idle", Moved(w), job'[w].pc = "publish",
         UNCHANGED <<scen, state, exists, subs, key, minted, ensure>>, job'[w].pair = job[w].pair,
         NEW to, NEW lost, SendKey(to, job[w].pair, lost), to \subseteq subs,
         \A a : ~Owes(w, a), \A a : Told(w, a) => a \in to
  PROVE  Custody'
<1>1. Solo /\ Typed /\ \A v \in Workers : v # w => job'[v] = job[v]
  BY Zenon DEF Serial, Moved, Base
<1>2. \A v \in Workers : v # w => job'[v].pc = "idle" /\ job'[v] = job[v]
  BY <1>1, OthersStayIdle, Zenon
<1>3. \A v \in Workers : v # w => \A a : ~Owes(v, a) /\ ~Told(v, a)
  BY <1>1, OthersIdle, Zenon
<1>4. \A a : Waiting(a)' <=> Waiting(a)
  BY Zenon DEF Waiting
<1>5. /\ \A a \in Accounts : held'[a] = IF a \in to \ lost THEN held[a] \cup {job[w].pair} ELSE held[a]
      /\ faults' = faults + Cardinality(lost) /\ lost \subseteq to
  BY Zenon DEF SendKey
<1>6. Cardinality(lost) \in Nat /\ (Cardinality(lost) = 0 => lost = {})
  <2>1. lost \subseteq Accounts
    BY <1>1, <1>5, Zenon DEF Typed
  <2> QED
    BY <2>1, Zenon DEF AccountsCount
<1>7. faults \in Nat
  BY Zenon DEF Custody
<1>8. Leavers'
  <2> SUFFICES ASSUME key # NoKey, NEW a \in Accounts \ subs, key \in held'[a] PROVE Waiting(a)
    BY <1>4, Zenon DEF Leavers
  <2>1. key \in held[a]
    BY <1>5, Zenon
  <2>2. Waiting(a) \/ \E v \in Workers : Owes(v, a)
    BY <2>1, Zenon DEF Custody, Leavers
  <2> QED
    BY <1>3, <2>2, Zenon
<1>9. Minted'
  <2>1. \A a \in Accounts : \A p \in held'[a] \cap Pairs : p.secret <= minted
    BY <1>5, ZenonT(60) DEF Custody, Minted
  <2>2. \A v \in Workers : job'[v].pair = job[v].pair
    BY <1>2, Zenon
  <2> QED
    BY <2>1, <2>2, Zenon DEF Custody, Minted
<1>10. \A v \in Workers : job'[v].pc \in {"idle", "publish"}
  BY <1>2, Zenon
<1>11. Unkeyed' /\ Telling'
  <2>1. \A v \in Workers : job'[v].pc \notin Unrotated \cup {"rmLoad", "orgLoad", "told"}
    BY <1>10, Zenon DEF Unrotated
  <2> QED
    BY <2>1, Zenon DEF Unkeyed, Telling, At
<1>12. Provided'
  <2>1. \A v \in Workers : job'[v].pc # "createSet"
    BY <1>10, Zenon
  <2> QED
    BY <2>1, Zenon DEF Custody, Provided, Keyed
<1>13. Supplied'
  <2> SUFFICES ASSUME Keyed, faults' = 0, key # NoKey
               PROVE  \A a \in subs : key \in held'[a]
    <3>1. \A v \in Workers : job'[v].pc \notin {"createSubs", "addSubs"}
      BY <1>10, Zenon
    <3> QED
      BY <3>1, Zenon DEF Supplied, Sure, Keyed
  <2>1. faults = 0 /\ lost = {}
    <3>1. faults + Cardinality(lost) = 0
      BY <1>5, Zenon
    <3> QED
      BY <1>6, <1>7, <3>1, NatSum, Zenon
  <2>2. ASSUME NEW a \in subs PROVE key \in held'[a]
    <3>1. a \in Accounts
      BY <1>1, Zenon DEF Typed
    <3>2. key \in held[a] \/ Told(w, a)
      BY <1>3, <2>1, Zenon DEF Custody, Supplied, Sure
    <3>3. CASE key \in held[a]
      BY <1>5, <3>1, <3>3, Zenon
    <3>4. CASE Told(w, a)
      <4>1. a \in to /\ job[w].pair = key
        BY <3>4, Zenon DEF Told
      <4> QED
        BY <1>5, <2>1, <3>1, <4>1, Zenon
    <3> QED
      BY <3>2, <3>3, <3>4, Zenon
  <2> QED
    BY <2>2, Zenon
<1>14. faults' \in Nat
  BY <1>5, <1>6, <1>7, NatSum, Zenon
<1> QED
  BY <1>8, <1>9, <1>11, <1>12, <1>13, <1>14, Zenon DEF Custody

(* The end of w's handler. *)
LEMMA CustodyEnded ==
  ASSUME Base, Serial, Custody, NEW w \in Workers, Ready(w), job[w].pc # "idle",
         UNCHANGED <<scen, exists, key, minted, held, ensure>>, subs \subseteq subs',
         \/ Nak(w)
         \/ Ack(w) /\ \A a \in Accounts : ~Owes(w, a),
         exists \/ subs' = subs, faults' \in Nat,
         faults' = 0 => faults = 0 /\ subs' = subs /\ \A a : ~Told(w, a)
  PROVE  Custody'
<1>1. Typed /\ Solo /\ job[w].m \in DOMAIN state /\ Req(w) = scen.reqs[job[w].m] /\ job \in [Workers -> JobType]
  BY Zenon DEF Ready, Typed
<1>2. \A v \in Workers : job'[v].pc = "idle" /\ job'[v].pair = NoKey
  <2>1. Ended(w)
    BY <1>1, Zenon DEF Ack, Nak, Ended
  <2>2. \A v \in Workers : v # w => job'[v] = Idle
    <3>1. \A v \in Workers : job[v].pc = "idle" => job[v] = Idle
      BY Zenon DEF Base, Belongs
    <3> QED
      BY <1>1, <2>1, <3>1, Zenon DEF Ended, Solo
  <2> QED
    BY <2>1, <2>2, IdlePc, IdlePair, Zenon DEF Ended
<1>3. \A v \in Workers : v # w => \A a : ~Owes(v, a) /\ ~Told(v, a)
  BY <1>1, OthersIdle, Zenon
<1>4. Leavers'
  <2> SUFFICES ASSUME key # NoKey, NEW a \in Accounts \ subs', key \in held[a] PROVE Waiting(a)'
    BY Zenon DEF Leavers
  <2>1. Waiting(a) \/ Owes(w, a)
    BY <1>3, Zenon DEF Custody, Leavers
  <2>2. CASE Waiting(a)
    <3>1. PICK i \in DOMAIN state : state[i] = "retry" /\ Removal(scen.reqs[i], a)
      BY <2>2, Zenon DEF Waiting
    <3>2. i # job[w].m
      BY <3>1, Zenon DEF Serial, Solo
    <3>3. i \in DOMAIN state' /\ state'[i] = "retry"
      BY <1>1, <3>1, <3>2, Zenon DEF Ack, Nak
    <3> QED
      BY <3>1, <3>3, Zenon DEF Waiting
  <2>3. CASE Owes(w, a)
    <3>1. Nak(w)
      BY <2>3, Zenon
    <3>2. job[w].m \in DOMAIN state' /\ state'[job[w].m] = "retry"
      BY <1>1, <3>1, Zenon DEF Nak
    <3> QED
      BY <1>1, <2>3, <3>2, Zenon DEF Waiting, Owes
  <2> QED
    BY <2>1, <2>2, <2>3, Zenon
<1>5. Minted'
  <2>1. \A v \in Workers : job'[v].pair \notin Pairs
    BY <1>2, NoKeyAssumption, Zenon DEF Pairs
  <2> QED
    BY <2>1, Zenon DEF Custody, Minted
<1>6. \A v \in Workers : job'[v].pc \notin Unrotated \cup {"rmLoad", "orgLoad", "told", "createSet", "createSubs", "addSubs"}
  BY <1>2, Zenon DEF Unrotated
<1>7. Unkeyed' /\ Telling'
  BY <1>6, Zenon DEF Unkeyed, Telling, At
<1>8. Provided'
  BY <1>6, Zenon DEF Custody, Provided, Keyed
<1>9. Supplied'
  BY <1>3, <1>6, Zenon DEF Custody, Supplied, Sure, Keyed
<1> QED
  BY <1>4, <1>5, <1>7, <1>8, <1>9, Zenon DEF Custody
-----------------------------------------------------------------------------
(* The steps of a creation or an addition from its subscriptions to the events
   that carry the key. *)
Spreading == {"createRows", "cross", "addList", "addRows", "addCount", "count", "recount", "told"}

(* A step of a creation or an addition that neither writes nor sends a key. *)
LEMMA CustodyAdding ==
  ASSUME Base, Serial, Custody, NEW w \in Workers, job[w].pc # "idle", Moved(w), UNCHANGED CalmVars,
         Req(w).op \in {"create", "add"}, job'[w].pair \in {job[w].pair, key},
         Keyed => job'[w].pc # "createSet",
         exists \/ subs' = subs, subs \subseteq subs',
         Sure => /\ \A a \in subs' : a \notin subs \/ Told(w, a) => Told(w, a)'
                 /\ job'[w].pc \in {"createSubs", "addSubs"} => job'[w].pair = key
  PROVE  Custody'
<1>1. Req(w).op \notin {"remove", "removeOrg"}
  BY Zenon
<1>2. \A a : ~Owes(w, a)
  BY Zenon DEF Owes, Removal
<1>3. \A a \in Accounts \ subs' : ~(a \in subs \/ Owes(w, a))
  BY <1>2, Zenon
<1> QED
  BY <1>1, <1>3, CustodyCalm, Zenon

(* What it owes its members it still owes them. *)
LEMMA CustodySpreads ==
  ASSUME Base, Serial, Custody, NEW w \in Workers, Ready(w), job[w].pc # "idle", Moved(w), UNCHANGED CalmVars, subs' = subs,
         Req(w).op \in {"create", "add"}, job'[w].pair = job[w].pair, job'[w].new = job[w].new,
         job'[w].pc \in Spreading
  PROVE  Custody'
<1>1. Req(w)' = Req(w) /\ key' = key
  BY Zenon DEF CalmVars, Req, Moved
<1>2. job[w].pc # "fanOut"
  BY Zenon DEF Ready, Belongs, RemoveSteps
<1>3. ASSUME NEW a, Told(w, a) PROVE Told(w, a)'
  <2>1. job[w].pair = key /\ a \in job[w].new
    BY <1>2, <1>3, Zenon DEF Told, At
  <2> QED
    BY <1>1, <2>1, Zenon DEF Told, Spreading
<1>4. job'[w].pc \notin {"createSet", "createSubs", "addSubs"}
  BY Zenon DEF Spreading
<1> QED
  BY <1>3, <1>4, CustodyAdding, Zenon

(* It has not begun to subscribe its members. *)
LEMMA CustodyReads ==
  ASSUME Base, Serial, Custody, NEW w \in Workers, Ready(w), Moved(w), UNCHANGED CalmVars, subs' = subs,
         job[w].pc \in {"create", "createKey", "add", "addKey", "addHeal"},
         job'[w].pair \in {job[w].pair, key}, Keyed => job'[w].pc # "createSet",
         job'[w].pc \in {"createSubs", "addSubs"} => job'[w].pair = key
  PROVE  Custody'
<1>1. job[w].pc # "idle" /\ \A a : ~Told(w, a)
  BY Zenon DEF Told, At
<1>2. Req(w).op \in {"create", "add"}
  BY <1>1, Zenon DEF Ready, Belongs, CreateSteps, AddSteps
<1> QED
  BY <1>1, <1>2, CustodyAdding, Zenon

(* It subscribes them: it has their key, and will send it. *)
LEMMA CustodySubscribes ==
  ASSUME Base, Serial, Custody, NEW w \in Workers, Ready(w), Moved(w), UNCHANGED CalmVars,
         job[w].pc \in {"createSubs", "addSubs"}, subs' = subs \cup job'[w].new,
         job'[w].pair = job[w].pair, job'[w].pc \in {"createRows", "count", "addList"}
  PROVE  Custody'
<1>1. job[w].pc # "idle" /\ \A a : ~Told(w, a)
  BY Zenon DEF Told, At
<1>2. Req(w).op \in {"create", "add"} /\ exists
  BY <1>1, Zenon DEF Ready, Belongs, CreateSteps, AddSteps
<1>3. Req(w)' = Req(w) /\ key' = key
  BY Zenon DEF CalmVars, Req, Moved
<1>4. Sure => job[w].pair = key
  BY Zenon DEF Custody, Supplied
<1>5. Sure => \A a \in subs' : a \notin subs => Told(w, a)'
  BY <1>2, <1>3, <1>4, Zenon DEF Told
<1> QED
  BY <1>1, <1>2, <1>5, CustodyAdding, Zenon
-----------------------------------------------------------------------------
(* Where a fresh pair is written, it is the key now. *)
LEMMA InstalledNow ==
  ASSUME Typed, NEW v \in Nat, Install([ver |-> v, secret |-> Fresh]), held' = held
  PROVE  Rekeyed /\ key' = [ver |-> v, secret |-> Fresh]
BY DEF Install, Rekeyed, Fresh, Pairs, Typed

(* processCreateRoom. *)
LEMMA CreateCustody ==
  ASSUME Base, Serial, Custody, NEW w \in Workers, Ready(w),
         CreateRoom(w) \/ ExistingRoomKey(w) \/ ExistingRoomSet(w) \/ CreateSubs(w) \/ CreateRows(w) \/ CreateCrossSite(w)
  PROVE  Custody'
<1>1. job \in [Workers -> JobType] /\ Typed /\ faults \in Nat /\ Provided
  BY Zenon DEF Base, Typed, Custody
<1>2. ASSUME CreateRoom(w) PROVE Custody'
  <2>1. job[w].pc = "create" /\ job[w].pc # "idle"
    BY <1>2 DEF CreateRoom, At
  <2>2. CASE exists
    <3>1. Goto(w, "createKey") /\ UNCHANGED CalmVars /\ subs' = subs
      BY <1>2, <2>2 DEF CreateRoom, CalmVars, keys
    <3>2. Moved(w) /\ job'[w].pc = "createKey" /\ job'[w].pair = job[w].pair
      BY <1>1, <3>1 DEF Goto, JobType, Moved
    <3> QED
      BY <2>1, <3>1, <3>2, CustodyReads, Zenon
  <2>3. CASE ~exists
    <3>1. exists' /\ UNCHANGED <<scen, subs, ensure, faults, held>> /\ Set
      BY <1>2, <2>3, Zenon DEF CreateRoom
    <3>2. job' = [job EXCEPT ![w].pc = "createSubs", ![w].pair = key']
      BY <1>2, <2>3, Zenon DEF CreateRoom
    <3>3. Moved(w) /\ job'[w].pc = "createSubs" /\ job'[w].pair = key'
      BY <1>1, <3>2 DEF Moved, JobType
    <3>4. Rekeyed
      BY <1>1, <3>1, InstalledNow, Zenon DEF Set
    <3>5. Keyed => subs = {}
      BY <1>1, <2>3, Zenon DEF Provided
    <3> QED
      BY <1>1, <2>1, <3>1, <3>3, <3>4, <3>5, CustodyRekeyed, Zenon
  <2> QED
    BY <2>2, <2>3
<1>3. ASSUME ExistingRoomKey(w) PROVE Custody'
  <2>1. job[w].pc = "createKey" /\ job[w].pc # "idle"
    BY <1>3 DEF ExistingRoomKey, At
  <2>2. exists
    BY <2>1, Zenon DEF Ready, Belongs
  <2>3. UNCHANGED CalmVars /\ subs' = subs
    BY <1>3 DEF ExistingRoomKey, CalmVars, keys, room
  <2>4. CASE key = NoKey
    <3>1. Goto(w, "createSet")
      BY <1>3, <2>4 DEF ExistingRoomKey
    <3>2. Moved(w) /\ job'[w].pc = "createSet" /\ job'[w].pair = job[w].pair
      BY <1>1, <3>1 DEF Goto, JobType, Moved
    <3>3. ~Keyed
      BY <1>1, <2>2, <2>4 DEF Provided
    <3> QED
      BY <2>1, <2>3, <3>2, <3>3, CustodyReads, Zenon
  <2>5. CASE key # NoKey
    <3>1. job' = [job EXCEPT ![w].pc = "createSubs", ![w].pair = key]
      BY <1>3, <2>5 DEF ExistingRoomKey
    <3>2. Moved(w) /\ job'[w].pc = "createSubs" /\ job'[w].pair = key
      BY <1>1, <3>1 DEF Moved, JobType
    <3> QED
      BY <2>1, <2>3, <3>2, CustodyReads, Zenon
  <2> QED
    BY <2>4, <2>5
<1>4. ASSUME ExistingRoomSet(w) PROVE Custody'
  <2>1. job[w].pc = "createSet" /\ job[w].pc # "idle"
    BY <1>4 DEF ExistingRoomSet, At
  <2>2. exists /\ ~Keyed
    BY <1>1, <2>1, Zenon DEF Ready, Belongs, Provided
  <2>3. UNCHANGED <<scen, subs, ensure, faults, held, exists>> /\ Set
    BY <1>4, Zenon DEF ExistingRoomSet, room
  <2>4. job' = [job EXCEPT ![w].pc = "createSubs", ![w].pair = key']
    BY <1>4, Zenon DEF ExistingRoomSet
  <2>5. Moved(w) /\ job'[w].pc = "createSubs" /\ job'[w].pair = key'
    BY <1>1, <2>4 DEF Moved, JobType
  <2>6. Rekeyed
    BY <1>1, <2>3, InstalledNow, Zenon DEF Set
  <2> QED
    BY <1>1, <2>1, <2>2, <2>3, <2>5, <2>6, CustodyRekeyed, Zenon
<1>5. ASSUME CreateSubs(w) PROVE Custody'
  <2>1. job[w].pc = "createSubs"
    BY <1>5 DEF CreateSubs, At
  <2>2. UNCHANGED CalmVars
    BY <1>5 DEF CreateSubs, CalmVars, keys
  <2> DEFINE new == {Req(w).by} \cup Req(w).users \cup MembersOf(Req(w).orgs)
  <2>3. subs' = subs \cup new
    BY <1>5, Zenon DEF CreateSubs
  <2>4. job' = [job EXCEPT ![w].new = new, ![w].pc = IF Req(w).orgs = {} THEN "count" ELSE "createRows"]
    BY <1>5, Zenon DEF CreateSubs
  <2> HIDE DEF new
  <2>5. Moved(w) /\ job'[w].pc \in {"createRows", "count"} /\ job'[w].pair = job[w].pair /\ job'[w].new = new
    BY <1>1, <2>4 DEF Moved, JobType
  <2> QED
    BY <2>1, <2>2, <2>3, <2>5, CustodySubscribes, Zenon
<1>6. ASSUME CreateRows(w) \/ CreateCrossSite(w) PROVE Custody'
  <2>1. job[w].pc \in {"createRows", "cross"} /\ job[w].pc # "idle"
    BY <1>6, Zenon DEF CreateRows, CreateCrossSite, At
  <2>2. Req(w).op \in {"create", "add"}
    BY <2>1, Zenon DEF Ready, Belongs, CreateSteps
  <2>3. UNCHANGED CalmVars /\ subs' = subs
    BY <1>6, Zenon DEF CreateRows, CreateCrossSite, CalmVars, keys
  <2>4. PICK p \in {"count", "told"} : Goto(w, p)
    BY <1>6, Zenon DEF CreateRows, CreateCrossSite
  <2>5. Moved(w) /\ job'[w].pc = p /\ job'[w].pair = job[w].pair /\ job'[w].new = job[w].new
    BY <1>1, <2>4 DEF Goto, JobType, Moved
  <2>6. job'[w].pc \in Spreading
    BY <2>5, Zenon DEF Spreading
  <2> QED
    BY <2>1, <2>2, <2>3, <2>5, <2>6, CustodySpreads, Zenon
<1> QED
  BY <1>2, <1>3, <1>4, <1>5, <1>6, Zenon
-----------------------------------------------------------------------------
(* processAddMembers. *)
LEMMA AddCustody ==
  ASSUME Base, Serial, Custody, AccountsCount, NEW w \in Workers, Ready(w),
         \/ LoadAddMemberInputs(w) \/ KeyPairOrHeal(w) \/ Heal(w) \/ AddSubs(w)
         \/ Backfill(w) \/ AddRows(w) \/ ApplyMemberCountDelta(w) \/ SubscriptionAdded(w)
  PROVE  Custody'
<1>1. job \in [Workers -> JobType] /\ Typed /\ faults \in Nat /\ Provided
  BY Zenon DEF Base, Typed, Custody
<1>2. ASSUME LoadAddMemberInputs(w) PROVE Custody'
  <2>1. job[w].pc = "add" /\ job[w].pc # "idle" /\ (\A a : ~Told(w, a)) /\ UNCHANGED <<subs, faults, scen, exists, ensure, held>>
    BY <1>2, Zenon DEF LoadAddMemberInputs, At, Told
  <2>2. UNCHANGED <<key, minted>>
    BY <1>2, Zenon DEF LoadAddMemberInputs, keys
  <2>3. CASE Ack(w)
    <3>1. Req(w).op = "add"
      BY <2>1, Zenon DEF Ready, Belongs, AddSteps
    <3>2. \A a \in Accounts : ~Owes(w, a)
      BY <3>1, Zenon DEF Owes, Removal
    <3> QED
      BY <1>1, <2>1, <2>2, <2>3, <3>2, CustodyEnded, Zenon
  <2>4. CASE ~Ack(w)
    <3>1. UNCHANGED CalmVars
      BY <1>2, <2>1, <2>2, <2>4, Zenon DEF LoadAddMemberInputs, CalmVars
    <3>2. \E p \in {"addList", "addKey"} : \E n, q, f : job' = [job EXCEPT ![w].pc = p, ![w].new = n, ![w].rows = q, ![w].flag = f]
      <4> DEFINE cand == Req(w).users \cup MembersOf(Req(w).orgs)
                 n == cand \ subs
                 q == IF Req(w).orgs # {} \/ Tracking THEN Req(w).users \ irm ELSE {}
                 f == (Req(w).orgs # {} /\ ~Tracking)
      <4>1. job' = [job EXCEPT ![w].pc = IF n = {} THEN "addList" ELSE "addKey", ![w].new = n, ![w].rows = q, ![w].flag = f]
        BY <1>2, <2>4, Zenon DEF LoadAddMemberInputs
      <4> HIDE DEF n, q, f
      <4> QED
        BY <4>1, Zenon
    <3>3. Moved(w) /\ job'[w].pc \in {"addList", "addKey"} /\ job'[w].pair = job[w].pair
      BY <1>1, <3>2 DEF Moved, JobType
    <3> QED
      BY <2>1, <3>1, <3>3, CustodyReads, Zenon
  <2> QED
    BY <2>3, <2>4, Zenon
<1>3. ASSUME KeyPairOrHeal(w) PROVE Custody'
  <2>1. job[w].pc = "addKey" /\ UNCHANGED CalmVars /\ subs' = subs
    BY <1>3 DEF KeyPairOrHeal, At, CalmVars, keys, room
  <2>2. job' = [job EXCEPT ![w].pc = IF key = NoKey THEN "addHeal" ELSE "addSubs", ![w].pair = key]
    BY <1>3 DEF KeyPairOrHeal
  <2>3. Moved(w) /\ job'[w].pc \in {"addHeal", "addSubs"} /\ job'[w].pair = key
    BY <1>1, <2>2 DEF Moved, JobType
  <2> QED
    BY <2>1, <2>3, CustodyReads, Zenon
<1>4. ASSUME Heal(w) PROVE Custody'
  <2>1. job[w].pc = "addHeal" /\ job[w].pc # "idle"
    BY <1>4 DEF Heal, At
  <2>2. exists
    BY <2>1, Zenon DEF Ready, Belongs
  <2>3. UNCHANGED <<scen, state, subs, ensure, faults, held, exists>> /\ SetIfAbsent
    BY <1>4, Zenon DEF Heal, room
  <2>4. job' = [job EXCEPT ![w].pc = "addSubs", ![w].pair = Settled]
    BY <1>4, Zenon DEF Heal
  <2>5. Moved(w) /\ job'[w].pc = "addSubs" /\ job'[w].pair = Settled
    BY <1>1, <2>4 DEF Moved, JobType
  <2>6. CASE key = NoKey
    <3>1. Rekeyed /\ key' = Settled
      BY <1>1, <2>3, <2>6, InstalledNow, Zenon DEF SetIfAbsent, Settled
    <3>2. ~Keyed
      BY <1>1, <2>2, <2>6, Zenon DEF Provided
    <3> QED
      BY <1>1, <2>1, <2>2, <2>3, <2>5, <3>1, <3>2, CustodyRekeyed, Zenon
  <2>7. CASE key # NoKey
    <3>1. UNCHANGED CalmVars /\ Settled = key
      BY <2>3, <2>7, Zenon DEF SetIfAbsent, Settled, CalmVars
    <3> QED
      BY <2>1, <2>3, <2>5, <3>1, CustodyReads, Zenon
  <2> QED
    BY <2>6, <2>7, Zenon
<1>5. ASSUME AddSubs(w) PROVE Custody'
  <2>1. job[w].pc = "addSubs" /\ UNCHANGED CalmVars
    BY <1>5, Zenon DEF AddSubs, At, CalmVars, keys
  <2>2. subs' = subs \cup job[w].new /\ Goto(w, "addList")
    BY <1>5, Zenon DEF AddSubs
  <2>3. Moved(w) /\ job'[w].pc = "addList" /\ job'[w].pair = job[w].pair /\ job'[w].new = job[w].new
    BY <1>1, <2>2 DEF Goto, JobType, Moved
  <2> QED
    BY <2>1, <2>2, <2>3, CustodySubscribes, Zenon
<1>6. ASSUME Backfill(w) \/ AddRows(w) \/ ApplyMemberCountDelta(w) PROVE Custody'
  <2>1. job[w].pc \in {"addList", "addRows", "addCount"} /\ job[w].pc # "idle"
    BY <1>6, Zenon DEF Backfill, AddRows, ApplyMemberCountDelta, At
  <2>2. Req(w).op \in {"create", "add"}
    BY <2>1, Zenon DEF Ready, Belongs, AddSteps
  <2>3. UNCHANGED CalmVars /\ subs' = subs
    BY <1>6, Zenon DEF Backfill, AddRows, ApplyMemberCountDelta, CalmVars, keys, room
  <2>4. PICK p \in {"addRows", "addCount", "count", "told"} :
          Goto(w, p) \/ \E q : job' = [job EXCEPT ![w].pc = p, ![w].rows = q]
    BY <1>6, Zenon DEF Backfill, AddRows, ApplyMemberCountDelta
  <2>5. Moved(w) /\ job'[w].pc = p /\ job'[w].pair = job[w].pair /\ job'[w].new = job[w].new
    BY <1>1, <2>4 DEF Moved, Goto, JobType
  <2>6. job'[w].pc \in Spreading
    BY <2>5, Zenon DEF Spreading
  <2> QED
    BY <2>1, <2>2, <2>3, <2>5, <2>6, CustodySpreads, Zenon
<1>7. ASSUME SubscriptionAdded(w) PROVE Custody'
  <2>1. job[w].pc = "told" /\ job[w].pc # "idle" /\ UNCHANGED <<scen, state, ensure>> /\ Goto(w, "publish")
    BY <1>7, Zenon DEF SubscriptionAdded, At
  <2>2. UNCHANGED <<exists, subs, key, minted>>
    BY <1>7, Zenon DEF SubscriptionAdded, room, keys
  <2>3. PICK lost : SendKey(job[w].new, job[w].pair, lost)
    BY <1>7, Zenon DEF SubscriptionAdded
  <2>4. Moved(w) /\ job'[w].pc = "publish" /\ job'[w].pair = job[w].pair
    BY <1>1, <2>1 DEF Goto, JobType, Moved
  <2>5. Req(w).op \in {"create", "add"}
    BY <2>1, Zenon DEF Custody, Telling, At
  <2>6. job[w].new \subseteq subs
    BY <2>1, <2>5, Zenon DEF Ready, Creating, Extending, Late
  <2>7. \A a : ~Owes(w, a) /\ (Told(w, a) => a \in job[w].new)
    BY <2>1, <2>5, Zenon DEF Owes, Removal, Told, At
  <2> QED
    BY <2>1, <2>2, <2>3, <2>4, <2>6, <2>7, CustodySent, ZenonT(60)
<1> QED
  BY <1>2, <1>3, <1>4, <1>5, <1>6, <1>7, Zenon
-----------------------------------------------------------------------------
(* A step of a removal that neither writes nor sends a key. *)
LEMMA CustodyRemoving ==
  ASSUME Base, Serial, Custody, NEW w \in Workers, Ready(w), job[w].pc # "idle", Moved(w), UNCHANGED CalmVars,
         Req(w).op \in {"remove", "removeOrg"}, job[w].pc # "fanOut", subs' \subseteq subs,
         job'[w].pc \notin {"createSet", "createSubs", "addSubs", "told"},
         \A a \in Accounts \ subs' : a \in subs \/ Owes(w, a) => Owes(w, a)' \/ Waiting(a),
         \/ job'[w].pair = key
         \/ job[w].pc \in Unrotated \cup {"rmLoad", "orgLoad"} /\ job'[w].pair = job[w].pair
  PROVE  Custody'
<1>1. job[w].pc \notin CreateSteps \cup AddSteps /\ exists
  <2>1. Belongs(job[w], scen.reqs, exists, crossSite) /\ Req(w) = scen.reqs[job[w].m]
    BY Zenon DEF Ready
  <2>2. job[w].pc \notin CreateSteps \cup AddSteps
    BY <2>1, Zenon DEF Belongs
  <2> QED
    BY <2>1, <2>2, Zenon DEF Belongs, CreateSteps
<1>2. \A a : ~Told(w, a)
  <2>1. job[w].pc # "told"
    BY Zenon DEF Custody, Telling, At
  <2> QED
    BY <1>1, <2>1, Zenon DEF Told, At, CreateSteps, AddSteps
<1>3. job'[w].pair \in {job[w].pair, key}
  BY Zenon
<1> QED
  BY <1>1, <1>2, <1>3, CustodyCalm, Zenon

(* Whoever is in the room through an organisation only, and not subscribed,
   leaves with a removal of the organisation that waits for its redelivery. *)
LEMMA OrgWaits ==
  ASSUME Base, Serial, NEW w \in Workers, job[w].pc # "idle", NEW a \in Accounts \ subs,
         NEW o \in orgRows \cap OrgOf[a], ~(Req(w).op = "removeOrg" /\ o \in Req(w).orgs)
  PROVE  Waiting(a)
<1>1. PICK i \in DOMAIN state : Open(i) /\ scen.reqs[i].op = "removeOrg" /\ o \in scen.reqs[i].orgs
  BY Zenon DEF Serial, Roster, OrgsSubscribed
<1>2. state[i] # "running"
  <2> SUFFICES ASSUME state[i] = "running" PROVE FALSE
    BY Zenon
  <2>1. PICK v \in Workers : job[v].pc # "idle" /\ job[v].m = i
    BY Zenon DEF Serial, Solo
  <2>2. v = w
    BY <2>1, Zenon DEF Serial, Solo
  <2> QED
    BY <1>1, <2>1, <2>2, Zenon DEF Req
<1>3. Removal(scen.reqs[i], a)
  BY <1>1, Zenon DEF Removal, MembersOf
<1> QED
  BY <1>1, <1>2, <1>3, Zenon DEF Waiting, Open
-----------------------------------------------------------------------------
(* processRemoveMember up to its rotation. *)
LEMMA LeaveCustody ==
  ASSUME Base, Serial, Custody, NEW w \in Workers, Ready(w),
         \/ RemoveMember(w) \/ GetUserWithMembership(w) \/ GetOrgMembers(w)
         \/ DeleteSubscription(w) \/ DeleteOrgRow(w) \/ GetSubscriptionAccounts(w)
  PROVE  Custody'
<1>1. job \in [Workers -> JobType] /\ UNCHANGED CalmVars
  BY Zenon DEF Base, Typed, RemoveMember, GetUserWithMembership, GetOrgMembers, DeleteSubscription, DeleteOrgRow,
         GetSubscriptionAccounts, CalmVars, keys, room
<1>2. /\ job[w].pc \in {"remove", "removeOrg", "rmLoad", "orgLoad", "rmSub", "orgSubs", "orgRow", "survivors"}
      /\ job[w].pc # "idle"
  BY Zenon DEF RemoveMember, GetUserWithMembership, GetOrgMembers, DeleteSubscription, DeleteOrgRow,
         GetSubscriptionAccounts, At
<1>3. Req(w).op \in {"remove", "removeOrg"} /\ Req(w) \in Requests /\ Removing(w)
  BY <1>2, Zenon DEF Ready, Belongs, RemoveSteps
<1>4. ASSUME RemoveMember(w) PROVE Custody'
  <2>1. /\ subs' = subs /\ job[w].pc \in {"remove", "removeOrg"}
        /\ job' = [job EXCEPT ![w].pc = IF @ = "remove" THEN "rmLoad" ELSE "orgLoad", ![w].pair = key]
    BY <1>4, Zenon DEF RemoveMember, room
  <2>2. Moved(w) /\ job'[w].pc \in {"rmLoad", "orgLoad"} /\ job'[w].pair = key
    BY <1>1, <2>1 DEF Moved, JobType
  <2>3. Req(w)' = Req(w)
    BY <1>1, <2>2, Zenon DEF Moved, CalmVars, Req
  <2>4. \A a : Owes(w, a) => Owes(w, a)'
    BY <2>2, <2>3, Zenon DEF Owes, Unloaded
  <2> QED
    BY <1>1, <1>2, <1>3, <2>1, <2>2, <2>4, CustodyRemoving, Zenon
<1>5. ASSUME GetUserWithMembership(w) PROVE Custody'
  <2>1. subs' = subs /\ job[w].pc = "rmLoad"
    BY <1>5, Zenon DEF GetUserWithMembership, room, At
  <2>2. \E f : job' = [job EXCEPT ![w].pc = "rmRow", ![w].flag = f, ![w].new = Req(w).users \ MembersOf(orgRows)]
    BY <1>5, Zenon DEF GetUserWithMembership
  <2>3. Moved(w) /\ job'[w].pc = "rmRow" /\ job'[w].new = Req(w).users \ MembersOf(orgRows) /\ job'[w].pair = job[w].pair
    BY <1>1, <2>2 DEF Moved, JobType
  <2>4. Req(w)' = Req(w) /\ Req(w).op = "remove"
    BY <1>1, <1>3, <2>1, <2>3, Zenon DEF Moved, CalmVars, Req, Removing
  <2>5. ASSUME NEW a \in Accounts \ subs, Owes(w, a) PROVE Owes(w, a)' \/ Waiting(a)
    <3>1. a \in Req(w).users
      BY <2>4, <2>5, Zenon DEF Owes, Removal
    <3>2. CASE a \in MembersOf(orgRows)
      <4>1. PICK o : o \in orgRows \cap OrgOf[a]
        BY <3>2, Zenon DEF MembersOf
      <4> QED
        BY <1>2, <2>4, <4>1, OrgWaits, Zenon
    <3>3. CASE a \notin MembersOf(orgRows)
      BY <2>3, <2>4, <3>1, <3>3, Zenon DEF Owes, Unrotated, Removal
    <3> QED
      BY <3>2, <3>3, Zenon
  <2> QED
    BY <1>1, <1>2, <1>3, <2>1, <2>3, <2>5, CustodyRemoving, Zenon
<1>6. ASSUME GetOrgMembers(w) PROVE Custody'
  <2>1. subs' = subs /\ job[w].pc = "orgLoad"
    BY <1>6, Zenon DEF GetOrgMembers, room, At
  <2>2. \E p \in {"orgRow", "orgSubs"} : job' = [job EXCEPT ![w].new = Gone(Req(w)), ![w].pc = p]
    <3>1. job' = [job EXCEPT ![w].new = Gone(Req(w)), ![w].pc = IF Gone(Req(w)) = {} THEN "orgRow" ELSE "orgSubs"]
      BY <1>6, Zenon DEF GetOrgMembers, Gone
    <3> QED
      BY <3>1, Zenon
  <2>3. Moved(w) /\ job'[w].pc \in {"orgRow", "orgSubs"} /\ job'[w].new = Gone(Req(w)) /\ job'[w].pair = job[w].pair
    BY <1>1, <2>2 DEF Moved, JobType
  <2>4. Req(w)' = Req(w) /\ Req(w).op = "removeOrg"
    BY <1>1, <1>3, <2>1, <2>3, Zenon DEF Moved, CalmVars, Req, Removing
  <2>5. ASSUME NEW a \in Accounts \ subs, Owes(w, a) PROVE Owes(w, a)' \/ Waiting(a)
    <3>1. a \in MembersOf(Req(w).orgs)
      BY <2>4, <2>5, Zenon DEF Owes, Removal
    <3>2. CASE a \in MembersOf(orgRows \ Req(w).orgs)
      <4>1. PICK o : o \in (orgRows \ Req(w).orgs) \cap OrgOf[a]
        BY <3>2, Zenon DEF MembersOf
      <4> QED
        BY <1>2, <4>1, OrgWaits, Zenon
    <3>3. CASE a \notin MembersOf(orgRows \ Req(w).orgs)
      <4>1. a \notin irm
        BY Zenon DEF Serial, Roster, RowsSubscribed
      <4>2. a \in job'[w].new
        BY <2>3, <3>1, <3>3, <4>1, Zenon DEF Gone
      <4> QED
        BY <2>3, <2>4, <3>1, <4>2, Zenon DEF Owes, Unrotated, Removal
    <3> QED
      BY <3>2, <3>3, Zenon
  <2> QED
    BY <1>1, <1>2, <1>3, <2>1, <2>3, <2>5, CustodyRemoving, Zenon
<1>7. ASSUME DeleteSubscription(w) PROVE Custody'
  <2>1. subs' = subs \ job[w].new /\ job[w].pc \in {"rmSub", "orgSubs"}
    BY <1>7, Zenon DEF DeleteSubscription
  <2>2. PICK p \in {"count", "orgRow"} : Goto(w, p)
    BY <1>7, Zenon DEF DeleteSubscription
  <2>3. Moved(w) /\ job'[w].pc = p /\ job'[w].new = job[w].new /\ job'[w].pair = job[w].pair
    BY <1>1, <2>2 DEF Goto, JobType, Moved
  <2>4. Req(w)' = Req(w)
    BY <1>1, <2>3, Zenon DEF Moved, CalmVars, Req
  <2>5. \A a \in job[w].new : Removal(Req(w), a)
    <3>1. CASE At(w, "rmSub")
      BY <1>3, <3>1, Zenon DEF Removing, At, Removal
    <3>2. CASE At(w, "orgSubs")
      BY <1>3, <3>2, Zenon DEF Removing, At, Removal, Gone
    <3> QED
      BY <2>1, <3>1, <3>2, Zenon DEF At
  <2>6. \A a \in Accounts \ subs' : a \in subs \/ Owes(w, a) => Owes(w, a)'
    <3>1. ASSUME NEW a \in job[w].new PROVE Owes(w, a)'
      BY <2>3, <2>4, <2>5, Zenon DEF Owes, Unrotated
    <3>2. ASSUME NEW a, Owes(w, a) PROVE a \in job[w].new
      BY <2>1, <3>2, Zenon DEF Owes, Unloaded
    <3> QED
      BY <2>1, <3>1, <3>2, Zenon
  <2> QED
    BY <1>1, <1>2, <1>3, <2>1, <2>3, <2>6, CustodyRemoving, Zenon DEF Unrotated
<1>8. ASSUME DeleteOrgRow(w) \/ GetSubscriptionAccounts(w) PROVE Custody'
  <2>1. subs' = subs /\ job[w].pc \in {"orgRow", "survivors"}
    BY <1>8, Zenon DEF DeleteOrgRow, GetSubscriptionAccounts, room, At
  <2>2. PICK p \in {"count", "rotate"} : Goto(w, p) \/ \E q : job' = [job EXCEPT ![w].pc = p, ![w].rows = q]
    BY <1>8, Zenon DEF DeleteOrgRow, GetSubscriptionAccounts
  <2>3. Moved(w) /\ job'[w].pc = p /\ job'[w].new = job[w].new /\ job'[w].pair = job[w].pair
    BY <1>1, <2>2 DEF Moved, Goto, JobType
  <2>4. Req(w)' = Req(w)
    BY <1>1, <2>3, Zenon DEF Moved, CalmVars, Req
  <2>5. \A a : Owes(w, a) => Owes(w, a)'
    BY <2>1, <2>3, <2>4, Zenon DEF Owes, Unloaded, Unrotated
  <2> QED
    BY <1>1, <1>2, <1>3, <2>1, <2>3, <2>5, CustodyRemoving, ZenonT(60) DEF Unrotated
<1> QED
  BY <1>4, <1>5, <1>6, <1>7, <1>8, Zenon
-----------------------------------------------------------------------------
(* The rotation: the key it replaces is held by those who left, its own by the
   survivors. *)
LEMMA RotateCustody ==
  ASSUME Base, Serial, Custody, AccountsCount, NEW w \in Workers, Ready(w), CommitRotation(w) \/ FanOutKey(w)
  PROVE  Custody'
<1>1. job \in [Workers -> JobType] /\ Typed /\ faults \in Nat
  BY Zenon DEF Base, Typed, Custody
<1>2. UNCHANGED <<scen, state, exists, subs, ensure>>
  BY Zenon DEF CommitRotation, FanOutKey, room
<1>3. job[w].pc \in {"rotate", "fanOut"} /\ job[w].pc # "idle"
  BY DEF CommitRotation, FanOutKey, At
<1>4. Req(w).op \in {"remove", "removeOrg"} /\ job[w].rows = subs /\ exists
  BY <1>3, Zenon DEF Ready, Belongs, RemoveSteps, Removing
<1>5. ASSUME CommitRotation(w) PROVE Custody'
  <2>1. job[w].pc = "rotate" /\ held' = held
    BY <1>5 DEF CommitRotation, At
  <2>2. \E q : job' = [job EXCEPT ![w].pc = "fanOut", ![w].pair = q]
    BY <1>5, Zenon DEF CommitRotation
  <2>3. Moved(w) /\ job'[w].pc = "fanOut" /\ job'[w].rows = job[w].rows
    BY <1>1, <2>2 DEF Moved, JobType
  <2>4. job'[w].pair = key' => \A a \in subs : Told(w, a)'
    BY <1>4, <2>3, Zenon DEF Told, At
  <2>5. CASE job[w].pair # NoKey /\ key # NoKey
    <3>1. Rotate(w) /\ faults' = faults
      BY <1>5, <2>5, Zenon DEF CommitRotation
    <3>2. job' = [job EXCEPT ![w].pc = "fanOut", ![w].pair = Rotated]
      BY <1>5, <2>5, Zenon DEF CommitRotation
    <3>3. key.ver + 1 \in Nat
      <4>1. key \in Pairs
        BY <1>1, <2>5, Zenon DEF Typed
      <4>2. key.ver \in Nat
        BY <4>1, Zenon DEF Pairs
      <4> QED
        BY <4>2
    <3>4. Rekeyed /\ key' = Rotated
      BY <1>1, <2>1, <3>1, <3>3, InstalledNow, Zenon DEF Rotate, Rotated
    <3>5. job'[w].pair = key' /\ faults' \in Nat
      BY <1>1, <3>1, <3>2, <3>4 DEF JobType
    <3> QED
      BY <1>2, <1>3, <1>4, <2>3, <2>4, <3>4, <3>5, CustodyRekeyed, Zenon
  <2>6. CASE key = NoKey
    <3>1. SetIfAbsent /\ faults' = faults /\ job' = [job EXCEPT ![w].pc = "fanOut", ![w].pair = Settled]
      BY <1>5, <2>6, Zenon DEF CommitRotation
    <3>2. Rekeyed /\ key' = Settled
      BY <1>1, <2>1, <2>6, <3>1, InstalledNow DEF SetIfAbsent, Settled
    <3>3. job'[w].pair = key'
      BY <1>1, <3>1, <3>2 DEF JobType
    <3> QED
      BY <1>1, <1>2, <1>3, <1>4, <2>3, <2>4, <3>1, <3>2, <3>3, CustodyRekeyed, SMTT(60)
  <2>7. CASE job[w].pair = NoKey /\ key # NoKey
    <3>1. SetIfAbsent /\ faults' = faults /\ job' = [job EXCEPT ![w].pc = "fanOut", ![w].pair = Settled]
      BY <1>5, <2>7, Zenon DEF CommitRotation
    <3>2. UNCHANGED CalmVars /\ Settled = key
      BY <1>2, <2>1, <2>7, <3>1 DEF SetIfAbsent, Settled, CalmVars
    <3>3. job'[w].pair = key /\ key' = key
      BY <1>1, <3>1, <3>2 DEF JobType, CalmVars
    <3>4. \A a \in Accounts : key \notin held[a]
      BY <1>4, <2>1, <2>7, Zenon DEF Custody, Unkeyed, Unrotated
    <3>5. \A a \in subs' : Told(w, a)'
      BY <1>2, <2>4, <3>3, Zenon
    <3> QED
      BY <1>2, <1>3, <1>4, <2>3, <3>2, <3>3, <3>4, <3>5, CustodyCalm, Zenon
  <2> QED
    BY <2>5, <2>6, <2>7, Zenon
<1>6. ASSUME FanOutKey(w) PROVE Custody'
  <2>1. job[w].pc = "fanOut" /\ Goto(w, "publish") /\ UNCHANGED <<key, minted>>
    BY <1>6, Zenon DEF FanOutKey, At, keys
  <2>2. PICK lost : SendKey(job[w].rows, job[w].pair, lost)
    BY <1>6, Zenon DEF FanOutKey
  <2>3. Moved(w) /\ job'[w].pc = "publish" /\ job'[w].pair = job[w].pair
    BY <1>1, <2>1 DEF Goto, JobType, Moved
  <2>4. \A a : ~Owes(w, a) /\ (Told(w, a) => a \in job[w].rows)
    BY <2>1, Zenon DEF Owes, Unloaded, Unrotated, Told, At
  <2> QED
    BY <1>2, <1>3, <1>4, <2>1, <2>2, <2>3, <2>4, CustodySent, Zenon
<1> QED
  BY <1>5, <1>6

(* The recount, after which a removal that took a member goes on to its rotation. *)
LEMMA RecountCustody ==
  ASSUME Base, Serial, Custody, NEW w \in Workers, Ready(w), ReconcileCount(w) \/ ReconcileWrite(w)
  PROVE  Custody'
<1>1. job \in [Workers -> JobType] /\ UNCHANGED CalmVars /\ subs' = subs
  BY DEF Base, Typed, ReconcileCount, ReconcileWrite, CalmVars, keys, room
<1>2. job[w].pc \in {"count", "recount"} /\ job[w].pc # "idle"
  BY DEF ReconcileCount, ReconcileWrite, At
<1>3. Req(w) \in Requests
  BY <1>2, Zenon DEF Ready
<1>4. \E p \in {"recount", AfterReconcile(w)} : \E t : job' = [job EXCEPT ![w].pc = p, ![w].total = t]
  BY Zenon DEF ReconcileCount, ReconcileWrite
<1>5. AfterReconcile(w) \in {"cross", "told", "publish", "survivors"}
  BY <1>3 DEF AfterReconcile, Requests
<1>6. /\ Moved(w) /\ job'[w].pc \in {"recount", AfterReconcile(w)}
      /\ job'[w].new = job[w].new /\ job'[w].pair = job[w].pair
  BY <1>1, <1>4, <1>5 DEF Moved, JobType
<1>7. Req(w)' = Req(w)
  BY <1>1, <1>6, Zenon DEF Moved, CalmVars, Req
<1>8. CASE Req(w).op \in {"create", "add"}
  <2>1. job'[w].pc \in Spreading
    BY <1>6, <1>8 DEF AfterReconcile, Spreading
  <2> QED
    BY <1>1, <1>2, <1>6, <1>8, <2>1, CustodySpreads, Zenon
<1>9. CASE Req(w).op \in {"remove", "removeOrg"}
  <2>1. job'[w].pc \in {"recount", "publish", "survivors"} /\ (job[w].new # {} => job'[w].pc # "publish")
    BY <1>6, <1>9 DEF AfterReconcile
  <2>2. ASSUME NEW a, Owes(w, a) PROVE Owes(w, a)'
    <3>1. a \in job[w].new /\ Removal(Req(w), a)
      BY <1>2, <2>2, Zenon DEF Owes, Unloaded
    <3>2. job'[w].pc \in Unrotated
      BY <2>1, <3>1, Zenon DEF Unrotated
    <3> QED
      BY <1>6, <1>7, <3>1, <3>2, Zenon DEF Owes
  <2> QED
    BY <1>1, <1>2, <1>6, <1>9, <2>1, <2>2, CustodyRemoving, Zenon DEF Unrotated
<1> QED
  BY <1>3, <1>8, <1>9, Zenon DEF Requests

(* The row of a member who leaves, and the end of the handlers. *)
LEMMA EndCustody ==
  ASSUME Base, Serial, Custody, NEW w \in Workers, Ready(w),
         DeleteRoomMember(w) \/ RemoveRole(w) \/ Publish(w) \/ BulkFails(w) \/ Fail(w)
  PROVE  Custody'
<1>1. job \in [Workers -> JobType] /\ faults \in Nat
  BY Zenon DEF Base, Typed, Custody
<1>2. UNCHANGED <<scen, exists, key, minted, held, ensure>>
  BY Zenon DEF DeleteRoomMember, RemoveRole, Publish, BulkFails, Fail, keys, room
<1>3. ASSUME DeleteRoomMember(w) PROVE Custody'
  <2>1. job[w].pc = "rmRow" /\ job[w].pc # "idle" /\ UNCHANGED <<subs, faults>>
    BY <1>3, Zenon DEF DeleteRoomMember, At
  <2>2. \A a : ~Told(w, a) /\ (Owes(w, a) => a \in job[w].new)
    BY <2>1, Zenon DEF Told, At, Owes, Unloaded
  <2>3. CASE job[w].new = {} /\ ~job[w].flag
    <3>1. Ack(w)
      BY <1>3, <2>3, Zenon DEF DeleteRoomMember
    <3> QED
      BY <1>1, <1>2, <2>1, <2>2, <2>3, <3>1, CustodyEnded, Zenon
  <2>4. CASE ~(job[w].new = {} /\ ~job[w].flag)
    <3>1. Goto(w, IF job[w].new = {} THEN "rmRole" ELSE "rmSub") /\ state' = state
      BY <1>3, <2>4, Zenon DEF DeleteRoomMember
    <3>2. UNCHANGED CalmVars
      BY <1>2, <2>1, <3>1, Zenon DEF CalmVars
    <3>3. /\ Moved(w) /\ job'[w].pc \in {"rmRole", "rmSub"} /\ (job[w].new # {} => job'[w].pc = "rmSub")
          /\ job'[w].new = job[w].new /\ job'[w].pair = job[w].pair
      BY <1>1, <3>1 DEF Goto, JobType, Moved
    <3>4. Req(w)' = Req(w)
      BY <3>2, <3>3, Zenon DEF Moved, CalmVars, Req
    <3>5. \A a : Owes(w, a) => Owes(w, a)'
      BY <2>2, <3>3, <3>4, Zenon DEF Owes, Unrotated
    <3>6. Req(w).op \in {"remove", "removeOrg"}
      BY <2>1, Zenon DEF Ready, Belongs, RemoveSteps
    <3> QED
      BY <2>1, <3>2, <3>3, <3>5, <3>6, CustodyRemoving, Zenon DEF Unrotated
  <2> QED
    BY <2>3, <2>4, Zenon
<1>4. ASSUME RemoveRole(w) \/ Publish(w) PROVE Custody'
  <2>1. job[w].pc \in {"rmRole", "publish"} /\ job[w].pc # "idle" /\ UNCHANGED <<subs, faults>>
    BY <1>4, Zenon DEF RemoveRole, Publish, At, room
  <2>2. \A a : ~Told(w, a) /\ ~Owes(w, a)
    BY <2>1, Zenon DEF Told, At, Owes, Unloaded, Unrotated
  <2>3. Ack(w) \/ Nak(w)
    BY <1>4, Zenon DEF RemoveRole, Publish
  <2> QED
    BY <1>1, <1>2, <2>1, <2>2, <2>3, CustodyEnded, Zenon
<1>5. ASSUME BulkFails(w) PROVE Custody'
  <2>1. job[w].pc \in {"createSubs", "createRows", "addSubs", "addRows"} /\ job[w].pc # "idle"
    BY <1>5, Zenon DEF BulkFails, At
  <2>2. subs \subseteq subs' /\ faults' = faults + 1 /\ Nak(w)
    BY <1>5, Zenon DEF BulkFails
  <2>3. exists
    BY <2>1, Zenon DEF Ready, Belongs
  <2> QED
    BY <1>1, <1>2, <2>1, <2>2, <2>3, CustodyEnded
<1>6. ASSUME Fail(w) PROVE Custody'
  <2>1. job[w] # Idle /\ subs' = subs /\ faults' = faults + 1 /\ Nak(w)
    BY <1>6, Zenon DEF Fail, room
  <2>2. job[w].pc # "idle"
    BY <2>1, Zenon DEF Base, Belongs
  <2> QED
    <3>1. faults' \in Nat /\ faults' # 0
      BY <1>1, <2>1
    <3> QED
      BY <1>1, <1>2, <2>1, <2>2, <3>1, CustodyEnded, Zenon
<1> QED
  BY <1>3, <1>4, <1>5, <1>6, Zenon
-----------------------------------------------------------------------------
(* Room-service accepts a request, or not. *)
LEMMA SubmitCustody ==
  ASSUME Custody, NEW i \in DOMAIN state, Submit(i)
  PROVE  Custody'
<1>1. UNCHANGED <<scen, job, exists, subs, key, minted, held, ensure, faults>>
  BY Zenon DEF Submit, room, keys
<1>2. \A a : Waiting(a) => Waiting(a)'
  <2>1. DOMAIN state' = DOMAIN state /\ \A n \in DOMAIN state : state[n] = "retry" => state'[n] = "retry"
    BY Zenon DEF Submit
  <2> QED
    BY <1>1, <2>1, Zenon DEF Waiting
<1>3. \A w \in Workers : Req(w)' = Req(w)
  BY <1>1, Zenon DEF Req
<1>4. \A w \in Workers : \A a : (Owes(w, a)' <=> Owes(w, a)) /\ (Told(w, a)' <=> Told(w, a))
  BY <1>1, <1>3, ZenonT(60) DEF Owes, Told, At
<1>5. Leavers'
  BY <1>1, <1>2, <1>4, Zenon DEF Custody, Leavers
<1>6. Minted' /\ Provided'
  BY <1>1, Zenon DEF Custody, Minted, Provided, Keyed
<1>7. Unkeyed' /\ Telling'
  BY <1>1, <1>3, Zenon DEF Custody, Unkeyed, Telling, At
<1>8. Supplied'
  BY <1>1, <1>4, Zenon DEF Custody, Supplied, Sure, Keyed
<1> QED
  BY <1>1, <1>5, <1>6, <1>7, <1>8, Zenon DEF Custody

(* The consumer starts a handler; the one of a removal owes what waited for it. *)
LEMMA DeliverCustody ==
  ASSUME Base, Custody, NEW w \in Workers, NEW i \in DOMAIN state, Deliver(w, i), \A v \in Workers : job[v] = Idle
  PROVE  Custody'
<1>1. \A v \in Workers : job[v] = Idle
  BY Zenon
<1>2. UNCHANGED <<scen, exists, subs, key, minted, held, ensure, faults>>
  BY Zenon DEF Deliver, room, keys
<1>3. /\ state' = [state EXCEPT ![i] = "running"]
      /\ job' = [job EXCEPT ![w].m = i, ![w].pc = scen.reqs[i].op]
  BY Zenon DEF Deliver
<1>4. job \in [Workers -> JobType] /\ scen.reqs[i] \in Requests /\ DOMAIN state' = DOMAIN state
  BY <1>3, ReqType DEF Base, Typed
<1>5. /\ job'[w].m = i /\ job'[w].pc = scen.reqs[i].op /\ job'[w].pair = job[w].pair
      /\ \A v \in Workers : v # w => job'[v] = Idle
  BY <1>1, <1>3, <1>4 DEF JobType
<1>6. job'[w].pc \in {"create", "add", "remove", "removeOrg"} /\ Req(w)' = scen.reqs[i]
  BY <1>2, <1>4, <1>5, Zenon DEF Requests, Req
<1>7. \A v \in Workers : job'[v].pc \in {"idle", "create", "add", "remove", "removeOrg"} /\ job'[v].pair = NoKey
  BY <1>1, <1>5, <1>6, IdlePc, IdlePair, Zenon
<1>8. \A v \in Workers : \A a : ~Owes(v, a) /\ ~Told(v, a)
  BY <1>1, IdlePc, Zenon DEF Owes, Told, At, Unloaded, Unrotated
<1>9. Leavers'
  <2> SUFFICES ASSUME key # NoKey, NEW a \in Accounts \ subs, key \in held[a]
               PROVE  Waiting(a)' \/ \E v \in Workers : Owes(v, a)'
    BY <1>2, Zenon DEF Leavers
  <2>1. Waiting(a)
    BY <1>8, Zenon DEF Custody, Leavers
  <2>2. PICK n \in DOMAIN state : state[n] = "retry" /\ Removal(scen.reqs[n], a)
    BY <2>1, Zenon DEF Waiting
  <2>3. CASE n = i
    <3>1. Owes(w, a)'
      BY <1>5, <1>6, <2>2, <2>3, Zenon DEF Owes, Unloaded, Removal
    <3> QED
      BY <3>1, Zenon
  <2>4. CASE n # i
    <3>1. n \in DOMAIN state' /\ state'[n] = "retry"
      BY <1>3, <1>4, <2>2, <2>4
    <3> QED
      BY <1>2, <2>2, <3>1, Zenon DEF Waiting
  <2> QED
    BY <2>3, <2>4, Zenon
<1>10. Minted'
  <2>1. \A v \in Workers : job'[v].pair \notin Pairs
    BY <1>7, NoKeyAssumption, Zenon DEF Pairs
  <2> QED
    BY <1>2, <2>1, Zenon DEF Custody, Minted
<1>11. \A v \in Workers : job'[v].pc \notin Unrotated \cup {"rmLoad", "orgLoad", "told", "createSet", "createSubs", "addSubs"}
  BY <1>7, Zenon DEF Unrotated
<1>12. Unkeyed' /\ Telling'
  BY <1>11, Zenon DEF Unkeyed, Telling, At
<1>13. Provided'
  BY <1>2, <1>11, Zenon DEF Custody, Provided, Keyed
<1>14. Supplied'
  BY <1>2, <1>8, <1>11, Zenon DEF Custody, Supplied, Sure, Keyed
<1> QED
  BY <1>2, <1>9, <1>10, <1>12, <1>13, <1>14, ZenonT(60) DEF Custody

(* The RPC key.ensure: a key it mints was sent to nobody, and it mints none where
   the room was created with one. *)
LEMMA EnsureCustody ==
  ASSUME Base, Custody, EnsureGet \/ EnsureSet
  PROVE  Custody'
<1>1. UNCHANGED <<scen, state, job, exists, subs, held, faults>>
  BY Zenon DEF EnsureGet, EnsureSet, room
<1>2. (\A w \in Workers : Req(w)' = Req(w)) /\ Telling'
  BY <1>1, Zenon DEF Req, Custody, Telling, At
<1>3. CASE EnsureGet
  <2>1. UNCHANGED <<key, minted>> /\ exists /\ ensure' = IF key = NoKey THEN "absent" ELSE "done"
    BY <1>3, Zenon DEF EnsureGet, keys
  <2>2. \A w \in Workers : \A a : (Owes(w, a)' <=> Owes(w, a)) /\ (Told(w, a)' <=> Told(w, a))
    BY <1>1, <1>2, <2>1, ZenonT(60) DEF Owes, Told, At
  <2>3. Leavers' /\ Minted' /\ Unkeyed'
    <3>1. \A a : Waiting(a)' <=> Waiting(a)
      BY <1>1, Zenon DEF Waiting
    <3>2. Leavers'
      BY <1>1, <2>1, <2>2, <3>1, Zenon DEF Custody, Leavers
    <3>3. Minted' /\ Unkeyed'
      BY <1>1, <1>2, <2>1, Zenon DEF Custody, Minted, Unkeyed
    <3> QED
      BY <3>2, <3>3
  <2>4. Supplied'
    BY <1>1, <2>1, <2>2, Zenon DEF Custody, Supplied, Sure, Keyed
  <2>5. Provided'
    <3>1. Keyed => ensure' # "absent"
      BY <2>1, Zenon DEF Custody, Provided
    <3> QED
      BY <1>1, <2>1, <3>1, Zenon DEF Custody, Provided, Keyed
  <2> QED
    BY <1>1, <1>2, <2>3, <2>4, <2>5, ZenonT(60) DEF Custody
<1>4. CASE EnsureSet
  <2>1. Typed /\ Minted /\ ensure = "absent" /\ Set
    BY <1>4, Zenon DEF EnsureSet, Base, Custody
  <2>2. ~Keyed
    BY <2>1, Zenon DEF Custody, Provided
  <2>3. Rekeyed
    BY <1>1, <2>1, InstalledNow, Zenon DEF Set
  <2>4. \A a \in Accounts : key' \notin held'[a]
    BY <2>1, <2>3, RekeyedUnsent, Zenon
  <2>5. Minted'
    BY <1>1, <2>1, <2>3, RekeyedMinted, ZenonT(60)
  <2>6. Leavers' /\ Unkeyed'
    BY <2>4, Zenon DEF Leavers, Unkeyed
  <2>7. Provided' /\ Supplied'
    BY <1>1, <2>2, Zenon DEF Provided, Supplied, Sure, Keyed
  <2> QED
    BY <1>1, <1>2, <2>5, <2>6, <2>7, ZenonT(60) DEF Custody
<1> QED
  BY <1>3, <1>4

(* The archive write has nothing to do with who holds the current key. *)
LEMMA ArchiveCustody ==
  ASSUME Custody, NEW w \in Workers, ArchiveDemoted(w)
  PROVE  Custody'
<1>1. UNCHANGED <<scen, state, job, exists, subs, key, minted, held, ensure>>
  BY Zenon DEF ArchiveDemoted, room
<1>2. faults' \in Nat /\ (faults' = 0 => faults = 0)
  <2>1. faults \in Nat /\ faults' \in {faults, faults + 1}
    BY Zenon DEF ArchiveDemoted, Custody
  <2> QED
    BY <2>1
<1>3. \A v \in Workers : Req(v)' = Req(v)
  BY <1>1, Zenon DEF Req
<1>4. \A v \in Workers : \A a : (Owes(v, a)' <=> Owes(v, a)) /\ (Told(v, a)' <=> Told(v, a))
  BY <1>1, <1>3, ZenonT(60) DEF Owes, Told, At
<1>5. \A a : Waiting(a)' <=> Waiting(a)
  BY <1>1, Zenon DEF Waiting
<1>6. Leavers'
  BY <1>1, <1>4, <1>5, Zenon DEF Custody, Leavers
<1>7. Minted' /\ Provided'
  BY <1>1, Zenon DEF Custody, Minted, Provided, Keyed
<1>8. Unkeyed' /\ Telling'
  BY <1>1, <1>3, Zenon DEF Custody, Unkeyed, Telling, At
<1>9. Supplied'
  BY <1>1, <1>2, <1>4, Zenon DEF Custody, Supplied, Sure, Keyed
<1> QED
  BY <1>2, <1>6, <1>7, <1>8, <1>9, ZenonT(60) DEF Custody

(* Nothing happens. *)
LEMMA StutterCustody == ASSUME Custody, UNCHANGED vars PROVE Custody'
<1>1. UNCHANGED <<scen, state, job, exists, subs, key, minted, held, ensure, faults>>
  BY Zenon DEF vars, room, keys
<1>2. \A w \in Workers : Req(w)' = Req(w)
  BY <1>1, Zenon DEF Req
<1>3. \A w \in Workers : \A a : (Owes(w, a)' <=> Owes(w, a)) /\ (Told(w, a)' <=> Told(w, a))
  BY <1>1, <1>2, ZenonT(60) DEF Owes, Told, At
<1>4. \A a : Waiting(a)' <=> Waiting(a)
  BY <1>1, Zenon DEF Waiting
<1>5. Leavers'
  BY <1>1, <1>3, <1>4, Zenon DEF Custody, Leavers
<1>6. Minted' /\ Provided'
  BY <1>1, Zenon DEF Custody, Minted, Provided, Keyed
<1>7. Unkeyed' /\ Telling'
  BY <1>1, <1>2, Zenon DEF Custody, Unkeyed, Telling, At
<1>8. Supplied'
  BY <1>1, <1>3, Zenon DEF Custody, Supplied, Sure, Keyed
<1> QED
  BY <1>1, <1>5, <1>6, <1>7, <1>8, ZenonT(60) DEF Custody

(* It holds initially: members hold the first key, if there is one. *)
LEMMA InitCustody == Init => Custody
<1> SUFFICES ASSUME Init PROVE Custody
  OBVIOUS
<1>1. scen \in Scenarios /\ exists = scen.room.exists /\ subs = scen.room.subs /\ key = scen.room.key
  BY Zenon DEF Init
<1>2. /\ minted = IF key = NoKey THEN 0 ELSE 1
      /\ held = [a \in Accounts |-> IF a \in subs /\ key # NoKey THEN {key} ELSE {}]
      /\ ensure \in {"unsent", "done"} /\ faults = 0
  BY Zenon DEF Init
<1>3. \A w \in Workers : job[w].pc = "idle" /\ job[w].pair = NoKey
  BY Zenon DEF Init, Idle
<1>4. key \in {NoKey, [ver |-> 0, secret |-> 1]} /\ subs \subseteq Accounts /\ (~exists => subs = {})
  BY <1>1, ScenariosAssumption, RoomsAssumption, ZenonT(60)
<1>5. key # NoKey => key.secret = 1
  BY <1>4
<1>6. \A a \in Accounts : \A p \in held[a] : p = key /\ key # NoKey /\ a \in subs
  BY <1>2, Zenon
<1>7. \A w \in Workers : job[w].pair \notin Pairs
  BY <1>3, NoKeyAssumption, Zenon DEF Pairs
<1>8. key \in Pairs => key # NoKey
  BY NoKeyAssumption, SMTT(60) DEF Pairs
<1>9. Minted
  <2>1. key # NoKey => key.secret <= minted
    <3>1. key # NoKey => key.secret = 1 /\ minted = 1
      BY <1>2, <1>5, Zenon
    <3> QED
      BY <3>1
  <2> QED
    BY <1>6, <1>7, <1>8, <2>1, Zenon DEF Minted
<1>10. Leavers /\ Unkeyed
  BY <1>3, <1>6, Zenon DEF Leavers, Unkeyed, Unrotated
<1>11. Telling
  BY <1>3, Zenon DEF Telling, At
<1>12. Provided
  BY <1>1, <1>2, <1>3, <1>4, Zenon DEF Provided, Keyed
<1>13. Supplied
  BY <1>2, <1>3, <1>4, Zenon DEF Supplied, Sure
<1> QED
  BY <1>2, <1>9, <1>10, <1>11, <1>12, <1>13, ZenonT(60) DEF Custody
=============================================================================
