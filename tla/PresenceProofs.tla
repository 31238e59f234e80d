--------------------------- MODULE PresenceProofs ---------------------------
(***************************************************************************)
(* Proofs about Presence for any connections, handlers, sweepers, staleness *)
(* threshold and number of failures: the state keeps its type, deadlines   *)
(* included, and the status that queries read is the one the connections,  *)
(* the override and the external status determine.                         *)
(*                                                                         *)
(* A ping and the clock change the connection hash without recomputing the *)
(* status.  What makes that safe is that both keep the set of connections  *)
(* and their activity (SameActivity), the only things Effective looks at.  *)
(***************************************************************************)
EXTENDS Presence, WellFoundedInduction, TLAPS

ConnType == [away : BOOLEAN, age : 0..Stale + 1]
Deadlines == 0..Stale \cup {None}
OpType == {Idle} \cup [step : {"due"}, dead : SUBSET Conns]
            \cup [step : {"apply"}, ext : {"in_call", None}]
            \cup [step : {"reschedule"}, next : Deadlines]
            \cup [step : {"index"}]

(* A hash of connections that account a may open, of any age. *)
IsHash(cs, a) == DOMAIN cs \in SUBSET a.conns /\ cs \in [DOMAIN cs -> ConnType]

(* Two hashes with the same connections, equally active. *)
SameActivity(cs, ds) == /\ DOMAIN cs = DOMAIN ds
                        /\ \A c \in DOMAIN cs : cs[c].away = ds[c].away

(* A client that is open is one of the account's. *)
OpenKnown == \A c \in Conns : client[c] = "open" => c \in account.conns

-----------------------------------------------------------------------------
(* Lemmas about the operators. *)

(* A non-empty set of naturals has a least element. *)
LEMMA Least == ASSUME NEW T \in SUBSET Nat, T # {} PROVE \E x \in T : \A y \in T : x <= y
<1> DEFINE R == OpToRel(<, Nat)
<1>1. IsWellFoundedOn(R, Nat)
  BY NatLessThanWellFounded, Zenon
<1>2. \A x, y \in Nat : y < x => <<y, x>> \in R
  BY DEF OpToRel
<1> HIDE DEF R
<1>3. \E x \in T : \A y \in T : <<y, x>> \notin R
  BY <1>1, WFMin, Zenon
<1>4. PICK x \in T : \A y \in T : <<y, x>> \notin R
  BY <1>3
<1>5. ASSUME NEW y \in T PROVE x <= y
  <2>1. ~(y < x)
    BY <1>2, <1>4, Zenon
  <2>2. QED
    BY <2>1
<1>6. QED
  BY <1>5

(* A hash is empty when it has no connection. *)
LEMMA EmptyHash == ASSUME NEW S, NEW T, NEW f \in [S -> T] PROVE (f = <<>>) <=> (S = {})
  OBVIOUS

(* Pruning keeps some of the connections, as they are. *)
LEMMA PrunedIs ==
  ASSUME NEW a, NEW cs, IsHash(cs, a), NEW D PROVE IsHash(Restrict(cs, DOMAIN cs \ D), a)
<1>1. \A c \in DOMAIN cs : cs[c] \in ConnType
  BY DEF IsHash
<1>2. Restrict(cs, DOMAIN cs \ D) = [c \in DOMAIN cs \ D |-> cs[c]]
  BY DEF Restrict
<1>3. QED
  BY <1>1, <1>2, Zenon DEF IsHash

(* The deadline of the connections kept is the earliest of theirs, or has passed. *)
LEMMA DeadlineIs ==
  ASSUME NEW a, NEW cs, IsHash(cs, a) PROVE NextDeadline(cs) \in Deadlines
<1>1. CASE cs = <<>>
  BY <1>1 DEF NextDeadline, Deadlines
<1>2. CASE cs # <<>>
  <2> DEFINE T == {Left(cs[c]) : c \in DOMAIN cs}
             P(d) == /\ \E c \in DOMAIN cs : d = Left(cs[c])
                     /\ \A c \in DOMAIN cs : d <= Left(cs[c])
  <2>1. DOMAIN cs # {}
    BY <1>2, EmptyHash DEF IsHash
  <2>2. \A c \in DOMAIN cs : Left(cs[c]) \in 0..Stale
    <3>1. \A c \in DOMAIN cs : cs[c].age \in 0..Stale + 1
      BY DEF IsHash, ConnType
    <3>2. QED
      BY <3>1, StaleAssumption DEF Left
  <2>3. T \in SUBSET (0..Stale) /\ T # {}
    BY <2>1, <2>2, Zenon
  <2>4. T \in SUBSET Nat
    BY <2>3, StaleAssumption
  <2>5. PICK d \in T : \A t \in T : d <= t
    BY <2>3, <2>4, Least, Zenon
  <2>6. d \in 0..Stale /\ P(d)
    BY <2>3, <2>5, Zenon
  <2>7. NextDeadline(cs) = CHOOSE x \in 0..Stale : P(x)
    BY <1>2, Zenon DEF NextDeadline
  <2> HIDE DEF P
  <2>8. (CHOOSE x \in 0..Stale : P(x)) \in 0..Stale
    BY <2>6, Zenon
  <2>9. QED
    BY <2>7, <2>8 DEF Deadlines
<1>3. QED
  BY <1>1, <1>2

(* The status is one of the five, and depends on the connections' activity only. *)
LEMMA EffectiveType ==
  ASSUME NEW cs, NEW m \in Manuals \cup {None}, NEW x PROVE Effective(cs, m, x) \in Statuses
  BY DEF Effective, Manuals, Statuses

(* The effective status depends on which connections there are and how active they
   are, not on their age. *)
LEMMA EffectiveSame ==
  ASSUME NEW a, NEW b, NEW cs, NEW ds, IsHash(cs, a), IsHash(ds, b), SameActivity(cs, ds),
         NEW m, NEW x
  PROVE  Effective(cs, m, x) = Effective(ds, m, x)
<1>1. (cs = <<>>) <=> (ds = <<>>)
  BY EmptyHash DEF IsHash, SameActivity
<1>2. (\E c \in DOMAIN cs : ~cs[c].away) <=> (\E c \in DOMAIN ds : ~ds[c].away)
  BY DEF SameActivity
<1>3. QED
  BY <1>1, <1>2 DEF Effective

(* Seeing a connection just now. *)
LEMMA SeenIs ==
  ASSUME NEW a, NEW c \in a.conns, NEW isAway \in BOOLEAN, IsHash(conns, a)
  PROVE  /\ IsHash(Seen(c, isAway), a)
         /\ c \in DOMAIN conns /\ isAway = conns[c].away => SameActivity(Seen(c, isAway), conns)
<1> DEFINE s == Seen(c, isAway)
<1>1. /\ DOMAIN s = {c} \cup DOMAIN conns
      /\ \A x \in DOMAIN s : s[x] = IF x = c THEN [away |-> isAway, age |-> 0] ELSE conns[x]
      /\ s = [x \in DOMAIN s |-> s[x]]
  BY DEF Seen
<1>2. [away |-> isAway, age |-> 0] \in ConnType
  BY StaleAssumption DEF ConnType
<1> HIDE DEF s
<1>3. IsHash(s, a)
  <2>1. \A x \in DOMAIN s : s[x] \in ConnType
    BY <1>1, <1>2 DEF IsHash
  <2>2. s \in [DOMAIN s -> ConnType]
    BY <1>1, <2>1
  <2>3. QED
    BY <1>1, <2>2 DEF IsHash
<1>4. ASSUME c \in DOMAIN conns, isAway = conns[c].away PROVE SameActivity(s, conns)
  BY <1>1, <1>4 DEF SameActivity
<1>5. QED
  BY <1>3, <1>4 DEF s

-----------------------------------------------------------------------------
(* The inductive invariant.  Types is TypeOK in the terms used here. *)
Types ==
  /\ account \in Accounts /\ IsHash(conns, account)
  /\ manual \in account.manuals \cup {None} /\ azure \in {"in_call", None}
  /\ status \in Statuses \cup {None} /\ sched \in Deadlines
  /\ inCall \in BOOLEAN /\ teams \in BOOLEAN
  /\ client \in [Conns -> {"open", "gone"}] /\ op \in [Procs -> OpType]
  /\ expired \subseteq {"conns", "azure"} /\ faults \in 0..account.faults
PInv == Types /\ OpenKnown /\ StatusIsDerived

(* An account's bound on failures. *)
LEMMA FaultsBound == Types => account.faults \in Nat
  BY AccountsAssumption DEF Types, Habits

(* Types is TypeOK with the shape of the hash spelled out. *)
LEMMA TypesAre == Types <=> TypeOK
<1>1. IsHash(conns, account) <=> \E C \in SUBSET account.conns :
                                   conns \in [C -> [away : BOOLEAN, age : 0..Stale + 1]]
  BY DEF IsHash, ConnType
<1>2. QED
  BY <1>1 DEF Types, TypeOK, OpType, Deadlines

(* What a script that ends in computeLua leaves, whatever it wrote before and
   whichever connections its clock made it drop. *)
LEMMA DeriveKeeps ==
  ASSUME Types, NEW p \in Procs, NEW cs, IsHash(cs, account),
         NEW m \in account.manuals \cup {None}, NEW a \in {"in_call", None},
         Derive(p, cs, m, a), account' = account
  PROVE  /\ IsHash(conns', account) /\ manual' \in account.manuals \cup {None}
         /\ azure' \in {"in_call", None} /\ status' \in Statuses
         /\ expired' = {} /\ op' \in [Procs -> OpType] /\ StatusIsDerived'
<1>1. /\ conns' = cs /\ manual' = m /\ azure' = a /\ expired' = {}
      /\ status' = Effective(cs, m, a)
      /\ op' = [op EXCEPT ![p] = [step |-> "reschedule", next |-> NextDeadline(cs)]]
  BY DEF Derive
<1>2. NextDeadline(cs) \in Deadlines
  BY DeadlineIs
<1>3. m \in Manuals \cup {None}
  BY AccountsAssumption DEF Types, Habits
<1>4. op' \in [Procs -> OpType]
  BY <1>1, <1>2 DEF Types, OpType
<1>5. StatusIsDerived'
  BY <1>1 DEF StatusIsDerived
<1>6. QED
  BY <1>1, <1>3, <1>4, <1>5, EffectiveType

(* A script that prunes on the clock of its own step. *)
LEMMA RecomputeKeeps ==
  ASSUME Types, NEW p \in Procs, NEW cs, IsHash(cs, account),
         NEW m \in account.manuals \cup {None}, NEW a \in {"in_call", None},
         Recompute(p, cs, m, a), account' = account
  PROVE  /\ IsHash(conns', account) /\ manual' \in account.manuals \cup {None}
         /\ azure' \in {"in_call", None} /\ status' \in Statuses
         /\ expired' = {} /\ op' \in [Procs -> OpType] /\ StatusIsDerived'
<1>1. IsHash(Live(cs), account)
  BY PrunedIs, Zenon DEF Live
<1>2. Derive(p, Live(cs), m, a)
  BY DEF Recompute
<1>3. QED
  BY <1>1, <1>2, DeriveKeeps, Zenon

(* A step that only replaces connections by equally active ones keeps the
   status derived. *)
LEMMA ActivityKeeps ==
  ASSUME Types, StatusIsDerived, IsHash(conns', account), SameActivity(conns', conns),
         UNCHANGED <<manual, azure, status, expired>>
  PROVE  StatusIsDerived'
<1>1. IsHash(conns, account)
  BY DEF Types
<1>2. Effective(conns', manual, azure) = Effective(conns, manual, azure)
  BY <1>1, EffectiveSame
<1>3. QED
  BY <1>2 DEF StatusIsDerived

(* Time passes over every connection and every deadline. *)
LEMMA TickKeeps ==
  ASSUME Types, Tick
  PROVE  /\ IsHash(conns', account) /\ SameActivity(conns', conns)
         /\ sched' \in Deadlines /\ op' \in [Procs -> OpType]
<1>1. \A d \in Deadlines : Sooner(d) \in Deadlines
  BY StaleAssumption DEF Sooner, Deadlines
<1>2. ASSUME NEW c \in DOMAIN conns
      PROVE  conns'[c] \in ConnType /\ conns'[c].away = conns[c].away
  <2>1. conns[c] \in ConnType
    BY DEF Types, IsHash
  <2>2. conns'[c] = [conns[c] EXCEPT !.age = IF @ > Stale THEN @ ELSE @ + 1]
    BY DEF Tick
  <2>3. QED
    BY <2>1, <2>2, StaleAssumption DEF ConnType
<1>3. DOMAIN conns' = DOMAIN conns /\ conns' = [c \in DOMAIN conns |-> conns'[c]]
  BY DEF Tick
<1>4. IsHash(conns', account) /\ SameActivity(conns', conns)
  <2>1. conns' \in [DOMAIN conns -> ConnType]
    BY <1>2, <1>3
  <2>2. QED
    BY <1>2, <1>3, <2>1 DEF IsHash, SameActivity, Types
<1>5. sched' \in Deadlines
  BY <1>1 DEF Tick, Types
<1>6. ASSUME NEW p \in Procs PROVE op'[p] \in OpType
  <2>1. op[p] \in OpType
    BY DEF Types
  <2>2. op'[p] = IF op[p].step = "reschedule" THEN [op[p] EXCEPT !.next = Sooner(@)] ELSE op[p]
    BY DEF Tick
  <2>3. CASE op[p].step = "reschedule"
    <3>1. op[p] \in [step : {"reschedule"}, next : Deadlines]
      BY <2>1, <2>3 DEF OpType, Idle
    <3>2. QED
      BY <1>1, <2>2, <2>3, <3>1 DEF OpType
  <2>4. QED
    BY <2>1, <2>2, <2>3
<1>7. op' \in [Procs -> OpType]
  BY <1>6 DEF Tick
<1>8. QED
  BY <1>4, <1>5, <1>7

(* A request of a client keeps the invariant. *)
LEMMA RequestKeeps ==
  ASSUME PInv, NEW p \in account.handlers, NEW c \in Conns,
         Hello(p, c) \/ Ping(p, c) \/ Bye(p, c) \/ \E isAway \in BOOLEAN : Activity(p, c, isAway)
  PROVE  PInv'
<1>1. /\ Types /\ OpenKnown /\ StatusIsDerived /\ IsHash(conns, account)
      /\ manual \in account.manuals \cup {None} /\ azure \in {"in_call", None}
  BY DEF PInv, Types
<1>2. p \in Procs
  BY <1>1, AccountsAssumption DEF Types, Habits, Procs
<1>3. /\ UNCHANGED <<account, sched, inCall, teams, faults>>
      /\ client' \in [Conns -> {"open", "gone"}]
      /\ client' = client \/ client' = [client EXCEPT ![c] = "gone"]
            \/ (client' = [client EXCEPT ![c] = "open"] /\ c \in account.conns)
  BY <1>1, Zenon DEF Hello, Ping, Bye, Activity, Types
<1>4. OpenKnown'
  BY <1>1, <1>3 DEF OpenKnown, Types
<1>5. ASSUME NEW cs, IsHash(cs, account), Recompute(p, cs, manual, azure) PROVE PInv'
  <2>1. /\ IsHash(conns', account) /\ manual' \in account.manuals \cup {None}
        /\ azure' \in {"in_call", None} /\ status' \in Statuses
        /\ expired' = {} /\ op' \in [Procs -> OpType] /\ StatusIsDerived'
    BY <1>1, <1>2, <1>3, <1>5, RecomputeKeeps
  <2>2. QED
    BY <1>1, <1>3, <1>4, <2>1 DEF PInv, Types
<1>6. CASE Hello(p, c)
  BY <1>1, <1>5, <1>6, SeenIs, Zenon DEF Hello
<1>7. CASE Ping(p, c)
  <2>1. c \in account.conns
    BY <1>1, <1>7 DEF Ping, OpenKnown
  <2>2. CASE c \notin DOMAIN conns /\ Recompute(p, Seen(c, FALSE), manual, azure)
    BY <1>1, <1>5, <2>1, <2>2, SeenIs, ZenonT(60)
  <2>3. CASE PingKnown(p, c)
    <3>1. conns[c].away \in BOOLEAN /\ c \in DOMAIN conns /\ conns' = Seen(c, conns[c].away)
      BY <1>1, <2>3 DEF PingKnown, IsHash, ConnType
    <3>2. IsHash(conns', account) /\ SameActivity(conns', conns)
      BY <1>1, <2>1, <3>1, SeenIs
    <3>3. UNCHANGED <<manual, azure, status, expired>>
      BY <2>3 DEF PingKnown
    <3>4. StatusIsDerived'
      BY <1>1, <3>2, <3>3, ActivityKeeps
    <3>5. op' \in [Procs -> OpType]
      BY <1>1, <1>2, <2>3, StaleAssumption DEF PingKnown, Types, OpType, Deadlines
    <3>6. QED
      BY <1>1, <1>3, <1>4, <3>2, <3>3, <3>4, <3>5 DEF PInv, Types
  <2>4. QED
    BY <1>7, <2>2, <2>3, Zenon DEF Ping
<1>8. CASE Bye(p, c)
  <2>1. IsHash(Restrict(conns, DOMAIN conns \ {c}), account)
    BY <1>1 DEF Restrict, IsHash
  <2>2. QED
    BY <1>5, <1>8, <2>1 DEF Bye
<1>9. ASSUME NEW isAway \in BOOLEAN, Activity(p, c, isAway) PROVE PInv'
  <2>1. c \in account.conns
    BY <1>1, <1>9 DEF Activity, OpenKnown
  <2>2. QED
    BY <1>1, <1>5, <1>9, <2>1, SeenIs, ZenonT(60) DEF Activity
<1>10. QED
  BY <1>6, <1>7, <1>8, <1>9

(* What a process does after its script, and the surroundings, keep the types
   and leave what the status is derived from, or say that a TTL elapsed. *)
LEMMA RestKeeps ==
  ASSUME PInv,
         \/ \E p \in Sweepers : SweepRead(p)
         \/ \E p \in Procs : Reschedule(p)
         \/ SyncRead \/ SyncIndex \/ TeamsCall \/ ConnsExpire \/ AzureExpire
         \/ \E c \in Conns : Vanish(c)
  PROVE  PInv'
<1>1. /\ Types /\ OpenKnown /\ StatusIsDerived /\ IsHash(conns, account)
      /\ op \in [Procs -> OpType] /\ Sync \in Procs
  BY DEF PInv, Types, Procs
<1>2. ASSUME NEW p \in Procs PROVE /\ op[p] \in OpType
                                  /\ op[p].step = "reschedule" => op[p].next \in Deadlines
  <2>1. op[p] \in OpType
    BY <1>1
  <2>2. QED
    BY <2>1 DEF OpType, Idle
<1>3. ASSUME NEW p \in Sweepers, SweepRead(p) PROVE PInv'
  <2>1. Dead(conns) \in SUBSET Conns
    BY <1>1, AccountsAssumption DEF Dead, Types, IsHash, Habits
  <2>2. [step |-> "due", dead |-> Dead(conns)] \in OpType
    BY <2>1, Zenon DEF OpType
  <2>3. op' \in [Procs -> OpType]
    BY <1>1, <1>3, <2>2, Zenon DEF SweepRead
  <2>4. QED
    BY <1>1, <1>3, <2>3, Zenon DEF SweepRead, PInv, Types, OpenKnown, StatusIsDerived
<1>4. ASSUME NEW p \in Procs, Reschedule(p) PROVE PInv'
  <2>1. sched' \in Deadlines
    BY <1>1, <1>2, <1>4, Zenon DEF Reschedule, Types
  <2>2. op' \in [Procs -> OpType]
    BY <1>1, <1>4 DEF Reschedule, OpType
  <2>3. faults' \in 0..account.faults
    BY <1>1, <1>4, FaultsBound DEF Reschedule, Fail, Types
  <2>4. QED
    BY <1>1, <1>4, <2>1, <2>2, <2>3, Zenon DEF Reschedule, PInv, Types, OpenKnown, StatusIsDerived
<1>5. CASE SyncRead
  BY <1>1, <1>5, Zenon DEF SyncRead, PInv, Types, OpenKnown, StatusIsDerived, OpType
<1>6. CASE SyncIndex
  <2>1. faults' \in 0..account.faults
    BY <1>1, <1>6, FaultsBound DEF SyncIndex, Fail, Types
  <2>2. inCall' \in BOOLEAN
    BY <1>1, <1>6, ZenonT(60) DEF SyncIndex, Types
  <2>3. QED
    BY <1>1, <1>6, <2>1, <2>2, ZenonT(60) DEF SyncIndex, PInv, Types, OpenKnown, StatusIsDerived, OpType
<1>7. CASE TeamsCall
  BY <1>1, <1>7 DEF TeamsCall, PInv, Types, OpenKnown, StatusIsDerived
<1>8. CASE ConnsExpire
  <2>1. IsHash(conns', account)
    <3>1. DOMAIN conns' = {} /\ conns' \in [{} -> ConnType]
      BY <1>8 DEF ConnsExpire
    <3>2. QED
      BY <3>1 DEF IsHash
  <2>2. QED
    BY <1>1, <1>8, <2>1, Zenon DEF ConnsExpire, PInv, Types, OpenKnown, StatusIsDerived
<1>9. CASE AzureExpire
  BY <1>1, <1>9 DEF AzureExpire, PInv, Types, OpenKnown, StatusIsDerived
<1>10. ASSUME NEW c \in Conns, Vanish(c) PROVE PInv'
  BY <1>1, <1>10 DEF Vanish, PInv, Types, OpenKnown, StatusIsDerived
<1>11. QED
  BY <1>3, <1>4, <1>5, <1>6, <1>7, <1>8, <1>9, <1>10

(* The inductive invariant holds initially. *)
LEMMA InitPInv == Init => PInv
<1> SUFFICES ASSUME Init PROVE PInv
  OBVIOUS
<1>1. DOMAIN conns = {} /\ conns \in [{} -> ConnType]
  BY DEF Init
<1>2. IsHash(conns, account)
  BY <1>1 DEF IsHash
<1>3. faults \in 0..account.faults
  BY AccountsAssumption DEF Init, Habits
<1>4. op \in [Procs -> OpType]
  BY DEF Init, OpType
<1>5. OpenKnown /\ StatusIsDerived
  BY DEF Init, OpenKnown, StatusIsDerived
<1>6. QED
  BY <1>2, <1>3, <1>4, <1>5, Zenon DEF Init, PInv, Types, Deadlines

(* Every step keeps the inductive invariant. *)
LEMMA NextPInv == PInv /\ [Next]_vars => PInv'
<1> SUFFICES ASSUME PInv, [Next]_vars PROVE PInv'
  OBVIOUS
<1>1. /\ Types /\ OpenKnown /\ StatusIsDerived /\ IsHash(conns, account) /\ Sync \in Procs
      /\ manual \in account.manuals \cup {None} /\ azure \in {"in_call", None}
      /\ op[Sync] \in OpType
  BY DEF PInv, Types, Procs
<1>2. ASSUME NEW p \in Procs, NEW m \in account.manuals \cup {None},
             NEW a \in {"in_call", None}, NEW cs, IsHash(cs, account), Derive(p, cs, m, a),
             UNCHANGED <<account, sched, inCall, client, teams, faults>>
      PROVE  PInv'
  <2>1. /\ IsHash(conns', account) /\ manual' \in account.manuals \cup {None}
        /\ azure' \in {"in_call", None} /\ status' \in Statuses
        /\ expired' = {} /\ op' \in [Procs -> OpType] /\ StatusIsDerived'
    BY <1>1, <1>2, DeriveKeeps, Zenon
  <2>2. QED
    BY <1>1, <1>2, <2>1 DEF PInv, Types, OpenKnown
<1>3. IsHash(Live(conns), account)
  BY <1>1, PrunedIs, Zenon DEF Live
<1>4. ASSUME NEW p \in account.handlers, NEW m \in account.manuals, SetManual(p, m)
      PROVE  PInv'
  <2>1. p \in Procs
    BY <1>1, AccountsAssumption, ZenonT(60) DEF Types, Habits, Procs
  <2>2. QED
    BY <1>1, <1>2, <1>4, <1>3, <2>1, Zenon DEF SetManual, Recompute
<1>5. ASSUME NEW p \in Procs, SweepRun(p) PROVE PInv'
  BY <1>1, <1>2, <1>5, PrunedIs, Zenon DEF SweepRun
<1>6. CASE SyncApply
  <2>1. op[Sync].ext \in {"in_call", None}
    BY <1>1, <1>6 DEF SyncApply, OpType, Idle
  <2>2. QED
    BY <1>1, <1>2, <1>6, <1>3, <2>1, Zenon DEF SyncApply, Recompute
<1>7. CASE Tick
  <2>1. /\ IsHash(conns', account) /\ SameActivity(conns', conns)
        /\ sched' \in Deadlines /\ op' \in [Procs -> OpType]
    BY <1>1, <1>7, TickKeeps
  <2>2. UNCHANGED <<account, manual, azure, status, inCall, client, teams, expired, faults>>
    BY <1>7 DEF Tick
  <2>3. StatusIsDerived'
    BY <1>1, <2>1, <2>2, ActivityKeeps, ZenonT(60)
  <2>4. QED
    BY <1>1, <2>1, <2>2, <2>3, Zenon DEF PInv, Types, OpenKnown
<1>8. CASE UNCHANGED vars
  BY <1>1, <1>8 DEF vars, PInv, Types, OpenKnown, StatusIsDerived
<1>9. QED
  BY <1>4, <1>5, <1>6, <1>7, <1>8, RequestKeeps, RestKeeps, Zenon DEF Next, Finish

-----------------------------------------------------------------------------
(* The state keeps its type; above all, every deadline that a script returns,
   however its index update is delayed, lies within the staleness threshold, so
   no account is scheduled for a sweep that never comes (computeLua,
   reschedule). *)
THEOREM PresenceTypes == Spec => []TypeOK
<1>1. Init => PInv
  BY InitPInv
<1>2. PInv => TypeOK
  BY TypesAre DEF PInv
<1>3. QED
  BY <1>1, <1>2, NextPInv, PTL DEF Spec

(* Whatever the interleaving of handlers, sweepers and the Teams sync, the status
   that queries read is the one the connections, the override and the external
   status determine, although pings refresh a connection without recomputing it
   (PingConn and computeLua in store_valkey.go). *)
THEOREM StatusDerived == Spec => []StatusIsDerived
<1>1. Init => PInv
  BY InitPInv
<1>2. PInv => StatusIsDerived
  BY DEF PInv
<1>3. QED
  BY <1>1, <1>2, NextPInv, PTL DEF Spec
=============================================================================
