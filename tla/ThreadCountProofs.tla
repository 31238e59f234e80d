------------------------- MODULE ThreadCountProofs -------------------------
(***************************************************************************)
(* Proofs about ThreadCount for any replies, goroutines, scenarios and     *)
(* number of failures, and under any interleaving: edits and deletes that  *)
(* were answered stick, and the two copies of the parent agree once every  *)
(* event is acked.                                                         *)
(*                                                                         *)
(* An edit and a delete go through the tables one call at a time, so the   *)
(* invariants say how far each has got (EditsUnderWay, DeletesUnderWay) and *)
(* where a delete that removed a first copy may be found (DeletesTracked). *)
(* Copies of the parent that differ are those of a delete that failed, or  *)
(* some reply's event still has its write before it (CopiesTracked).       *)
(***************************************************************************)
EXTENDS ThreadCount, Sequences, WellFoundedInduction, TLAPS

Times == Replies \cup {NoTime}
Ops == {"none", "add", "edit", "delete"}
States == {"idle", "insert", "read", "scan", "reanchor", "reconcile", "resave", "reread",
           "write", "publish", "find", "cas", "edit", "mirror", "mirrorRoom"}
Maintaining == {"read", "scan", "reanchor", "reconcile", "resave", "reread", "write"}

(* What an operation may be doing. *)
StatesOf(o) == CASE o = "none"   -> {"idle"}
                 [] o = "add"    -> {"insert", "publish"} \cup Maintaining
                 [] o = "edit"   -> {"find", "edit", "mirror", "mirrorRoom"}
                 [] o = "delete" -> {"find", "cas", "mirror", "mirrorRoom"} \cup Maintaining

JobOK(j) == /\ j = [op |-> j.op, r |-> j.r, retry |-> j.retry, saved |-> j.saved, put |-> j.put]
            /\ j.op \in Ops /\ j.r \in Times 
            /\ j.saved.at \in Times /\ j.put.at \in Times
            /\ j.op # "none" => j.r \in Replies
CountsOK(c) == c = [n |-> c.n, at |-> c.at] /\ c.at \in Times

Types ==
  /\ state \in [Workers -> States]
  /\ job = [w \in Workers |-> job[w]]
  /\ \A w \in Workers : JobOK(job[w]) /\ state[w] \in StatesOf(job[w].op)
  /\ inbox \in [Replies -> {"new", "again", "busy", "done"}]
  /\ asks \subseteq Requests
  /\ rows \in [Replies -> [Tables -> Row]]
  /\ parent = [c \in Copies |-> parent[c]] /\ \A c \in Copies : CountsOK(parent[c])
  /\ torn \in BOOLEAN

EditsUnderWay ==
  ~scen.cipher => \A w \in Workers : job[w].op = "edit" =>
    /\ state[w] \in {"mirror", "mirrorRoom"} => rows[job[w].r]["byId"].body = "edited"
    /\ state[w] = "mirrorRoom" => rows[job[w].r]["thread"].body = "edited"

AllDeleted(r) == \A t \in TablesOf(r) : rows[r][t].deleted
Deleting(w, r) == job[w].op = "delete" /\ job[w].r = r /\ state[w] \in {"mirror", "mirrorRoom"}
DeletesUnderWay ==
  \A w \in Workers : job[w].op = "delete" =>
    /\ state[w] \in {"mirror", "mirrorRoom"} => rows[job[w].r]["byId"].deleted
    /\ state[w] = "mirrorRoom" => rows[job[w].r]["thread"].deleted
    /\ state[w] \in Maintaining => AllDeleted(job[w].r)
DeletesTracked ==
  /\ erased \subseteq Replies
  /\ \A r \in erased : rows[r]["byId"].deleted
  /\ \A r \in Replies : rows[r]["byId"].deleted =>
       r \in halfway \/ (\E w \in Workers : Deleting(w, r)) \/ AllDeleted(r)

(* A reply's event is handled by one goroutine at a time. *)
OneHandler ==
  \A w \in Workers : job[w].op = "add" =>
    /\ inbox[job[w].r] = "busy"
    /\ \A v \in Workers : job[v].op = "add" /\ job[v].r = job[w].r => v = w
(* An add writes the last-reply time with the count. *)
AddsTime == \A w \in Workers : job[w].op = "add" /\ state[w] \in {"write", "resave"} =>
                                 job[w].put.time
Owed(w) == job[w].op = "add" /\ state[w] # "publish"
CopiesTracked ==
  \/ parent["byId"] = parent["room"] \/ torn
  \/ \E r \in Replies : inbox[r] = "again"
  \/ \E w \in Workers : Owed(w)

TInv == /\ Types /\ EditsUnderWay /\ EditsStick /\ edited \subseteq Replies
        /\ DeletesUnderWay /\ DeletesTracked
        /\ OneHandler /\ AddsTime /\ CopiesTracked

-----------------------------------------------------------------------------
(* Lemmas about the operators. *)

(* A non-empty set of naturals has a least element. *)
LEMMA Least == ASSUME NEW T \in SUBSET Nat, T # {} PROVE \E x \in T : \A y \in T : x <= y
<1> DEFINE R == OpToRel(<, Nat)
<1>1. IsWellFoundedOn(R, Nat)
  BY NatLessThanWellFounded, Zenon
<1>2. \A x, y \in Nat : y < x => <<y, x>> \in R
  BY DEF OpToRel
<1> HIDE DEF R
<1>3. \E x \in T : \A y \in T : <<y, x>> \notin R
  BY <1>1, WFMin, Zenon
<1>4. PICK x \in T : \A y \in T : <<y, x>> \notin R
  BY <1>3
<1>5. ASSUME NEW y \in T PROVE x <= y
  <2>1. ~(y < x)
    BY <1>2, <1>4, Zenon
  <2>2. QED
    BY <2>1
<1>6. QED
  BY <1>5

(* Finitely many naturals have an upper bound: the least prefix of an enumeration
   without one would have one. *)
LEMMA PrefixBounded ==
  ASSUME NEW n \in Nat, NEW s \in [1..n -> Nat]
  PROVE  \E b \in Nat : \A i \in 1..n : s[i] <= b
<1> DEFINE Bounded(k) == \E b \in Nat : \A i \in 1..k : s[i] <= b
           T == {k \in 0..n : ~Bounded(k)}
<1>1. Bounded(0)
  OBVIOUS
<1>2. ASSUME NEW k \in 0..n, k # 0, Bounded(k - 1) PROVE Bounded(k)
  <2>1. PICK b \in Nat : \A i \in 1..(k - 1) : s[i] <= b
    BY <1>2, SMTT(60)
  <2>2. k \in 1..n /\ s[k] \in Nat
    BY <1>2
  <2>3. b + s[k] \in Nat /\ \A x \in Nat : x <= b => x <= b + s[k]
    BY <2>2
  <2>4. \A i \in 1..k : s[i] <= b + s[k]
    BY <2>1, <2>2, <2>3
  <2>5. QED
    BY <2>3, <2>4
<1> HIDE DEF Bounded
<1>3. T = {}
  <2> SUFFICES ASSUME T # {} PROVE FALSE
    OBVIOUS
  <2>1. T \in SUBSET Nat
    OBVIOUS
  <2>2. \E x \in T : \A y \in T : x <= y
    BY <2>1, Least, Zenon
  <2>3. PICK x \in T : \A y \in T : x <= y
    BY <2>2
  <2>4. x \in 0..n /\ ~Bounded(x)
    BY <2>3
  <2>5. x # 0
    BY <1>1, <2>4
  <2>6. x - 1 \in 0..n /\ ~(x <= x - 1)
    BY <2>4, <2>5
  <2>7. Bounded(x - 1)
    BY <2>3, <2>6
  <2>8. QED
    BY <1>2, <2>4, <2>5, <2>7
<1>4. n \in 0..n
  OBVIOUS
<1>5. Bounded(n)
  BY <1>3, <1>4
<1>6. QED
  BY <1>5 DEF Bounded

(* A finite set of reply times has an upper bound. *)
LEMMA RepliesBounded == \E b \in Nat : \A r \in Replies : r <= b
<1>1. Replies \subseteq Nat /\ \E s \in Seq(Replies) : \A r \in Replies : \E i \in 1..Len(s) : s[i] = r
  BY ReplyTimes DEF IsFiniteSet
<1>2. PICK s \in Seq(Replies) : \A r \in Replies : \E i \in 1..Len(s) : s[i] = r
  BY <1>1
<1>3. Len(s) \in Nat /\ s \in [1..Len(s) -> Replies]
  BY <1>2
<1>4. s \in [1..Len(s) -> Nat]
  BY <1>1, <1>3, Zenon
<1>5. QED
  BY <1>2, <1>3, <1>4, PrefixBounded, ZenonT(60)

(* A reply's time is never NoTime. *)
LEMMA RepliesPositive == \A r \in Replies : r \in Nat /\ r > 0
  BY ReplyTimes

(* A non-empty set of times has a greatest, which Max chooses. *)
LEMMA MaxIs ==
  ASSUME NEW S \in SUBSET Times, S # {}
  PROVE  Max(S) \in S /\ \A t \in S : Max(S) >= t
<1>1. PICK b \in Nat : \A r \in Replies : r <= b
  BY RepliesBounded
<1>2. Times \subseteq Nat /\ \A t \in Times : t <= b
  BY <1>1, ReplyTimes DEF Times, NoTime
<1> DEFINE T == {b - t : t \in S}
<1>3. T \in SUBSET Nat /\ T # {}
  <2>1. \A t \in S : b - t \in Nat
    BY <1>2
  <2>2. QED
    BY <2>1
<1>4. \E x \in T : \A y \in T : x <= y
  BY <1>3, Least, Zenon
<1>5. PICK m \in S : \A y \in T : b - m <= y
  BY <1>4
<1>6. ASSUME NEW t \in S PROVE m >= t
  <2>1. b - m <= b - t /\ m \in Nat /\ t \in Nat
    BY <1>2, <1>5
  <2>2. QED
    BY <2>1
<1> DEFINE P(x) == \A t \in S : x >= t
<1>7. P(m)
  BY <1>6
<1> HIDE DEF P
<1>8. (CHOOSE x \in S : P(x)) \in S /\ P(CHOOSE x \in S : P(x))
  BY <1>7, Zenon
<1>9. Max(S) = CHOOSE x \in S : P(x)
  BY Zenon DEF Max, P
<1>10. QED
  BY <1>8, <1>9 DEF P

(* Newest returns a time at or past every reply of the set. *)
LEMMA NewestIs ==
  ASSUME NEW S \in SUBSET Replies
  PROVE  Newest(S) \in Times /\ \A r \in S : Newest(S) >= r
<1>1. S \cup {NoTime} \in SUBSET Times /\ S \cup {NoTime} # {}
  BY DEF Times
<1>2. QED
  BY <1>1, MaxIs DEF Newest

(* keepNewer returns a time at or past both of its arguments. *)
LEMMA KeepNewerIs ==
  ASSUME NEW s \in Times, NEW t \in Times
  PROVE  keepNewer(s, t) \in Times /\ keepNewer(s, t) >= s /\ keepNewer(s, t) >= t
<1>1. {s, t} \in SUBSET Times /\ {s, t} # {}
  OBVIOUS
<1>2. QED
  BY <1>1, MaxIs DEF keepNewer

(* The newest of counted replies is one of them. *)
LEMMA CountIs == ASSUME NEW limit PROVE countReplies(limit).newest \in Times
<1> DEFINE S == {r \in Looked(limit) : ~rows[r]["thread"].deleted}
<1>1. S \in SUBSET Replies
  BY DEF Looked, Thread
<1>2. countReplies(limit).newest = Newest(S)
  BY DEF countReplies
<1>3. QED
  BY <1>1, <1>2, NewestIs

(* What Maintain saves: a time of the thread's, and for an add always a time. *)
PutOK(w, put) == put.at \in Times /\ (job[w].op = "add" => put.time)

(* The time Maintain is given is a reply's when a reply is added. *)
LEMMA ReplyAtIs ==
  ASSUME NEW w, JobOK(job[w])
  PROVE  ReplyAt(w) \in Times /\ (job[w].op = "add" => ReplyAt(w) \in Replies /\ ReplyAt(w) # NoTime)
  BY ReplyTimes DEF ReplyAt, JobOK, Times, NoTime

(* What changeWithoutCounting saves is well formed. *)
LEMMA ChangePut ==
  ASSUME NEW w, JobOK(job[w]), NEW saved, saved.at \in Times
  PROVE  PutOK(w, changeWithoutCounting(w, saved))
<1>1. keepNewer(saved.at, ReplyAt(w)) \in Times
  BY ReplyAtIs, KeepNewerIs
<1>2. QED
  BY <1>1, ReplyAtIs, Zenon DEF PutOK, changeWithoutCounting

(* So is a full count, also when a recount replaces the time. *)
LEMMA ExactPut ==
  ASSUME NEW w, JobOK(job[w]), NEW c, c.newest \in Times
  PROVE  PutOK(w, exactCount(w, c)) /\ PutOK(w, [exactCount(w, c) EXCEPT !.at = c.newest])
<1>1. keepNewer(c.newest, ReplyAt(w)) \in Times
  BY ReplyAtIs, KeepNewerIs
<1>2. QED
  BY <1>1 DEF PutOK, exactCount

(* So is a count that stopped early. *)
LEMMA PartialPut ==
  ASSUME NEW w, JobOK(job[w]), NEW c, c.newest \in Times
  PROVE  PutOK(w, partialCount(w, c))
<1> DEFINE k == keepNewer(job[w].saved.at, c.newest)
           at == keepNewer(k, ReplyAt(w))
<1>1. k \in Times
  BY KeepNewerIs DEF JobOK
<1>2. ReplyAt(w) \in Times
  BY ReplyAtIs
<1> HIDE DEF k
<1>3. at \in Times /\ at >= ReplyAt(w)
  BY <1>1, <1>2, KeepNewerIs
<1>4. partialCount(w, c).at = at /\ partialCount(w, c).time = (at # NoTime)
  BY Zenon DEF partialCount, k
<1> HIDE DEF at
<1>5. ASSUME job[w].op = "add" PROVE at # NoTime
  <2>1. ReplyAt(w) \in Nat /\ ReplyAt(w) > 0
    <3>1. ReplyAt(w) \in Replies
      BY <1>5, ReplyAtIs
    <3>2. QED
      BY <3>1, RepliesPositive
  <2>2. QED
    BY <1>3, <2>1 DEF NoTime
<1>6. QED
  BY <1>3, <1>4, <1>5, Zenon DEF PutOK

-----------------------------------------------------------------------------
(* How a step moves the goroutine that takes it. *)

(* Remembering what was read keeps a job what it is. *)
LEMMA JobSaved ==
  ASSUME NEW j, JobOK(j), NEW v, v.at \in Times, NEW k, k = [j EXCEPT !["saved"] = v]
  PROVE  JobOK(k) /\ k.op = j.op /\ k.r = j.r
  BY Zenon DEF JobOK

(* A new job is well formed. *)
LEMMA JobIs ==
  ASSUME NEW o \in Ops, NEW r \in Times, o # "none" => r \in Replies, NEW x
  PROVE  JobOK(Job(o, r, x)) /\ Job(o, r, x).op = o /\ Job(o, r, x).r = r
<1>1. NoCounts.at = NoTime /\ NoPut.at = NoTime
  BY DEF NoCounts, NoPut
<1>2. QED
  BY <1>1 DEF Job, JobOK, Times

(* A new job that is not a retry is well formed. *)
LEMMA FreshJobIs ==
  ASSUME NEW o \in Ops, NEW r \in Times, o # "none" => r \in Replies
  PROVE  JobOK(Job(o, r, FALSE)) /\ Job(o, r, FALSE).op = o /\ Job(o, r, FALSE).r = r
<1>1. NoCounts.at = NoTime /\ NoPut.at = NoTime
  BY DEF NoCounts, NoPut
<1>2. QED
  BY <1>1 DEF Job, JobOK, Times

(* An idle goroutine has no job. *)
LEMMA IdleIs == JobOK(Idle) /\ Idle.op = "none" /\ "idle" \in StatesOf("none")
  BY FreshJobIs, Zenon DEF Idle, Ops, Times, StatesOf

(* Only goroutine w moves: to idle, or to another state of the same operation. *)
Moved(w, s) ==
  /\ state' = [state EXCEPT ![w] = s]
  /\ job' = [job EXCEPT ![w] = job'[w]]
  /\ JobOK(job'[w])
  /\ \/ s = "idle" /\ job'[w] = Idle
     \/ s \in StatesOf(job[w].op) /\ job'[w].op = job[w].op /\ job'[w].r = job[w].r

(* A move of one goroutine keeps everybody's job well formed and leaves the others
   where they are. *)
LEMMA MovedKeeps ==
  ASSUME Types, NEW w \in Workers, NEW s \in States, Moved(w, s)
  PROVE  /\ state' \in [Workers -> States] /\ job' = [v \in Workers |-> job'[v]]
         /\ \A v \in Workers : JobOK(job'[v]) /\ state'[v] \in StatesOf(job'[v].op)
         /\ state'[w] = s
         /\ \A v \in Workers : v # w => state'[v] = state[v] /\ job'[v] = job[v]
<1>1. /\ state \in [Workers -> States] /\ job = [v \in Workers |-> job[v]]
      /\ \A v \in Workers : JobOK(job[v]) /\ state[v] \in StatesOf(job[v].op)
  BY DEF Types
<1>2. /\ state' \in [Workers -> States] /\ state'[w] = s
      /\ \A v \in Workers : v # w => state'[v] = state[v]
  BY <1>1 DEF Moved
<1>3. /\ DOMAIN job' = Workers
      /\ \A v \in Workers : v # w => job'[v] = job[v]
  BY <1>1 DEF Moved
<1>4. job' = [v \in Workers |-> job'[v]]
  BY <1>1, <1>3 DEF Moved
<1>5. JobOK(job'[w]) /\ s \in StatesOf(job'[w].op)
  BY IdleIs DEF Moved
<1>6. QED
  BY <1>1, <1>2, <1>3, <1>4, <1>5

(* The states of each operation, spelled out. *)
LEMMA StatesOfIs ==
  /\ StatesOf("none") = {"idle"}
  /\ StatesOf("add") = {"insert", "publish"} \cup Maintaining
  /\ StatesOf("edit") = {"find", "edit", "mirror", "mirrorRoom"}
  /\ StatesOf("delete") = {"find", "cas", "mirror", "mirrorRoom"} \cup Maintaining
  BY DEF StatesOf

(* Maintain: the steps of pkg/threadcount stay among its own states. *)
LEMMA MaintainMoves ==
  ASSUME Types, NEW w \in Workers,
         ReadCounts(w) \/ CountFromReplies(w) \/ Reconcile(w) \/ RereadCounts(w)
  PROVE  /\ state[w] \in Maintaining
         /\ \E s \in Maintaining : /\ Moved(w, s)
                                   /\ s \in {"write", "resave"} => PutOK(w, job'[w].put)
         /\ UNCHANGED <<scen, inbox, asks, stores, history>>
<1>1. /\ job = [v \in Workers |-> job[v]] /\ JobOK(job[w]) /\ state[w] \in StatesOf(job[w].op)
      /\ parent["byId"].at \in Times /\ job[w].op \in Ops
  BY DEF Types, CountsOK, Copies, JobOK
<1>2. state[w] \in Maintaining
  BY Zenon DEF ReadCounts, CountFromReplies, Reconcile, RereadCounts, At, Maintaining
<1>3. Maintaining \subseteq StatesOf(job[w].op)
  BY <1>1, <1>2, StatesOfIs DEF Maintaining, Ops
<1> DEFINE Good(s) == Moved(w, s) /\ (s \in {"write", "resave"} => PutOK(w, job'[w].put))
<1>4. ASSUME NEW v, PutOK(w, v), NEW s \in Maintaining, With(w, "put", v), Goto(w, s)
      PROVE  Good(s)
  <2>1. job' = [job EXCEPT ![w] = [job[w] EXCEPT !["put"] = v]]
    BY <1>4 DEF With
  <2>2. job'[w] = [job[w] EXCEPT !["put"] = v]
    BY <1>1, <2>1
  <2>3. /\ JobOK(job'[w]) /\ job'[w].op = job[w].op /\ job'[w].r = job[w].r
        /\ job'[w].put = v
    <3>1. JobOK(job[w]) /\ v.at \in Times
      BY <1>1, <1>4 DEF PutOK
    <3>2. QED
      BY <2>2, <3>1, Zenon DEF JobOK
  <2>4. QED
    BY <1>3, <1>4, <2>1, <2>2, <2>3, Zenon DEF Moved, Goto
<1>5. ASSUME NEW v, v.at \in Times, NEW s \in {"scan", "reanchor"}, With(w, "saved", v), Goto(w, s)
      PROVE  Good(s)
  <2>1. job' = [job EXCEPT ![w] = [job[w] EXCEPT !["saved"] = v]]
    BY <1>5 DEF With
  <2>2. job'[w] = [job[w] EXCEPT !["saved"] = v]
    BY <1>1, <2>1
  <2>3. JobOK(job'[w]) /\ job'[w].op = job[w].op /\ job'[w].r = job[w].r
    BY <1>1, <1>5, <2>2, JobSaved
  <2>4. QED
    BY <1>3, <1>5, <2>1, <2>2, <2>3, Zenon DEF Moved, Goto, Maintaining
<1> HIDE DEF Good
<1> SUFFICES (\E s \in Maintaining : Good(s)) /\ UNCHANGED <<scen, inbox, asks, stores, history>>
  BY <1>2 DEF Good
<1>6. CASE ReadCounts(w)
  BY <1>1, <1>4, <1>5, <1>6, ChangePut, ZenonT(60) DEF ReadCounts, Maintaining
<1>7. CASE CountFromReplies(w)
  <2>1. ASSUME Goto(w, "reconcile"), UNCHANGED job PROVE Good("reconcile")
    BY <1>1, <1>3, <2>1 DEF Moved, Goto, Maintaining, Good
  <2> DEFINE c == countReplies(scen.scan)
  <2>2. PutOK(w, exactCount(w, c)) /\ PutOK(w, partialCount(w, c))
    BY <1>1, CountIs, ExactPut, PartialPut, Zenon
  <2>3. /\ \/ Goto(w, "write") /\ With(w, "put", exactCount(w, c))
           \/ Goto(w, "write") /\ With(w, "put", partialCount(w, c))
           \/ Goto(w, "reconcile") /\ UNCHANGED job
        /\ UNCHANGED <<scen, inbox, asks, stores, history>>
    BY <1>7 DEF CountFromReplies
  <2> HIDE DEF c
  <2>4. QED
    BY <1>4, <2>1, <2>2, <2>3 DEF Maintaining
<1>8. CASE Reconcile(w)
  <2> DEFINE c == countReplies(scen.rowLimit)
  <2>1. PutOK(w, [exactCount(w, c) EXCEPT !.at = c.newest])
    BY <1>1, CountIs, ExactPut
  <2>2. /\ With(w, "put", [exactCount(w, c) EXCEPT !.at = c.newest])
        /\ Goto(w, "resave") \/ Goto(w, "write")
        /\ UNCHANGED <<scen, inbox, asks, stores, history>>
    BY <1>8 DEF Reconcile
  <2> HIDE DEF c
  <2>3. QED
    BY <1>4, <2>1, <2>2 DEF Maintaining
<1>9. CASE RereadCounts(w)
  <2>1. PICK unread \in BOOLEAN :
          With(w, "put", changeWithoutCounting(w,
              IF unread \/ parent["byId"].n = Uncounted THEN job[w].saved ELSE parent["byId"]))
    BY <1>9, Zenon DEF RereadCounts
  <2> DEFINE saved == IF unread \/ parent["byId"].n = Uncounted THEN job[w].saved ELSE parent["byId"]
  <2>2. saved.at \in Times
    BY <1>1, Zenon DEF JobOK
  <2>3. PutOK(w, changeWithoutCounting(w, saved))
    BY <1>1, <2>2, ChangePut, Zenon
  <2>4. Goto(w, "write") /\ UNCHANGED <<scen, inbox, asks, stores, history>>
    BY <1>9, Zenon DEF RereadCounts
  <2>5. QED
    BY <1>4, <2>1, <2>3, <2>4, Zenon DEF Maintaining
<1>10. QED
  BY <1>6, <1>7, <1>8, <1>9

(* Every step of a goroutine moves it alone. *)
LEMMA StepMoves ==
  ASSUME Types, NEW w \in Workers, Step(w)
  PROVE  state[w] # "idle" /\ \E s \in States : Moved(w, s)
<1>1. /\ job = [v \in Workers |-> job[v]] /\ JobOK(job[w]) /\ state[w] \in StatesOf(job[w].op)
      /\ job[w].op \in Ops
  BY DEF Types, JobOK
<1>2. state[w] # "idle"
  BY Zenon DEF Step, SaveThreadMessage, SaveFails, ReadCounts, CountFromReplies, Reconcile,
     ReconcileFails, RereadCounts, WriteCounts, WriteFails, ResaveFails, Publish, Fail,
     FindMessage, UpdateMessageContent, SoftDelete, DeleteMirrors, At
<1> SUFFICES \E s \in States : Moved(w, s)
  BY <1>2
<1>3. ASSUME Done(w) PROVE Moved(w, "idle")
  BY <1>1, <1>3, IdleIs DEF Done, Moved, Goto
<1>4. ASSUME NEW s \in StatesOf(job[w].op), Goto(w, s), UNCHANGED job PROVE Moved(w, s)
  BY <1>1, <1>4 DEF Moved, Goto
<1>5. CASE SaveThreadMessage(w)
  BY <1>1, <1>4, <1>5, StatesOfIs DEF SaveThreadMessage, At, Ops, Maintaining, States
<1>6. CASE SaveFails(w) \/ WriteFails(w) \/ Fail(w) \/ Publish(w)
  BY <1>3, <1>6, Zenon DEF SaveFails, WriteFails, Fail, Publish, GiveUp, States
<1>7. CASE ReconcileFails(w) \/ ResaveFails(w)
  BY <1>1, <1>3, <1>4, <1>7, StatesOfIs, Zenon
     DEF ReconcileFails, ResaveFails, GiveUp, At, Ops, Maintaining, States
<1>8. CASE WriteCounts(w)
  BY <1>1, <1>3, <1>4, <1>8, StatesOfIs DEF WriteCounts, States
<1>9. CASE FindMessage(w)
  BY <1>1, <1>3, <1>4, <1>9, StatesOfIs, ZenonT(60) DEF FindMessage, At, Ops, Maintaining, States
<1>10. CASE UpdateMessageContent(w)
  <2> DEFINE last == (At(w, "mirror") /\ job[w].r \notin TShow) \/ At(w, "mirrorRoom")
  <2>1. CASE last
    <3>1. Goto(w, "idle") /\ job' = [job EXCEPT ![w] = Idle]
      BY <1>10, <2>1, Zenon DEF UpdateMessageContent, At
    <3>2. QED
      BY <1>3, <3>1 DEF Done, States
  <2>2. CASE ~last
    <3>1. (Goto(w, "mirror") \/ Goto(w, "mirrorRoom")) /\ UNCHANGED job /\ job[w].op = "edit"
      BY <1>10, <2>2, Zenon DEF UpdateMessageContent, At
    <3>2. QED
      BY <1>4, <3>1, StatesOfIs DEF States
  <2>3. QED
    BY <2>1, <2>2
<1>11. CASE SoftDelete(w)
  BY <1>1, <1>3, <1>4, <1>11, StatesOfIs, ZenonT(60) DEF SoftDelete, At, Ops, Maintaining, States
<1>12. CASE DeleteMirrors(w)
  BY <1>1, <1>4, <1>12, StatesOfIs DEF DeleteMirrors, Maintaining, States
<1>13. CASE ReadCounts(w) \/ CountFromReplies(w) \/ Reconcile(w) \/ RereadCounts(w)
  BY <1>13, MaintainMoves, Zenon DEF States, Maintaining
<1>14. QED
  BY <1>5, <1>6, <1>7, <1>8, <1>9, <1>10, <1>11, <1>12, <1>13, SMTT(60) DEF Step

(* How a row may change: a create, an edit or a delete of one table. *)
RowStep(old, new) ==
  \/ new = old \/ new = Inserted(old) \/ new = Edit(old) \/ new = Delete(old)

(* No change of a row takes back a delete, or an edit unless bodies are encrypted. *)
LEMMA RowStepKeeps ==
  ASSUME NEW old \in Row, NEW new, RowStep(old, new)
  PROVE  /\ new \in Row /\ (old.deleted => new.deleted)
         /\ ~scen.cipher /\ old.body = "edited" => new.body = "edited"
<1>1. CASE new = old \/ new = Edit(old) \/ new = Inserted(old)
  BY <1>1 DEF Row, Edit, Inserted
<1>2. CASE new = Delete(old)
  <2>1. CASE scen.cipher
    BY <1>2, <2>1 DEF Row, Delete
  <2>2. CASE ~scen.cipher
    BY <1>2, <2>2 DEF Row, Delete
  <2>3. QED
    BY <2>1, <2>2
<1>3. QED
  BY <1>1, <1>2 DEF RowStep

(* Rows change by such steps only. *)
LEMMA RowsStep ==
  ASSUME Types, [Next]_vars
  PROVE  /\ rows' \in [Replies -> [Tables -> Row]] /\ scen' = scen
         /\ \A r \in Replies, t \in Tables :
              /\ rows[r][t].deleted => rows'[r][t].deleted
              /\ ~scen.cipher /\ rows[r][t].body = "edited" => rows'[r][t].body = "edited"
<1>1. rows \in [Replies -> [Tables -> Row]]
  BY DEF Types
<1>2. scen' = scen
  BY ZenonT(60) DEF Next, vars, Deliver, Ask, Step, SaveThreadMessage, SaveFails, ReadCounts,
     CountFromReplies, Reconcile, ReconcileFails, RereadCounts, WriteCounts, WriteFails,
     ResaveFails, Publish, Fail, FindMessage, UpdateMessageContent, SoftDelete, DeleteMirrors, Rest
<1> DEFINE Changed == /\ \A r \in Replies : \A t \in Tables : RowStep(rows[r][t], rows'[r][t])
                     /\ rows' = [r \in Replies |-> [t \in Tables |-> rows'[r][t]]]
<1>3. ASSUME UNCHANGED rows PROVE Changed
  BY <1>1, <1>3 DEF RowStep
<1>4. ASSUME NEW w \in Workers, NEW S, InsertInto(w, S) PROVE Changed
  <2>1. rows' = [rows EXCEPT ![job[w].r] =
                   [t \in Tables |-> IF t \in S THEN Inserted(rows[job[w].r][t]) ELSE rows[job[w].r][t]]]
    BY <1>4 DEF InsertInto
  <2>2. QED
    BY <1>1, <2>1, Zenon DEF RowStep
<1>5. ASSUME NEW r \in Replies, NEW t \in Tables, NEW row, RowStep(rows[r][t], row), Update(r, t, row)
      PROVE  Changed
  BY <1>1, <1>5, Zenon DEF Update, RowStep
<1>6. ASSUME NEW w \in Workers, UpdateMessageContent(w) \/ SoftDelete(w) \/ DeleteMirrors(w)
      PROVE  Changed
  <2>1. job[w].r \in Replies
    <3>1. job[w].op # "none"
      BY <1>6, StatesOfIs, Zenon DEF UpdateMessageContent, SoftDelete, DeleteMirrors, At, Types
    <3>2. QED
      BY <3>1 DEF Types, JobOK
  <2>2. CASE UpdateMessageContent(w)
    BY <1>5, <2>1, <2>2, Zenon DEF UpdateMessageContent, RowStep, Tables
  <2>3. CASE SoftDelete(w)
    BY <1>1, <1>5, <2>1, <2>3, Zenon DEF SoftDelete, RowStep, Tables
  <2>4. CASE DeleteMirrors(w)
    BY <1>5, <2>1, <2>4, Zenon DEF DeleteMirrors, RowStep, Tables
  <2>5. QED
    BY <1>6, <2>2, <2>3, <2>4
<1>7. Changed
  BY <1>1, <1>3, <1>4, <1>6, ZenonT(60)
     DEF Next, vars, stores, Deliver, Ask, Step, SaveThreadMessage, SaveFails, ReadCounts,
     CountFromReplies, Reconcile, ReconcileFails, RereadCounts, WriteCounts, WriteFails,
     ResaveFails, Publish, Fail, FindMessage, Rest, RowStep
<1>8. \A r \in Replies : \A t \in Tables : rows[r][t] \in Row
  BY <1>1
<1>9. ASSUME NEW r \in Replies, NEW t \in Tables
      PROVE  /\ rows'[r][t] \in Row /\ (rows[r][t].deleted => rows'[r][t].deleted)
             /\ ~scen.cipher /\ rows[r][t].body = "edited" => rows'[r][t].body = "edited"
  BY <1>7, <1>8, RowStepKeeps
<1>10. rows' \in [Replies -> [Tables -> Row]]
  BY <1>7, <1>9
<1>11. QED
  BY <1>2, <1>9, <1>10

(* How a step treats the event that its goroutine handles. *)
EventKept(w) == inbox' = inbox /\ (job[w].op = "add" => job'[w].op = "add" /\ job'[w].r = job[w].r)
EventAgain(w) == /\ job[w].op = "add" /\ job'[w] = Idle
                 /\ inbox' = [inbox EXCEPT ![job[w].r] = "again"]
EventDone(w) == /\ job[w].op = "add" /\ state[w] = "publish" /\ job'[w] = Idle
                /\ inbox' = [inbox EXCEPT ![job[w].r] = "done"]

(* A step leaves the event of its reply with the goroutine, hands it back for
   redelivery, or acks it. *)
LEMMA EventStep ==
  ASSUME Types, NEW w \in Workers, Step(w)
  PROVE  EventKept(w) \/ EventAgain(w) \/ EventDone(w)
<1>1. job = [v \in Workers |-> job[v]] /\ job[w].op \in Ops /\ state[w] \in StatesOf(job[w].op)
  BY DEF Types, JobOK
<1>2. ASSUME Done(w) PROVE job'[w] = Idle
  BY <1>1, <1>2 DEF Done
<1>3. CASE SaveFails(w) \/ WriteFails(w) \/ Fail(w)
  BY <1>2, <1>3, Zenon DEF SaveFails, WriteFails, Fail, GiveUp, EventKept, EventAgain
<1>4. CASE ReconcileFails(w)
  BY <1>2, <1>4, Zenon DEF ReconcileFails, GiveUp, EventKept, EventAgain
<1>5. CASE Publish(w)
  <2>1. job[w].op = "add"
    BY <1>1, <1>5, StatesOfIs DEF Publish, At, Ops, Maintaining
  <2>2. QED
    BY <1>2, <1>5, <2>1 DEF Publish, At, EventDone
<1>6. CASE WriteCounts(w) \/ SaveThreadMessage(w) \/ ResaveFails(w)
  BY <1>6, Zenon DEF WriteCounts, SaveThreadMessage, ResaveFails, EventKept
<1>7. CASE FindMessage(w) \/ UpdateMessageContent(w) \/ SoftDelete(w) \/ DeleteMirrors(w)
  <2>1. job[w].op # "add"
    BY <1>1, <1>7, StatesOfIs, Zenon
       DEF FindMessage, UpdateMessageContent, SoftDelete, DeleteMirrors, At, Maintaining
  <2>2. QED
    BY <1>7, <2>1, Zenon DEF FindMessage, UpdateMessageContent, SoftDelete, DeleteMirrors, EventKept
<1>8. CASE ReadCounts(w) \/ CountFromReplies(w) \/ Reconcile(w) \/ RereadCounts(w)
  <2>1. inbox' = inbox /\ state[w] \in Maintaining /\ \E s \in Maintaining : Moved(w, s)
    BY <1>8, MaintainMoves, Zenon
  <2>2. job'[w].op = job[w].op /\ job'[w].r = job[w].r
    BY <2>1 DEF Moved, Maintaining
  <2>3. QED
    BY <2>1, <2>2, Zenon DEF EventKept
<1>9. QED
  BY <1>3, <1>4, <1>5, <1>6, <1>7, <1>8 DEF Step

(* What is written to the parent is one of the pairs a job carries. *)
LEMMA SavedIs ==
  ASSUME Types, NEW w \in Workers, NEW S, writeToBothRows(w, S)
  PROVE  /\ parent' = [c \in Copies |-> parent'[c]] /\ \A c \in Copies : CountsOK(parent'[c])
<1>1. parent' = [c \in Copies |-> Saved(c, job[w].put, S)] /\ job[w].put.at \in Times
  BY DEF writeToBothRows, Types, JobOK
<1>2. ASSUME NEW c \in Copies PROVE parent'[c] = Saved(c, job[w].put, S) /\ CountsOK(parent'[c])
  <2>1. parent'[c] = Saved(c, job[w].put, S) /\ CountsOK(parent[c])
    BY <1>1 DEF Types
  <2>2. CASE c \notin S
    BY <2>1, <2>2 DEF Saved
  <2>3. CASE c \in S
    <3> DEFINE at == IF job[w].put.time THEN job[w].put.at ELSE parent[c].at
    <3>1. parent'[c] = [n |-> job[w].put.n, at |-> at]
      BY <2>1, <2>3 DEF Saved
    <3>2. at \in Times
      BY <1>1, <2>1 DEF CountsOK
    <3> HIDE DEF at
    <3>3. QED
      BY <2>1, <3>1, <3>2 DEF CountsOK
  <2>4. QED
    BY <2>2, <2>3
<1>3. QED
  BY <1>1, <1>2

(* Every step keeps the types and the control states. *)
LEMMA TypesStep == ASSUME Types, [Next]_vars PROVE Types'
<1>1. rows' \in [Replies -> [Tables -> Row]]
  BY RowsStep
<1>2. ASSUME NEW w \in Workers, Step(w) PROVE Types'
  <2>1. PICK s \in States : Moved(w, s)
    BY <1>2, StepMoves
  <2>2. /\ state' \in [Workers -> States] /\ job' = [v \in Workers |-> job'[v]]
        /\ \A v \in Workers : JobOK(job'[v]) /\ state'[v] \in StatesOf(job'[v].op)
    BY <2>1, MovedKeeps
  <2>3. inbox' \in [Replies -> {"new", "again", "busy", "done"}]
    BY <1>2, EventStep, Zenon DEF EventKept, EventAgain, EventDone, Types
  <2>4. asks' = asks
    BY <1>2, ZenonT(60) DEF Step, SaveThreadMessage, SaveFails, ReadCounts, CountFromReplies, Reconcile,
       ReconcileFails, RereadCounts, WriteCounts, WriteFails, ResaveFails, Publish, Fail,
       FindMessage, UpdateMessageContent, SoftDelete, DeleteMirrors
  <2>5. parent' = parent \/ \E S : writeToBothRows(w, S)
    BY <1>2, ZenonT(60) DEF Step, stores, SaveThreadMessage, SaveFails, ReadCounts, CountFromReplies, Reconcile,
       ReconcileFails, RereadCounts, WriteCounts, WriteFails, ResaveFails, Publish, Fail,
       FindMessage, UpdateMessageContent, SoftDelete, DeleteMirrors
  <2>6. parent' = [c \in Copies |-> parent'[c]] /\ \A c \in Copies : CountsOK(parent'[c])
    BY <2>5, SavedIs, Zenon DEF Types
  <2>7. torn' \in BOOLEAN
    <3>1. torn \in BOOLEAN
      BY DEF Types
    <3>2. \/ torn' = torn \/ torn' = TRUE \/ torn' = (torn /\ ~job[w].put.time)
          \/ torn' = (torn \/ job[w].op = "delete")
      BY <1>2, ZenonT(60) DEF Step, history, written, SaveThreadMessage, SaveFails, ReadCounts,
         CountFromReplies, Reconcile, ReconcileFails, RereadCounts, WriteCounts, WriteFails,
         ResaveFails, Publish, Fail, FindMessage, UpdateMessageContent, SoftDelete, DeleteMirrors
    <3>3. QED
      BY <3>1, <3>2, Zenon
  <2>8. QED
    BY <1>1, <2>2, <2>3, <2>4, <2>6, <2>7 DEF Types
<1>3. ASSUME NEW w \in Workers, NEW j, JobOK(j), NEW s \in StatesOf(j.op), s \in States,
             job' = [job EXCEPT ![w] = j], Goto(w, s), UNCHANGED <<parent, torn>>,
             inbox' \in [Replies -> {"new", "again", "busy", "done"}], asks' \subseteq asks
      PROVE  Types'
  <2>1. /\ job = [v \in Workers |-> job[v]] /\ state \in [Workers -> States]
        /\ \A v \in Workers : JobOK(job[v]) /\ state[v] \in StatesOf(job[v].op)
    BY DEF Types
  <2>2. state' \in [Workers -> States] /\ job' = [v \in Workers |-> job'[v]]
    BY <1>3, <2>1 DEF Goto
  <2>3. \A v \in Workers : JobOK(job'[v]) /\ state'[v] \in StatesOf(job'[v].op)
    BY <1>3, <2>1 DEF Goto
  <2>4. QED
    BY <1>1, <1>3, <2>2, <2>3, ZenonT(60) DEF Types
<1>4. ASSUME NEW w \in Workers, NEW r \in Replies, Deliver(w, r) PROVE Types'
  <2> DEFINE j == Job("add", r, inbox[r] = "again")
  <2>1. JobOK(j) /\ j.op = "add"
    BY JobIs DEF Ops, Times
  <2>2. /\ job' = [job EXCEPT ![w] = j] /\ Goto(w, "insert") /\ UNCHANGED <<asks, parent, torn>>
        /\ inbox' = [inbox EXCEPT ![r] = "busy"]
    BY <1>4 DEF Deliver, stores, history
  <2> HIDE DEF j
  <2>3. "insert" \in StatesOf(j.op) /\ "insert" \in States
    BY <2>1, StatesOfIs DEF States
  <2>4. inbox' \in [Replies -> {"new", "again", "busy", "done"}]
    BY <2>2 DEF Types
  <2>5. QED
    BY <1>3, <2>1, <2>2, <2>3, <2>4, ZenonT(60)
<1>5. ASSUME NEW w \in Workers, NEW a \in asks, Ask(w, a) PROVE Types'
  <2> DEFINE j == Job(a.op, a.r, FALSE)
  <2>1. a.op \in {"edit", "delete"} /\ a.r \in Replies
    BY DEF Types, Requests
  <2>2. JobOK(j) /\ j.op = a.op
    <3>1. a.op \in Ops /\ a.r \in Times
      BY <2>1 DEF Ops, Times
    <3>2. QED
      BY <2>1, <3>1, FreshJobIs, Zenon
  <2>3. /\ job' = [job EXCEPT ![w] = j] /\ Goto(w, "find") /\ UNCHANGED <<inbox, parent, torn>>
        /\ asks' \subseteq asks
    BY <1>5 DEF Ask, stores, history
  <2> HIDE DEF j
  <2>4. "find" \in StatesOf(j.op) /\ "find" \in States
    BY <2>1, <2>2, StatesOfIs DEF States
  <2>5. QED
    BY <1>3, <2>2, <2>3, <2>4, ZenonT(60) DEF Types
<1>6. CASE UNCHANGED vars
  BY <1>6, Zenon DEF vars, Types, JobOK, CountsOK
<1>7. QED
  BY <1>2, <1>4, <1>5, <1>6 DEF Next, Rest

-----------------------------------------------------------------------------
(* Where a goroutine that is at a table, or at a write, came from. *)
LEMMA MirrorEntry ==
  ASSUME Types, NEW w \in Workers, Step(w), state'[w] \in {"mirror", "mirrorRoom"}
  PROVE  UpdateMessageContent(w) \/ SoftDelete(w) \/ DeleteMirrors(w)
<1>1. state \in [Workers -> States]
  BY DEF Types
<1>2. ASSUME ReadCounts(w) \/ CountFromReplies(w) \/ Reconcile(w) \/ RereadCounts(w) PROVE FALSE
  BY <1>1, <1>2, Zenon DEF ReadCounts, CountFromReplies, Reconcile, RereadCounts, Goto
<1>3. ASSUME SaveThreadMessage(w) \/ WriteCounts(w) \/ ResaveFails(w) \/ FindMessage(w) PROVE FALSE
  BY <1>1, <1>3, Zenon DEF SaveThreadMessage, WriteCounts, ResaveFails, FindMessage, Done, Goto
<1>4. ASSUME SaveFails(w) \/ ReconcileFails(w) \/ WriteFails(w) \/ Publish(w) \/ Fail(w) PROVE FALSE
  BY <1>1, <1>4, Zenon DEF SaveFails, ReconcileFails, WriteFails, Publish, Fail, GiveUp, Done, Goto
<1>5. QED
  BY <1>2, <1>3, <1>4 DEF Step

(* Only a read, a count or a recount leads to the write of the counts. *)
LEMMA WriteEntry ==
  ASSUME Types, NEW w \in Workers, Step(w), state'[w] \in {"write", "resave"}
  PROVE  ReadCounts(w) \/ CountFromReplies(w) \/ Reconcile(w) \/ RereadCounts(w)
<1>1. state \in [Workers -> States]
  BY SMTT(20) DEF Types
<1>2. ASSUME UpdateMessageContent(w) \/ SoftDelete(w) \/ DeleteMirrors(w) PROVE FALSE
  BY <1>1, <1>2, Zenon DEF UpdateMessageContent, SoftDelete, DeleteMirrors, Done, Goto
<1>3. ASSUME SaveThreadMessage(w) \/ WriteCounts(w) \/ ResaveFails(w) \/ FindMessage(w) PROVE FALSE
  BY <1>1, <1>3, Zenon DEF SaveThreadMessage, WriteCounts, ResaveFails, FindMessage, Done, Goto
<1>4. ASSUME SaveFails(w) \/ ReconcileFails(w) \/ WriteFails(w) \/ Publish(w) \/ Fail(w) PROVE FALSE
  BY <1>1, <1>4, Zenon DEF SaveFails, ReconcileFails, WriteFails, Publish, Fail, GiveUp, Done, Goto
<1>5. QED
  BY <1>2, <1>3, <1>4 DEF Step

(* A goroutine that starts is at its first state; the others stay. *)
Started(w) == /\ state'[w] \in {"insert", "find"} /\ state[w] = "idle"
              /\ \A v \in Workers : v # w => state'[v] = state[v] /\ job'[v] = job[v]

(* Taking an event or a request starts one goroutine and writes nothing. *)
LEMMA StartMoves ==
  ASSUME Types, NEW w \in Workers, (\E r \in Replies : Deliver(w, r)) \/ (\E a \in asks : Ask(w, a))
  PROVE  Started(w) /\ UNCHANGED <<scen, stores, history>>
  BY Zenon DEF Types, Deliver, Ask, MayStart, At, Goto, Started

(* Every step is one goroutine's, or changes nothing. *)
LEMMA StepCases ==
  ASSUME [Next]_vars
  PROVE  \/ \E w \in Workers : Step(w)
         \/ \E w \in Workers : (\E r \in Replies : Deliver(w, r)) \/ (\E a \in asks : Ask(w, a))
         \/ UNCHANGED vars
  BY DEF Next, Rest

(* One table's update. *)
LEMMA UpdateIs ==
  ASSUME Types, NEW r \in Replies, NEW t \in Tables, NEW row, Update(r, t, row)
  PROVE  /\ rows'[r][t] = row
         /\ \A q \in Replies, u \in Tables : q # r \/ u # t => rows'[q][u] = rows[q][u]
  BY DEF Types, Update

(* Edits get on and stick. *)
LEMMA EditsStep ==
  ASSUME Types, EditsUnderWay, EditsStick, edited \subseteq Replies, [Next]_vars
  PROVE  EditsUnderWay' /\ EditsStick' /\ edited' \subseteq Replies
<1>1. /\ scen' = scen /\ Types'
      /\ \A r \in Replies, t \in Tables :
           ~scen.cipher /\ rows[r][t].body = "edited" => rows'[r][t].body = "edited"
  BY RowsStep, TypesStep, Zenon
<1>2. \A r : {"byId", "thread"} \subseteq TablesOf(r) /\ TablesOf(r) \subseteq Tables
  BY DEF TablesOf, Tables
<1>3. \A v \in Workers : job[v].op = "edit" => job[v].r \in Replies
  BY Zenon DEF Types, JobOK
<1>4. ASSUME edited' = edited,
             \A v \in Workers : state'[v] \in {"mirror", "mirrorRoom"} /\ job'[v].op = "edit" =>
                               state'[v] = state[v] /\ job'[v] = job[v]
      PROVE  EditsUnderWay' /\ EditsStick' /\ edited' \subseteq Replies
  <2>1. EditsStick'
    BY <1>1, <1>4, ZenonT(60) DEF EditsStick
  <2>2. EditsUnderWay'
    <3>1. "byId" \in Tables /\ "thread" \in Tables
      BY DEF Tables
    <3>2. QED
      BY <1>1, <1>3, <1>4, <3>1, ZenonT(60) DEF EditsUnderWay
  <2>3. QED
    BY <1>4, <2>1, <2>2, SMTT(20)
<1>5. ASSUME NEW w \in Workers, UpdateMessageContent(w)
      PROVE  EditsUnderWay' /\ EditsStick' /\ edited' \subseteq Replies
  <2> DEFINE r == job[w].r
  <2>1. r \in Replies /\ job[w].op = "edit" /\ (r \in TShow \/ TablesOf(r) = {"byId", "thread"})
    BY <1>3, <1>5, Zenon DEF UpdateMessageContent, TablesOf
  <2>2. PICK s \in States : Moved(w, s)
    BY <1>5, StepMoves DEF Step
  <2>3. /\ \A v \in Workers : v # w => state'[v] = state[v] /\ job'[v] = job[v]
        /\ state'[w] \in {"mirror", "mirrorRoom"} => job'[w].r = r
        /\ state'[w] = s
    BY <2>2, MovedKeeps, Zenon DEF Moved
  <2>4. ASSUME ~scen.cipher
        PROVE  /\ At(w, "edit") => rows'[r]["byId"].body = "edited"
               /\ At(w, "mirror") => /\ rows'[r]["byId"].body = "edited"
                                     /\ rows'[r]["thread"].body = "edited"
               /\ At(w, "mirrorRoom") => \A t \in Tables : rows'[r][t].body = "edited"
    <3>1. \A row \in Row : Edit(row).body = "edited"
      BY DEF Row, Edit
    <3>2. \A t \in Tables : rows[r][t] \in Row
      BY <2>1, SMTT(60) DEF Types
    <3>3. CASE At(w, "edit")
      <4>1. Update(r, "byId", Edit(rows[r]["byId"])) /\ "byId" \in Tables
        BY <1>5, <3>3, ZenonT(60) DEF UpdateMessageContent, At, Tables
      <4>2. QED
        <5>1. rows'[r]["byId"] = Edit(rows[r]["byId"])
          BY <2>1, <4>1, UpdateIs
        <5>2. rows'[r]["byId"].body = "edited"
          BY <3>1, <3>2, <4>1, <5>1, Zenon
        <5>3. QED
          BY <3>3, <5>2, Zenon DEF At
    <3>4. CASE At(w, "mirror")
      <4>1. Update(r, "thread", Edit(rows[r]["thread"])) /\ {"thread", "byId"} \subseteq Tables
        BY <1>5, <3>4, Zenon DEF UpdateMessageContent, At, Tables
      <4>2. rows[r]["byId"].body = "edited"
        BY <2>1, <2>4, <3>4, Zenon DEF EditsUnderWay, At
      <4>3. QED
        <5>1. rows'[r]["thread"] = Edit(rows[r]["thread"])
          BY <2>1, <4>1, UpdateIs
        <5>2. rows'[r]["thread"].body = "edited"
          BY <3>1, <3>2, <4>1, <5>1, Zenon
        <5>3. rows'[r]["byId"].body = "edited"
          BY <1>1, <2>1, <2>4, <4>1, <4>2, ZenonT(60)
        <5>4. QED
          BY <3>4, <5>2, <5>3, Zenon DEF At
    <3>5. CASE At(w, "mirrorRoom")
      <4>1. Update(r, "room", Edit(rows[r]["room"])) /\ Tables = {"byId", "thread", "room"}
        BY <1>5, <3>5, Zenon DEF UpdateMessageContent, At, Tables
      <4>2. rows[r]["byId"].body = "edited" /\ rows[r]["thread"].body = "edited"
        BY <2>1, <2>4, <3>5, ZenonT(60) DEF EditsUnderWay, At
      <4>3. rows'[r]["room"].body = "edited"
        <5>1. rows'[r]["room"] = Edit(rows[r]["room"]) /\ "room" \in Tables
          BY <2>1, <4>1, UpdateIs
        <5>2. QED
          BY <3>1, <3>2, <5>1, Zenon
      <4>4. rows'[r]["byId"].body = "edited" /\ rows'[r]["thread"].body = "edited"
        BY <1>1, <2>1, <2>4, <4>1, <4>2, ZenonT(60)
      <4>5. QED
        BY <3>5, <4>1, <4>3, <4>4, Zenon DEF At
    <3>6. QED
      BY <3>3, <3>4, <3>5, Zenon
  <2>5. /\ At(w, "edit") => state'[w] = "mirror"
        /\ At(w, "mirror") => state'[w] \in {"idle", "mirrorRoom"}
        /\ At(w, "mirrorRoom") => state'[w] = "idle"
        /\ At(w, "edit") \/ At(w, "mirror") \/ At(w, "mirrorRoom")
    BY <1>5, Zenon DEF UpdateMessageContent, Goto, At, Types
  <2>6. EditsUnderWay'
    <3> SUFFICES ASSUME ~scen.cipher, NEW v \in Workers, job'[v].op = "edit"
                 PROVE  /\ state'[v] \in {"mirror", "mirrorRoom"} => rows'[job'[v].r]["byId"].body = "edited"
                        /\ state'[v] = "mirrorRoom" => rows'[job'[v].r]["thread"].body = "edited"
      BY <1>1, Zenon DEF EditsUnderWay
    <3>1. CASE v = w
      BY <2>3, <2>4, <2>5, <3>1, ZenonT(60) DEF At
    <3>2. CASE v # w
      <4>1. "byId" \in Tables /\ "thread" \in Tables
        BY DEF Tables
      <4>2. QED
        BY <1>1, <1>3, <2>3, <3>2, <4>1, ZenonT(60) DEF EditsUnderWay
    <3>3. QED
      BY <3>1, <3>2, Zenon
  <2>7. /\ edited' = edited
           \/ (edited' = edited \cup {r} /\ At(w, "mirror") /\ r \notin TShow)
           \/ (edited' = edited \cup {r} /\ At(w, "mirrorRoom"))
    BY <1>5, Zenon DEF UpdateMessageContent
  <2>8. ASSUME ~scen.cipher, edited' = edited \cup {r}, edited' # edited, NEW t \in TablesOf(r)
        PROVE  rows'[r][t].body = "edited"
    BY <1>2, <2>1, <2>4, <2>7, <2>8, Zenon
  <2>9. EditsStick'
    BY <1>1, <2>7, <2>8, Zenon DEF EditsStick
  <2>10. QED
    BY <2>1, <2>6, <2>7, <2>9, Zenon
<1>6. ASSUME NEW w \in Workers, Step(w), ~UpdateMessageContent(w)
      PROVE  EditsUnderWay' /\ EditsStick' /\ edited' \subseteq Replies
  <2>1. edited' = edited
    BY <1>6, ZenonT(60) DEF Step, history, written, SaveThreadMessage, SaveFails, ReadCounts,
       CountFromReplies, Reconcile, ReconcileFails, RereadCounts, WriteCounts, WriteFails,
       ResaveFails, Publish, Fail, FindMessage, SoftDelete, DeleteMirrors
  <2>2. PICK s \in States : Moved(w, s)
    BY <1>6, StepMoves
  <2>3. \A v \in Workers : v # w => state'[v] = state[v] /\ job'[v] = job[v]
    BY <2>2, MovedKeeps
  <2>4. ASSUME state'[w] \in {"mirror", "mirrorRoom"} PROVE job'[w].op # "edit"
    <3>1. SoftDelete(w) \/ DeleteMirrors(w)
      BY <1>6, <2>4, MirrorEntry
    <3>2. job[w].op = "delete"
      BY <3>1, StatesOfIs, Zenon DEF SoftDelete, DeleteMirrors, At, Types, JobOK, Ops, Maintaining
    <3>3. s # "idle"
      BY <2>2, <2>4, MovedKeeps, Zenon
    <3>4. QED
      BY <2>2, <3>2, <3>3, ZenonT(60) DEF Moved
  <2>5. QED
    BY <1>4, <2>1, <2>3, <2>4, ZenonT(60)
<1>7. ASSUME NEW w \in Workers, (\E r \in Replies : Deliver(w, r)) \/ (\E a \in asks : Ask(w, a))
      PROVE  EditsUnderWay' /\ EditsStick' /\ edited' \subseteq Replies
  BY <1>4, <1>7, StartMoves, Zenon DEF Started, history
<1>8. CASE UNCHANGED vars
  BY <1>4, <1>8, ZenonT(60) DEF vars
<1>9. QED
  BY <1>5, <1>6, <1>7, <1>8, StepCases

-----------------------------------------------------------------------------
(* Deletes get on and stick. *)

(* Only the conditional update marks a reply deleted in messages_by_id. *)
LEMMA NewlyDeleted ==
  ASSUME Types, [Next]_vars, NEW r \in Replies, rows'[r]["byId"].deleted, ~rows[r]["byId"].deleted
  PROVE  \E w \in Workers : SoftDelete(w) /\ job[w].r = r /\ state'[w] = "mirror" /\ UNCHANGED job
<1>1. /\ rows \in [Replies -> [Tables -> Row]] /\ "byId" \in Tables
      /\ rows[r] \in [Tables -> Row] /\ rows[r]["byId"] \in Row
  BY Zenon DEF Types, Tables
<1>2. \A row \in Row : Inserted(row).deleted = row.deleted /\ Edit(row).deleted = row.deleted
  BY DEF Inserted, Edit, Row
<1>3. ASSUME NEW w \in Workers, NEW S, InsertInto(w, S) PROVE FALSE
  <2>1. rows'[r]["byId"] = rows[r]["byId"] \/ rows'[r]["byId"] = Inserted(rows[r]["byId"])
    BY <1>1, <1>3, Zenon DEF InsertInto
  <2>2. QED
    BY <1>1, <1>2, <2>1, Zenon
<1>4. ASSUME NEW w \in Workers, UpdateMessageContent(w) PROVE FALSE
  <2>1. job[w].r \in Replies
    BY <1>4, Zenon DEF Types, JobOK, UpdateMessageContent
  <2>2. \E t \in Tables : Update(job[w].r, t, Edit(rows[job[w].r][t]))
    BY <1>4, ZenonT(60) DEF UpdateMessageContent, Tables
  <2>3. rows'[r]["byId"] = rows[r]["byId"] \/ rows'[r]["byId"] = Edit(rows[r]["byId"])
    BY <1>1, <2>1, <2>2, UpdateIs
  <2>4. QED
    BY <1>1, <1>2, <2>3, Zenon
<1>5. ASSUME NEW w \in Workers, DeleteMirrors(w) PROVE FALSE
  <2>1. job[w].r \in Replies
    BY <1>5, Zenon DEF Types, JobOK, DeleteMirrors
  <2>2. \E t \in Tables \ {"byId"} : Update(job[w].r, t, Delete(rows[job[w].r][t]))
    BY <1>5, ZenonT(60) DEF DeleteMirrors, Tables
  <2>3. rows'[r]["byId"] = rows[r]["byId"]
    BY <1>1, <2>1, <2>2, UpdateIs
  <2>4. QED
    BY <2>3
<1>6. ASSUME NEW w \in Workers, SoftDelete(w)
      PROVE  job[w].r = r /\ state'[w] = "mirror" /\ UNCHANGED job
  <2>1. job[w].r \in Replies
    BY <1>6, StatesOfIs, ZenonT(60) DEF Types, JobOK, SoftDelete, At, Ops
  <2>2. rows' # rows
    BY SMTT(20)
  <2>3. Update(job[w].r, "byId", Delete(rows[job[w].r]["byId"])) /\ Goto(w, "mirror") /\ UNCHANGED job
    BY <1>6, <2>2, ZenonT(60) DEF SoftDelete
  <2>4. job[w].r = r
    BY <1>1, <2>1, <2>3, UpdateIs
  <2>5. QED
    BY <2>3, <2>4, Zenon DEF Goto, Types
<1>7. rows' # rows
  OBVIOUS
<1>8. QED
  BY <1>3, <1>4, <1>5, <1>6, <1>7, ZenonT(60)
     DEF Next, vars, stores, Deliver, Ask, Step, SaveThreadMessage, SaveFails, ReadCounts,
     CountFromReplies, Reconcile, ReconcileFails, RereadCounts, WriteCounts, WriteFails,
     ResaveFails, Publish, Fail, FindMessage, Rest

(* A goroutine that is deleting goes on to the next table, or to the parent with
   every table done, or gives up and is recorded. *)
LEMMA DeletingStep ==
  ASSUME Types, DeletesUnderWay, [Next]_vars, NEW w \in Workers, Step(w), job[w].op = "delete",
         state[w] \in {"mirror", "mirrorRoom"}
  PROVE  LET r == job[w].r IN
         \/ r \in halfway' /\ state'[w] = "idle"
         \/ DeleteMirrors(w) /\ UNCHANGED job /\ state'[w] = "mirrorRoom" /\ rows'[r]["thread"].deleted
         \/ DeleteMirrors(w) /\ UNCHANGED job /\ state'[w] = "read" /\ AllDeleted(r)'
<1> DEFINE r == job[w].r
<1>1. r \in Replies /\ state \in [Workers -> States] /\ job = [v \in Workers |-> job[v]]
  BY SMTT(20) DEF Types, JobOK
<1>2. DeleteMirrors(w) \/ Fail(w)
  BY Zenon DEF Step, SaveThreadMessage, SaveFails, ReadCounts, CountFromReplies, Reconcile,
     ReconcileFails, RereadCounts, WriteCounts, WriteFails, ResaveFails, Publish,
     FindMessage, UpdateMessageContent, SoftDelete, At
<1>3. CASE Fail(w)
  BY <1>1, <1>3, Zenon DEF Fail, GiveUp, Done, Goto
<1>4. CASE DeleteMirrors(w)
  <2>1. \A row : Delete(row).deleted
    BY DEF Delete
  <2>2. UNCHANGED job /\ Tables = {"byId", "thread", "room"}
    BY <1>4, Zenon DEF DeleteMirrors, Tables
  <2>3. \A t \in Tables : rows[r][t].deleted => rows'[r][t].deleted
    BY <1>1, RowsStep, Zenon
  <2>4. CASE state[w] = "mirror"
    <3>1. /\ Update(r, "thread", Delete(rows[r]["thread"]))
          /\ state'[w] = IF r \in TShow THEN "mirrorRoom" ELSE "read"
      BY <1>1, <1>4, <2>4, ZenonT(60) DEF DeleteMirrors, At, Goto
    <3>2. rows'[r]["thread"].deleted /\ rows'[r]["byId"].deleted
      <4>1. "thread" \in Tables /\ "byId" \in Tables
        BY <2>2, Zenon
      <4>2. rows'[r]["thread"] = Delete(rows[r]["thread"])
        BY <1>1, <3>1, <4>1, UpdateIs
      <4>3. rows[r]["byId"].deleted
        BY <2>4, Zenon DEF DeletesUnderWay
      <4>4. QED
        BY <2>1, <2>3, <4>1, <4>2, <4>3, Zenon
    <3>3. QED
      BY <1>4, <2>2, <3>1, <3>2, ZenonT(60) DEF AllDeleted, TablesOf
  <2>5. CASE state[w] = "mirrorRoom"
    <3>1. Update(r, "room", Delete(rows[r]["room"])) /\ state'[w] = "read"
      BY <1>1, <1>4, <2>5, ZenonT(60) DEF DeleteMirrors, At, Goto
    <3>2. rows'[r]["room"].deleted
      BY <1>1, <2>1, <2>2, <3>1, UpdateIs, SMTT(20)
    <3>3. rows'[r]["thread"].deleted /\ rows'[r]["byId"].deleted
      BY <2>2, <2>3, <2>5, Zenon DEF DeletesUnderWay
    <3>4. QED
      BY <1>4, <2>2, <3>1, <3>2, <3>3, ZenonT(60) DEF AllDeleted, TablesOf
  <2>6. QED
    BY <2>4, <2>5, ZenonT(60)
<1>5. QED
  BY <1>2, <1>3, <1>4, ZenonT(60)

(* A delete that maintains the parent did so before, or has done every table. *)
LEMMA MaintainEntry ==
  ASSUME Types, NEW w \in Workers, Step(w), job[w].op = "delete", state'[w] \in Maintaining
  PROVE  state[w] \in Maintaining \/ DeleteMirrors(w)
<1>1. state \in [Workers -> States] /\ state[w] \in StatesOf("delete")
  BY Zenon DEF Types
<1>2. CASE state[w] \in Maintaining
  BY <1>2, Zenon
<1>3. CASE state[w] \notin Maintaining
  <2>1. state[w] \in {"find", "cas", "mirror", "mirrorRoom"}
    BY <1>1, <1>3, StatesOfIs, Zenon
  <2>2. DeleteMirrors(w) \/ SoftDelete(w) \/ FindMessage(w) \/ Fail(w)
    BY <2>1, Zenon DEF Step, SaveThreadMessage, SaveFails, ReadCounts, CountFromReplies, Reconcile,
       ReconcileFails, RereadCounts, WriteCounts, WriteFails, ResaveFails, Publish,
       UpdateMessageContent, At
  <2>3. ~SoftDelete(w) /\ ~FindMessage(w) /\ ~Fail(w)
    BY <1>1, Zenon DEF SoftDelete, FindMessage, Fail, GiveUp, Done, Goto, Maintaining
  <2>4. QED
    BY <2>2, <2>3, Zenon
<1>4. QED
  BY <1>2, <1>3, Zenon

(* Every step keeps track of the deletes. *)
LEMMA DeletesStep ==
  ASSUME Types, DeletesUnderWay, DeletesTracked, [Next]_vars
  PROVE  DeletesUnderWay' /\ DeletesTracked'
<1> DEFINE Gone(r) == \A t \in TablesOf(r) : rows'[r][t].deleted
<1>1. /\ "byId" \in Tables /\ "thread" \in Tables
      /\ \A r : "byId" \in TablesOf(r) /\ TablesOf(r) \subseteq Tables
  BY DEF Tables, TablesOf
<1>2. \A r \in Replies, t \in Tables : rows[r][t].deleted => rows'[r][t].deleted
  BY RowsStep, Zenon
<1>3. \A r \in Replies : AllDeleted(r) => Gone(r)
  BY <1>1, <1>2, ZenonT(60) DEF AllDeleted
<1>4. \A v \in Workers : job[v].op = "delete" => job[v].r \in Replies
  BY SMTT(20) DEF Types, JobOK
<1>5. ASSUME NEW v \in Workers, state'[v] = state[v], job'[v] = job[v], job'[v].op = "delete"
      PROVE  /\ state'[v] \in {"mirror", "mirrorRoom"} => rows'[job'[v].r]["byId"].deleted
             /\ state'[v] = "mirrorRoom" => rows'[job'[v].r]["thread"].deleted
             /\ state'[v] \in Maintaining => Gone(job'[v].r)
  BY <1>1, <1>2, <1>3, <1>4, <1>5, ZenonT(60) DEF DeletesUnderWay
<1>6. ASSUME erased' = erased, \A v \in Workers : state[v] # "idle" => state'[v] = state[v] /\ job'[v] = job[v],
             halfway \subseteq halfway', UNCHANGED rows
      PROVE  DeletesTracked'
  <2>1. \A v \in Workers, r \in Replies : Deleting(v, r) => Deleting(v, r)'
    BY <1>6, ZenonT(60) DEF Deleting
  <2>2. \A r : AllDeleted(r) => AllDeleted(r)'
    BY <1>6 DEF AllDeleted
  <2>3. QED
    BY <1>6, <2>1, <2>2, Zenon DEF DeletesTracked
<1>7. ASSUME NEW w \in Workers, Step(w) PROVE DeletesUnderWay' /\ DeletesTracked'
  <2>1. PICK s \in States : Moved(w, s)
    BY <1>7, StepMoves
  <2>2. /\ \A v \in Workers : v # w => state'[v] = state[v] /\ job'[v] = job[v]
        /\ state'[w] = s
        /\ state'[w] # "idle" => job'[w].op = job[w].op /\ job'[w].r = job[w].r
        /\ state'[w] \in StatesOf(job'[w].op)
    BY <2>1, MovedKeeps, Zenon DEF Moved
  <2>3. ASSUME job'[w].op = "delete"
        PROVE  /\ job[w].op = "delete" /\ job'[w].r = job[w].r
               /\ state'[w] \in {"mirror", "mirrorRoom"} => rows'[job'[w].r]["byId"].deleted
               /\ state'[w] = "mirrorRoom" => rows'[job'[w].r]["thread"].deleted
               /\ state'[w] \in Maintaining => Gone(job'[w].r)
    <3>1. job[w].op = "delete" /\ job'[w].r = job[w].r /\ job[w].r \in Replies
      BY <1>4, <2>2, <2>3, StatesOfIs, ZenonT(60) DEF Maintaining
    <3>2. ASSUME state'[w] \in {"mirror", "mirrorRoom"}
          PROVE  /\ rows'[job[w].r]["byId"].deleted
                 /\ state'[w] = "mirrorRoom" => rows'[job[w].r]["thread"].deleted
      <4>1. SoftDelete(w) \/ DeleteMirrors(w)
        BY <1>7, <3>1, <3>2, MirrorEntry, ZenonT(60) DEF UpdateMessageContent
      <4>2. CASE SoftDelete(w)
        <5>1. Update(job[w].r, "byId", Delete(rows[job[w].r]["byId"])) /\ state'[w] = "mirror"
          BY <3>2, <4>2, ZenonT(60) DEF SoftDelete, Goto, Done, Types
        <5>2. \A row : Delete(row).deleted
          BY DEF Delete
        <5>3. QED
          <6>1. "byId" \in Tables
            BY DEF Tables
          <6>2. rows'[job[w].r]["byId"] = Delete(rows[job[w].r]["byId"])
            BY <1>1, <3>1, <5>1, <6>1, UpdateIs, ZenonT(60)
          <6>3. QED
            BY <5>1, <5>2, <6>2, Zenon
      <4>3. CASE DeleteMirrors(w)
        <5>1. state[w] \in {"mirror", "mirrorRoom"}
          BY <4>3, Zenon DEF DeleteMirrors, At
        <5>2. rows'[job[w].r]["byId"].deleted
          BY <1>1, <1>2, <3>1, <5>1, ZenonT(60) DEF DeletesUnderWay
        <5>3. QED
          BY <1>7, <3>1, <3>2, <5>1, <5>2, DeletingStep, ZenonT(60)
      <4>4. QED
        BY <4>1, <4>2, <4>3, ZenonT(60)
    <3>3. ASSUME state'[w] \in Maintaining PROVE Gone(job[w].r)
      <4>1. CASE state[w] \in Maintaining
        BY <1>3, <3>1, <4>1, ZenonT(60) DEF DeletesUnderWay
      <4>2. CASE DeleteMirrors(w)
        <5>1. state[w] \in {"mirror", "mirrorRoom"} /\ state'[w] \notin {"idle", "mirrorRoom"}
          BY <3>3, <4>2, ZenonT(60) DEF DeleteMirrors, At, Maintaining
        <5>2. AllDeleted(job[w].r)' /\ UNCHANGED job
          BY <1>7, <3>1, <5>1, DeletingStep, ZenonT(60)
        <5>3. QED
          BY <5>2, ZenonT(60) DEF AllDeleted
      <4>3. QED
        BY <1>7, <3>1, <3>3, <4>1, <4>2, MaintainEntry, ZenonT(60)
    <3>4. QED
      BY <3>1, <3>2, <3>3, ZenonT(60)
  <2>4. DeletesUnderWay'
    <3> SUFFICES ASSUME NEW v \in Workers, job'[v].op = "delete"
                 PROVE  /\ state'[v] \in {"mirror", "mirrorRoom"} => rows'[job'[v].r]["byId"].deleted
                        /\ state'[v] = "mirrorRoom" => rows'[job'[v].r]["thread"].deleted
                        /\ state'[v] \in Maintaining => Gone(job'[v].r)
      BY Zenon DEF DeletesUnderWay, AllDeleted
    <3>1. CASE v = w
      BY <2>3, <3>1, Zenon
    <3>2. CASE v # w
      BY <1>5, <2>2, <3>2, ZenonT(60)
    <3>3. QED
      BY <3>1, <3>2, Zenon
  <2>5. ASSUME erased' # erased
        PROVE  /\ erased' = erased \cup {job[w].r} /\ job[w].op = "delete"
               /\ rows[job[w].r]["byId"].deleted
    <3>1. WriteCounts(w) \/ FindMessage(w) \/ SoftDelete(w)
      BY <1>7, <2>5, ZenonT(60) DEF Step, history, written, SaveThreadMessage, SaveFails, ReadCounts,
         CountFromReplies, Reconcile, ReconcileFails, RereadCounts, WriteFails,
         ResaveFails, Publish, Fail, UpdateMessageContent, DeleteMirrors
    <3>2. CASE WriteCounts(w)
      <4>1. job[w].op = "delete" /\ erased' = erased \cup {job[w].r} /\ state[w] \in Maintaining
        BY <2>5, <3>2, Zenon DEF WriteCounts, At, Maintaining
      <4>2. AllDeleted(job[w].r)
        BY <4>1, Zenon DEF DeletesUnderWay
      <4>3. QED
        BY <1>1, <4>1, <4>2, ZenonT(60) DEF AllDeleted
    <3>3. CASE FindMessage(w)
      BY <2>5, <3>3, ZenonT(60) DEF FindMessage
    <3>4. CASE SoftDelete(w)
      <4>1. job[w].op = "delete"
        BY <3>4, StatesOfIs, ZenonT(60) DEF SoftDelete, At, Types, JobOK, Ops, Maintaining
      <4>2. QED
        BY <2>5, <3>4, <4>1, ZenonT(60) DEF SoftDelete
    <3>5. QED
      BY <3>1, <3>2, <3>3, <3>4, ZenonT(60)
  <2>6. erased' \subseteq Replies /\ \A r \in erased' : rows'[r]["byId"].deleted
    BY <1>1, <1>2, <1>4, <2>5, ZenonT(60) DEF DeletesTracked
  <2>7. halfway \subseteq halfway'
    BY <1>7, ZenonT(60) DEF Step, history, GiveUp, SaveThreadMessage, SaveFails, ReadCounts,
       CountFromReplies, Reconcile, ReconcileFails, RereadCounts, WriteCounts, WriteFails,
       ResaveFails, Publish, Fail, FindMessage, UpdateMessageContent, SoftDelete, DeleteMirrors
  <2>8. ASSUME NEW r \in Replies, rows'[r]["byId"].deleted
        PROVE  r \in halfway' \/ (\E v \in Workers : Deleting(v, r)') \/ AllDeleted(r)'
    <3>1. CASE ~rows[r]["byId"].deleted
      <4>1. PICK v \in Workers : SoftDelete(v) /\ job[v].r = r /\ state'[v] = "mirror" /\ UNCHANGED job
        BY <2>8, <3>1, NewlyDeleted, Zenon
      <4>2. job[v].op = "delete"
        BY <4>1, StatesOfIs, ZenonT(60) DEF SoftDelete, At, Types, JobOK, Ops, Maintaining
      <4>3. Deleting(v, r)'
        BY <4>1, <4>2 DEF Deleting
      <4>4. QED
        BY <4>3
    <3>2. CASE r \in halfway \/ AllDeleted(r)
      BY <1>3, <2>7, <3>2, Zenon DEF AllDeleted
    <3>3. ASSUME NEW v \in Workers, Deleting(v, r)
          PROVE  r \in halfway' \/ Deleting(v, r)' \/ AllDeleted(r)'
      <4>1. CASE v # w
        BY <2>2, <3>3, <4>1, ZenonT(60) DEF Deleting
      <4>2. CASE v = w
        BY <1>7, <3>3, <4>2, DeletingStep, ZenonT(60) DEF Deleting
      <4>3. QED
        BY <4>1, <4>2
    <3>4. QED
      BY <3>1, <3>2, <3>3, Zenon DEF DeletesTracked
  <2>9. DeletesTracked'
    BY <2>6, <2>8, Zenon DEF DeletesTracked
  <2>10. QED
    BY <2>4, <2>9
<1>8. ASSUME NEW w \in Workers, (\E r \in Replies : Deliver(w, r)) \/ (\E a \in asks : Ask(w, a))
      PROVE  DeletesUnderWay' /\ DeletesTracked'
  <2>1. Started(w) /\ UNCHANGED <<rows, erased, halfway>>
    BY <1>8, StartMoves, SMTT(20) DEF stores, history
  <2>2. DeletesUnderWay'
    BY <1>5, <2>1, Zenon DEF DeletesUnderWay, Started, Maintaining, AllDeleted
  <2>3. QED
    BY <1>6, <2>1, <2>2, Zenon DEF Started
<1>9. CASE UNCHANGED vars
  BY <1>5, <1>6, <1>9, ZenonT(60) DEF vars, DeletesUnderWay, AllDeleted
<1>10. QED
  BY <1>7, <1>8, <1>9, StepCases

-----------------------------------------------------------------------------
(* Handlers of an event, and the copies of the parent. *)

(* No step gives a reply's event to a second goroutine. *)
LEMMA HandlerStep == ASSUME Types, OneHandler, [Next]_vars PROVE OneHandler'
<1>1. /\ job = [v \in Workers |-> job[v]] /\ inbox \in [Replies -> {"new", "again", "busy", "done"}]
      /\ \A v \in Workers : job[v].op = "add" => job[v].r \in Replies
      /\ Idle.op # "add"
  BY IdleIs, Zenon DEF Types, JobOK
<1>2. ASSUME NEW w \in Workers, Step(w) PROVE OneHandler'
  <2>1. PICK s \in States : Moved(w, s)
    BY <1>2, StepMoves
  <2>2. /\ \A v \in Workers : v # w => job'[v] = job[v]
        /\ job'[w] = Idle \/ (job'[w].op = job[w].op /\ job'[w].r = job[w].r)
    BY <2>1, MovedKeeps, Zenon DEF Moved
  <2>3. \A v \in Workers : job'[v].op = "add" => job[v].op = "add" /\ job'[v].r = job[v].r
    BY <1>1, <2>2, Zenon
  <2>4. ASSUME NEW v \in Workers, job'[v].op = "add" PROVE inbox'[job'[v].r] = "busy"
    <3>1. job[v].op = "add" /\ job'[v].r = job[v].r /\ inbox[job[v].r] = "busy" /\ job[v].r \in Replies
      BY <1>1, <2>3, <2>4, Zenon DEF OneHandler
    <3>2. CASE EventKept(w)
      BY <3>1, <3>2, Zenon DEF EventKept
    <3>3. CASE EventAgain(w) \/ EventDone(w)
      <4>1. v # w /\ job[w].op = "add"
        BY <1>1, <2>4, <3>3, Zenon DEF EventAgain, EventDone
      <4>2. job[v].r # job[w].r
        BY <3>1, <4>1, Zenon DEF OneHandler
      <4>3. QED
        BY <1>1, <3>1, <3>3, <4>2, ZenonT(60) DEF EventAgain, EventDone
    <3>4. QED
      BY <1>2, <3>2, <3>3, EventStep, ZenonT(60)
  <2>5. QED
    BY <2>3, <2>4 DEF OneHandler
<1>3. ASSUME NEW w \in Workers, NEW r \in Replies, Deliver(w, r) PROVE OneHandler'
  <2>1. /\ job' = [job EXCEPT ![w] = Job("add", r, inbox[r] = "again")]
        /\ inbox' = [inbox EXCEPT ![r] = "busy"] /\ inbox[r] # "busy"
    BY <1>3, Zenon DEF Deliver
  <2>2. \A x : Job("add", r, x).op = "add" /\ Job("add", r, x).r = r
    BY Zenon DEF Job
  <2>3. /\ job'[w].op = "add" /\ job'[w].r = r /\ \A v \in Workers : v # w => job'[v] = job[v]
    BY <1>1, <2>1, <2>2, Zenon
  <2>4. \A v \in Workers : v # w /\ job'[v].op = "add" =>
           job[v].op = "add" /\ job'[v].r = job[v].r /\ job[v].r # r /\ inbox'[job[v].r] = "busy"
    BY <1>1, <2>1, <2>3, ZenonT(60) DEF OneHandler
  <2>5. inbox'[r] = "busy"
    BY <1>1, <2>1
  <2>6. QED
    BY <2>3, <2>4, <2>5 DEF OneHandler
<1>4. ASSUME NEW w \in Workers, NEW a \in asks, Ask(w, a) PROVE OneHandler'
  <2>1. a.op \in {"edit", "delete"}
    BY DEF Types, Requests
  <2>2. job' = [job EXCEPT ![w] = Job(a.op, a.r, FALSE)] /\ inbox' = inbox
    BY <1>4, Zenon DEF Ask
  <2>3. Job(a.op, a.r, FALSE).op = a.op
    BY Zenon DEF Job
  <2>4. job'[w].op # "add" /\ \A v \in Workers : v # w => job'[v] = job[v]
    BY <1>1, <2>1, <2>2, <2>3, ZenonT(60)
  <2>5. \A v \in Workers : job'[v].op = "add" => job'[v] = job[v]
    BY <2>4, Zenon
  <2>6. \A v \in Workers : job'[v].op = "add" => job[v].op = "add" /\ job'[v].r = job[v].r
    BY <2>5
  <2>7. \A v \in Workers : job'[v].op = "add" => inbox'[job'[v].r] = "busy"
    BY <2>2, <2>6, ZenonT(60) DEF OneHandler
  <2>8. \A v, u \in Workers : job'[v].op = "add" /\ job'[u].op = "add" /\ job'[u].r = job'[v].r => u = v
    BY <2>6 DEF OneHandler
  <2>9. QED
    BY <2>7, <2>8, Zenon DEF OneHandler
<1>5. CASE UNCHANGED vars
  BY <1>5, ZenonT(60) DEF vars, OneHandler
<1>6. QED
  BY <1>2, <1>3, <1>4, <1>5, StepCases

(* Every step of an add that leads to its write sets the last-reply time. *)
LEMMA AddsTimeStep == ASSUME Types, AddsTime, [Next]_vars PROVE AddsTime'
<1>1. ASSUME NEW w \in Workers, Step(w) PROVE AddsTime'
  <2>1. PICK s \in States : Moved(w, s)
    BY <1>1, StepMoves
  <2>2. \A v \in Workers : v # w => state'[v] = state[v] /\ job'[v] = job[v]
    BY <2>1, MovedKeeps, Zenon
  <2>3. ASSUME state'[w] \in {"write", "resave"}, job'[w].op = "add" PROVE job'[w].put.time
    <3>1. PICK q \in Maintaining : Moved(w, q) /\ (q \in {"write", "resave"} => PutOK(w, job'[w].put))
      BY <1>1, <2>3, WriteEntry, MaintainMoves, ZenonT(60)
    <3>2. q \in States
      BY DEF Maintaining, States
    <3>3. state'[w] = q
      BY <3>1, <3>2, MovedKeeps, ZenonT(60)
    <3>4. job[w].op = "add"
      BY <2>3, <3>1, <3>3, Zenon DEF Moved
    <3>5. QED
      BY <2>3, <3>1, <3>3, <3>4, ZenonT(60) DEF PutOK
  <2>4. QED
    BY <2>2, <2>3, ZenonT(60) DEF AddsTime
<1>2. ASSUME NEW w \in Workers, (\E r \in Replies : Deliver(w, r)) \/ (\E a \in asks : Ask(w, a))
      PROVE  AddsTime'
  BY <1>2, StartMoves, Zenon DEF Started, AddsTime
<1>3. CASE UNCHANGED vars
  BY <1>3, Zenon DEF vars, AddsTime
<1>4. QED
  BY <1>1, <1>2, <1>3, StepCases

(* What the save of a batch leaves on the copies it reached. *)
LEMMA BothWritten ==
  ASSUME Types, NEW w \in Workers, writeToBothRows(w, Copies)
  PROVE  /\ job[w].put.time => parent'["byId"] = parent'["room"]
         /\ parent["byId"] = parent["room"] => parent'["byId"] = parent'["room"]
<1>1. "byId" \in Copies /\ "room" \in Copies
  BY DEF Copies
<1>2. \A c \in Copies : parent'[c] = Saved(c, job[w].put, Copies)
  BY DEF writeToBothRows
<1>3. \A c \in Copies : parent'[c] = [n |-> job[w].put.n, at |-> IF job[w].put.time THEN job[w].put.at ELSE parent[c].at]
  BY <1>2, ZenonT(60) DEF Saved
<1>4. QED
  BY <1>1, <1>3, Zenon

(* Only the write sends an add on to publish the badge. *)
LEMMA PublishEntry ==
  ASSUME Types, NEW w \in Workers, Step(w), state'[w] = "publish"
  PROVE  WriteCounts(w)
<1>1. state \in [Workers -> States]
  BY DEF Types
<1>2. \A s : Goto(w, s) => s = "publish"
  BY <1>1 DEF Goto
<1>3. QED
  BY <1>2, ZenonT(60) DEF Step, SaveThreadMessage, SaveFails, ReadCounts, CountFromReplies, Reconcile,
     ReconcileFails, RereadCounts, WriteFails, ResaveFails, Publish, Fail, FindMessage,
     UpdateMessageContent, SoftDelete, DeleteMirrors, GiveUp, Done

(* Copies that a step leaves different are torn, or an add will rewrite both. *)
LEMMA CopiesStep ==
  ASSUME Types, OneHandler, AddsTime, CopiesTracked, [Next]_vars
  PROVE  CopiesTracked'
<1> DEFINE Equal == parent["byId"] = parent["room"]
           Again == \E r \in Replies : inbox[r] = "again"
           Owing == \E w \in Workers : Owed(w)
<1>1. CopiesTracked <=> Equal \/ torn \/ Again \/ Owing
  BY DEF CopiesTracked
<1>2. CopiesTracked' <=> Equal' \/ torn' \/ Again' \/ Owing'
  BY Zenon DEF CopiesTracked
<1>3. /\ inbox \in [Replies -> {"new", "again", "busy", "done"}] /\ torn \in BOOLEAN
      /\ \A v \in Workers : job[v].op = "add" => job[v].r \in Replies
  BY Zenon DEF Types, JobOK
<1>4. ASSUME NEW w \in Workers, Step(w) PROVE Equal' \/ torn' \/ Again' \/ Owing'
  <2>1. PICK s \in States : Moved(w, s)
    BY <1>4, StepMoves
  <2>2. \A v \in Workers : v # w => state'[v] = state[v] /\ job'[v] = job[v]
    BY <2>1, MovedKeeps
  <2>3. ASSUME NEW v \in Workers, v # w, Owed(v) PROVE Owing'
    BY <2>2, <2>3, Zenon DEF Owed
  <2>4. ASSUME EventAgain(w) PROVE Again'
    BY <1>3, <2>4 DEF EventAgain
  <2>5. ASSUME Again PROVE Again'
    <3>1. PICK r \in Replies : inbox[r] = "again"
      BY <2>5
    <3>2. CASE EventKept(w)
      BY <3>1, <3>2, Zenon DEF EventKept
    <3>3. CASE EventDone(w)
      <4>1. inbox[job[w].r] = "busy"
        BY <3>3, Zenon DEF EventDone, OneHandler
      <4>2. inbox'[r] = "again"
        BY <1>3, <3>1, <3>3, <4>1, ZenonT(60) DEF EventDone
      <4>3. QED
        BY <4>2
    <3>4. QED
      BY <1>4, <2>4, <3>2, <3>3, EventStep
  <2>6. ASSUME Owed(w), ~WriteCounts(w) PROVE Again' \/ Owing'
    <3>1. job[w].op = "add" /\ state[w] # "publish"
      BY <2>6, Zenon DEF Owed
    <3>2. CASE EventKept(w)
      <4>1. job'[w].op = "add" /\ state'[w] # "publish"
        BY <1>4, <2>6, <3>1, <3>2, PublishEntry, Zenon DEF EventKept
      <4>2. QED
        BY <4>1 DEF Owed
    <3>3. ~EventDone(w)
      BY <3>1, Zenon DEF EventDone
    <3>4. QED
      BY <1>4, <2>4, <3>2, <3>3, EventStep
  <2>7. CASE WriteCounts(w)
    <3>1. /\ writeToBothRows(w, Copies) /\ torn' = (torn /\ ~job[w].put.time)
          /\ job[w].op \in {"add", "delete"} /\ state[w] \in {"write", "resave"}
      BY <2>7, Zenon DEF WriteCounts, At
    <3>2. CASE job[w].put.time
      BY <3>1, <3>2, BothWritten, Zenon
    <3>3. CASE ~job[w].put.time
      <4>1. job[w].op = "delete"
        BY <3>1, <3>3, Zenon DEF AddsTime
      <4>2. ~Owed(w)
        BY <4>1 DEF Owed
      <4>3. Equal => Equal'
        BY <3>1, BothWritten, Zenon
      <4>4. torn => torn'
        BY <3>1, <3>3, Zenon
      <4>5. QED
        BY <1>1, <2>3, <2>5, <4>2, <4>3, <4>4, ZenonT(60)
    <3>4. QED
      BY <3>2, <3>3, Zenon
  <2>8. CASE WriteFails(w)
    <3>1. GiveUp(w) /\ torn' = (torn \/ job[w].op = "delete") /\ state[w] = "write"
      BY <2>8, ZenonT(60) DEF WriteFails, At
    <3>2. CASE job[w].op = "delete"
      BY <3>1, <3>2, Zenon
    <3>3. CASE job[w].op = "add"
      BY <1>3, <3>1, <3>3, ZenonT(60) DEF GiveUp
    <3>4. job[w].op \in Ops /\ "write" \in StatesOf(job[w].op)
      BY <3>1, ZenonT(60) DEF Types, JobOK
    <3>5. job[w].op \in {"add", "delete"}
      BY <3>4, StatesOfIs DEF Ops
    <3>6. QED
      BY <3>2, <3>3, <3>5, ZenonT(60)
  <2>9. CASE ResaveFails(w)
    BY <2>9, ZenonT(60) DEF ResaveFails
  <2>10. CASE ~WriteCounts(w) /\ ~WriteFails(w) /\ ~ResaveFails(w)
    <3>1. UNCHANGED <<parent, torn>>
      BY <1>4, <2>10, ZenonT(60) DEF Step, stores, history, written, SaveThreadMessage, SaveFails, ReadCounts,
         CountFromReplies, Reconcile, ReconcileFails, RereadCounts, Publish, Fail, FindMessage,
         UpdateMessageContent, SoftDelete, DeleteMirrors
    <3>2. QED
      BY <1>1, <2>3, <2>5, <2>6, <2>10, <3>1, ZenonT(60)
  <2>11. QED
    BY <2>7, <2>8, <2>9, <2>10, ZenonT(60)
<1>5. ASSUME NEW w \in Workers, (\E r \in Replies : Deliver(w, r)) \/ (\E a \in asks : Ask(w, a))
      PROVE  Equal' \/ torn' \/ Again' \/ Owing'
  <2>1. Started(w) /\ UNCHANGED <<parent, torn>>
    BY <1>5, StartMoves, Zenon DEF stores, history
  <2>2. job[w].op # "add"
    <3>1. "idle" \in StatesOf(job[w].op) /\ job[w].op \in Ops
      BY <2>1, Zenon DEF Types, JobOK, Started
    <3>2. QED
      BY <3>1, StatesOfIs, Zenon DEF Maintaining
  <2>3. ASSUME Owing PROVE Owing'
    <3>1. PICK v \in Workers : Owed(v)
      BY <2>3
    <3>2. v # w
      BY <2>2, <3>1 DEF Owed
    <3>3. Owed(v)'
      BY <2>1, <3>1, <3>2, ZenonT(60) DEF Owed, Started
    <3>4. QED
      BY <3>3
  <2>4. ASSUME NEW r \in Replies, Deliver(w, r) PROVE Owing'
    <3>1. job'[w] = Job("add", r, inbox[r] = "again") /\ state'[w] = "insert"
      BY <2>4, Zenon DEF Deliver, Goto, Types
    <3>2. \A x : Job("add", r, x).op = "add"
      BY DEF Job
    <3>3. QED
      BY <3>1, <3>2 DEF Owed
  <2>5. ASSUME NEW a \in asks, Ask(w, a) PROVE inbox' = inbox
    BY <2>5, SMTT(20) DEF Ask
  <2>6. QED
    BY <1>1, <1>5, <2>1, <2>3, <2>4, <2>5, ZenonT(60)
<1>6. CASE UNCHANGED vars
  BY <1>6, Zenon DEF vars, CopiesTracked, Owed
<1>7. QED
  BY <1>2, <1>4, <1>5, <1>6, StepCases, ZenonT(60)

-----------------------------------------------------------------------------

(* The inductive invariant holds initially. *)
LEMMA InitTInv == Init => TInv
<1> SUFFICES ASSUME Init PROVE TInv
  OBVIOUS
<1>1. /\ state = [w \in Workers |-> "idle"] /\ job = [w \in Workers |-> Idle] /\ asks = scen.asks
      /\ rows = [r \in Replies |-> [t \in Tables |-> Absent]] /\ parent = [c \in Copies |-> NoCounts]
      /\ inbox = [r \in Replies |-> IF r \in scen.replies THEN "new" ELSE "done"]
      /\ edited = {} /\ erased = {} /\ torn = FALSE /\ scen \in Scenarios
  BY Zenon DEF Init
<1>2. Idle.op = "none" /\ JobOK(Idle) /\ StatesOf("none") = {"idle"}
  BY IdleIs, StatesOfIs
<1>3. \A w \in Workers : job[w] = Idle /\ state[w] = "idle"
  BY <1>1
<1>4. Types
  <2>1. state \in [Workers -> States] /\ job = [w \in Workers |-> job[w]]
    BY <1>1 DEF States
  <2>2. \A w \in Workers : JobOK(job[w]) /\ state[w] \in StatesOf(job[w].op)
    BY <1>2, <1>3
  <2>3. inbox \in [Replies -> {"new", "again", "busy", "done"}] /\ asks \subseteq Requests /\ torn \in BOOLEAN
    BY <1>1, ScenariosAssumption, Zenon
  <2>4. rows \in [Replies -> [Tables -> Row]]
    BY <1>1, Zenon DEF Row, Absent
  <2>5. parent = [c \in Copies |-> parent[c]] /\ \A c \in Copies : CountsOK(parent[c])
    <3>1. CountsOK(NoCounts)
      BY DEF CountsOK, NoCounts, Times, NoTime
    <3>2. QED
      BY <1>1, <3>1, Zenon
  <2>6. QED
    BY <2>1, <2>2, <2>3, <2>4, <2>5, ZenonT(60) DEF Types
<1>5. \A r \in Replies : ~rows[r]["byId"].deleted
  BY <1>1, Zenon DEF Absent, Tables
<1>6. EditsUnderWay /\ EditsStick /\ edited \subseteq Replies
  BY <1>1, <1>2, <1>3, Zenon DEF EditsUnderWay, EditsStick
<1>7. DeletesUnderWay /\ DeletesTracked
  BY <1>1, <1>2, <1>3, <1>5, Zenon DEF DeletesUnderWay, DeletesTracked
<1>8. OneHandler /\ AddsTime
  BY <1>2, <1>3, Zenon DEF OneHandler, AddsTime
<1>9. CopiesTracked
  BY <1>1, Zenon DEF CopiesTracked, Copies
<1>10. QED
  BY <1>4, <1>6, <1>7, <1>8, <1>9 DEF TInv

(* Every step keeps the inductive invariant. *)
LEMMA NextTInv == TInv /\ [Next]_vars => TInv'
<1> SUFFICES ASSUME TInv, [Next]_vars PROVE TInv'
  OBVIOUS
<1>1. Types'
  BY TypesStep DEF TInv
<1>2. EditsUnderWay' /\ EditsStick' /\ (edited \subseteq Replies)'
  BY EditsStep DEF TInv
<1>3. DeletesUnderWay' /\ DeletesTracked'
  BY DeletesStep DEF TInv
<1>4. OneHandler' /\ AddsTime' /\ CopiesTracked'
  BY HandlerStep, AddsTimeStep, CopiesStep DEF TInv
<1>5. QED
  BY <1>1, <1>2, <1>3, <1>4 DEF TInv

(* The inductive invariant of the thread's tables and its parent's two copies. *)
THEOREM ThreadInvariance == Spec => []TInv
<1>1. Init => TInv
  BY InitTInv
<1>2. TInv /\ [Next]_vars => TInv'
  BY NextTInv
<1>3. QED
  BY <1>1, <1>2, PTL DEF Spec

(* For any replies, goroutines and faults, and under any interleaving: an edit
   answered OK (UpdateMessageContent) stays in every table that keeps the reply;
   a create redelivered later (SaveThreadMessage) does not bring the original
   body back. *)
THEOREM EditsHold == Spec => []EditsStick
<1>1. TInv => EditsStick
  BY DEF TInv
<1>2. QED
  BY <1>1, ThreadInvariance, PTL

(* A delete answered OK (SoftDeleteMessage and its mirrors) has removed the reply
   from every table that keeps it, and stays so, unless the delete that won the
   conditional update failed half-way or is still running. *)
THEOREM DeletesHold == Spec => []DeletesStick
<1>1. ASSUME TInv PROVE DeletesStick
  <2>1. ASSUME NEW r \in erased
        PROVE  \/ r \in halfway
               \/ \E w \in Workers : job[w].op = "delete" /\ job[w].r = r
               \/ \A t \in TablesOf(r) : rows[r][t].deleted
    <3>1. r \in Replies /\ rows[r]["byId"].deleted
      BY <1>1, Zenon DEF TInv, DeletesTracked
    <3>2. r \in halfway \/ (\E w \in Workers : Deleting(w, r)) \/ AllDeleted(r)
      BY <1>1, <3>1, Zenon DEF TInv, DeletesTracked
    <3>3. QED
      BY <3>2, Zenon DEF Deleting, AllDeleted
  <2>2. QED
    BY <2>1, Zenon DEF DeletesStick
<1>2. QED
  BY <1>1, ThreadInvariance, PTL

(* Once every event is acked the two copies of the parent say the same, whatever
   batch reached one of them only (writeToBothRows): the redelivered add rewrites
   both.  Excepted is a delete's batch, or a recount's, which nothing retries. *)
THEOREM CopiesConverge == Spec => []CopiesAgree
<1>1. ASSUME TInv PROVE CopiesAgree
  <2> SUFFICES ASSUME Settled, ~torn PROVE parent["byId"] = parent["room"]
    BY DEF CopiesAgree
  <2>1. \A r \in Replies : inbox[r] # "again"
    BY DEF Settled
  <2>2. ASSUME NEW w \in Workers PROVE ~Owed(w)
    <3>1. state[w] = "idle"
      BY DEF Settled, Busy, At
    <3>2. "idle" \in StatesOf(job[w].op)
      BY <1>1, <3>1 DEF TInv, Types
    <3>3. job[w].op # "add"
      BY <3>2, StatesOfIs, Zenon DEF Maintaining
    <3>4. QED
      BY <3>3 DEF Owed
  <2>3. QED
    BY <1>1, <2>1, <2>2 DEF TInv, CopiesTracked
<1>2. QED
  BY <1>1, ThreadInvariance, PTL
=============================================================================
