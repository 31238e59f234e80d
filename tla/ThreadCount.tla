---------------------------- MODULE ThreadCount ----------------------------
(***************************************************************************)
(* One thread in Cassandra: its replies, kept in up to three tables, and   *)
(* the reply count and last-reply time on the two copies of its parent.    *)
(*                                                                         *)
(* message-worker inserts a reply and then maintains the parent            *)
(* (SaveThreadMessage, store_cassandra.go); it is redelivered from the     *)
(* start after any failure.  history-service edits and soft-deletes        *)
(* replies (cassrepo/write.go) and maintains the parent after a delete;    *)
(* nothing redelivers its requests.  pkg/threadcount is shared by both:    *)
(* Maintain reads the saved pair, counts or adjusts, and writes both       *)
(* copies in a batch that is not all-or-nothing.  Every database call is a *)
(* step of its own, so calls of concurrent handlers interleave.            *)
(***************************************************************************)
EXTENDS Integers, FiniteSets, FiniteSetsExt

CONSTANTS
    Replies,    \* the replies, each named by its creation time (1, 2, ...)
    TShow,      \* those also sent to the channel
    Workers,    \* goroutines of message-worker and history-service
    Scenarios,  \* [workers, scan, budget, rowLimit, cipher, replies, asks]
    MaxFaults   \* bound on failed calls

ASSUME ReplyTimes ==
    Replies \subseteq Nat \ {0} /\ IsFiniteSet(Replies) /\ TShow \subseteq Replies

\* Requests of clients; k tells apart several for the same reply.
Requests == [op : {"edit", "delete"}, r : Replies, k : Nat]
ASSUME ScenariosAssumption == \A s \in Scenarios : s.asks \subseteq Requests

VARIABLES
    scen,       \* the scenario of this behaviour; never changes
    state, job, \* each goroutine's next step and what it works on
    inbox,      \* each reply's canonical event: new, again, busy, done
    asks,       \* edit and delete requests not made yet
    rows,       \* rows[r][t]: reply r in table t
    parent,     \* parent[c]: the saved pair on each copy of the parent
    faults,     \* failed calls so far
    edited,     \* replies whose edit was answered OK
    erased,     \* replies whose delete was answered OK
    halfway,    \* replies whose delete failed after removing some copy
    unstamped,  \* deletes whose parent update failed, until a recount
    torn,       \* copies of the parent left different by a failed batch
    resaved     \* a failed recount had already written its result

vars == <<scen, state, job, inbox, asks, rows, parent, faults, edited,
          erased, halfway, unstamped, torn, resaved>>
stores == <<rows, parent>>
history == <<edited, erased, halfway, unstamped, torn, resaved>>
written == <<edited, erased, torn, resaved>>

-----------------------------------------------------------------------------
Tables == {"byId", "thread", "room"}
Copies == {"byId", "room"}
Uncounted == -1         \* tcount is null
NoTime == 0             \* thread_last_msg_at is null

\* The tables a reply is kept in: a TShow reply is also in the channel.
TablesOf(r) == {"byId", "thread"} \cup (IF r \in TShow THEN {"room"} ELSE {})

Row == [body : {"none", "original", "edited"}, deleted : BOOLEAN]
Absent == [body |-> "none", deleted |-> FALSE]
Counts == [n : Nat \cup {Uncounted}, at : Replies \cup {NoTime}]

\* What Maintain carries from its read to its write.
Put == [n : Nat, at : Replies \cup {NoTime}, time : BOOLEAN, exact : BOOLEAN]
NoPut == [n |-> 0, at |-> NoTime, time |-> FALSE, exact |-> FALSE]
NoCounts == [n |-> Uncounted, at |-> NoTime]
Job(o, r, retry) == [op |-> o, r |-> r, retry |-> retry, saved |-> NoCounts, put |-> NoPut]
Idle == Job("none", NoTime, FALSE)

Init ==
    /\ scen \in Scenarios
    /\ state = [w \in Workers |-> "idle"]
    /\ job = [w \in Workers |-> Idle]
    /\ inbox = [r \in Replies |-> IF r \in scen.replies THEN "new" ELSE "done"]
    /\ asks = scen.asks
    /\ rows = [r \in Replies |-> [t \in Tables |-> Absent]]
    /\ parent = [c \in Copies |-> NoCounts]
    /\ faults = 0
    /\ edited = {} /\ erased = {} /\ halfway = {} /\ unstamped = {}
    /\ torn = FALSE /\ resaved = FALSE

At(w, s) == state[w] = s
Goto(w, s) == state' = [state EXCEPT ![w] = s]
With(w, field, v) == job' = [job EXCEPT ![w] = [@ EXCEPT ![field] = v]]
Busy == {w \in Workers : ~At(w, "idle")}
MayStart(w) == At(w, "idle") /\ Cardinality(Busy) < scen.workers

Done(w) ==
    /\ Goto(w, "idle")
    /\ job' = [job EXCEPT ![w] = Idle]

\* The handler gives up: a reply's event is redelivered, a request is not.
GiveUp(w) ==
    /\ Done(w)
    /\ inbox' = IF job[w].op = "add" THEN [inbox EXCEPT ![job[w].r] = "again"]
                                     ELSE inbox
    /\ LET lost == IF job[w].op = "delete" /\ state[w] \notin {"find", "cas"}
                   THEN {job[w].r} ELSE {}
       IN  /\ unstamped' = unstamped \cup lost
           /\ halfway' = halfway \cup
                  (IF state[w] \in {"mirror", "mirrorRoom"} THEN lost ELSE {})

Fault == faults < MaxFaults /\ faults' = faults + 1

-----------------------------------------------------------------------------
(* pkg/threadcount.                                                        *)

Newest(S) == Max(S \cup {NoTime})
keepNewer(saved, replyAt) == Max({saved, replyAt})
plus(saved, change) ==
    Max({0, IF saved = Uncounted THEN change ELSE saved + change})

Thread == {r \in Replies : rows[r]["thread"] # Absent}
Looked(limit) ==
    {r \in Thread : limit = 0 \/ Cardinality({s \in Thread : s > r}) < limit}

\* Letting the database count: deleted replies still occupy rows.
countRows(limit) ==
    LET seen == Looked(limit)
    IN  [live |-> Cardinality(seen), newest |-> Newest(seen),
         end |-> seen = Thread]

\* Live replies among the newest rows, up to the limit (0: no limit); only a
\* read that reached the end of the thread is a count.
countReplies(limit) ==
    LET live == {r \in Looked(limit) : ~rows[r]["thread"].deleted}
    IN  [live |-> Cardinality(live), newest |-> Newest(live),
         end |-> Looked(limit) = Thread]

shortEnough(saved) == saved.n = Uncounted \/ saved.n < scen.scan

ReplyAt(w) == IF job[w].op = "add" THEN job[w].r ELSE NoTime

\* A retried add that changes the number again.
ChangeAgain(w) == IF job[w].op = "add" THEN 1 ELSE -1

Change(w) == IF job[w].retry THEN 0 ELSE IF job[w].op = "add" THEN 1 ELSE -1

changeWithoutCounting(w, saved) ==
    [n |-> plus(saved.n, Change(w)), at |-> keepNewer(saved.at, ReplyAt(w)),
     time |-> ReplyAt(w) # NoTime, exact |-> FALSE]

exactCount(w, c) ==
    [n |-> c.live, at |-> keepNewer(c.newest, ReplyAt(w)), time |-> TRUE,
     exact |-> TRUE]

\* A read that stopped early may only push the count up and the time forward.
partialCount(w, c) ==
    LET saved == job[w].saved
        at == keepNewer(keepNewer(saved.at, c.newest), ReplyAt(w))
    IN  [n |-> Max({c.live, plus(saved.n, Change(w))}), at |-> at,
         time |-> at # NoTime, exact |-> FALSE]

ShouldReanchor(saved, budget) ==
    IF saved <= 0 \/ budget <= 0 THEN {FALSE}
    ELSE IF saved <= budget THEN {TRUE} ELSE BOOLEAN

\* A retry that stops here, taking its first attempt's write for granted.
ReadCountsOnce(w) ==
    \/ job[w].retry /\ At(w, "read") /\ parent["byId"].n # Uncounted
       /\ Goto(w, "publish")
       /\ UNCHANGED <<scen, job, inbox, asks, stores, faults, history>>
    \/ /\ ~(job[w].retry /\ parent["byId"].n # Uncounted)
       /\ At(w, "read")
       /\ LET saved == parent["byId"]
          IN  \/ /\ shortEnough(saved)
                 /\ Goto(w, "scan")
                 /\ With(w, "saved", saved)
              \/ /\ ~shortEnough(saved)
                 /\ Goto(w, "write")
                 /\ With(w, "put", changeWithoutCounting(w, saved))
       /\ UNCHANGED <<scen, inbox, asks, stores, faults, history>>

\* Maintain reads the saved pair and picks a route.
ReadCounts(w) ==
    /\ At(w, "read")
    /\ LET saved == parent["byId"]
       IN  \/ /\ shortEnough(saved)
              /\ Goto(w, "scan")
              /\ With(w, "saved", saved)
           \/ /\ ~shortEnough(saved)
              /\ ~job[w].retry
              /\ TRUE \in ShouldReanchor(saved.n, scen.budget)
              /\ Goto(w, "reanchor")
              /\ With(w, "saved", saved)
           \/ /\ ~shortEnough(saved)
              /\ \/ job[w].retry
                 \/ FALSE \in ShouldReanchor(saved.n, scen.budget)
              /\ Goto(w, "write")
              /\ With(w, "put", changeWithoutCounting(w, saved))
    /\ UNCHANGED <<scen, inbox, asks, stores, faults, history>>

\* Saving whatever a read that stopped early came back with.
CountFromRepliesTrusting(w) ==
    /\ At(w, "scan")
    /\ LET c == countReplies(scen.scan)
       IN  /\ Goto(w, "write")
           /\ With(w, "put", exactCount(w, c))
    /\ UNCHANGED <<scen, inbox, asks, stores, faults, history>>

\* countFromReplies: an unproven zero is never saved, the whole thread is
\* counted instead.
CountFromReplies(w) ==
    /\ At(w, "scan")
    /\ LET c == countReplies(scen.scan)
       IN  \/ c.end /\ Goto(w, "write") /\ With(w, "put", exactCount(w, c))
           \/ /\ ~c.end
              /\ partialCount(w, c).n > 0
              /\ Goto(w, "write")
              /\ With(w, "put", partialCount(w, c))
           \/ /\ ~c.end
              /\ partialCount(w, c).n = 0
              /\ Goto(w, "reconcile")
              /\ UNCHANGED job
    /\ UNCHANGED <<scen, inbox, asks, stores, faults, history>>

\* Reconcile within the row limit: the whole thread is read ...
Reconcile(w) ==
    /\ At(w, "reconcile") \/ At(w, "reanchor")
    /\ LET c == countReplies(scen.rowLimit)
       IN  /\ c.end
           /\ With(w, "put", [exactCount(w, c) EXCEPT !.at = c.newest])
    /\ Goto(w, IF At(w, "reanchor") THEN "resave" ELSE "write")
    /\ UNCHANGED <<scen, inbox, asks, stores, faults, history>>

\* ... or it is too long, or the read fails: an estimate is kept, an unproven
\* zero refused.
ReconcileFails(w) ==
    /\ \/ ~countReplies(scen.rowLimit).end /\ UNCHANGED faults
       \/ Fault
    /\ \/ /\ At(w, "reanchor")
          /\ Goto(w, "reread")
          /\ UNCHANGED <<job, inbox, halfway, unstamped>>
       \/ At(w, "reconcile") /\ GiveUp(w)
    /\ UNCHANGED <<scen, asks, stores, written>>

\* rereadCounts: after a failed recount, from what the parent says now, or
\* from what it said before when it cannot be read.
RereadCounts(w) ==
    /\ At(w, "reread")
    /\ \E unread \in BOOLEAN :
          LET fresh == parent["byId"]
              saved == IF unread \/ fresh.n = Uncounted THEN job[w].saved ELSE fresh
          IN  /\ With(w, "put", changeWithoutCounting(w, saved))
              /\ IF unread THEN Fault ELSE UNCHANGED faults
    /\ Goto(w, "write")
    /\ UNCHANGED <<scen, inbox, asks, stores, history>>

Saved(c, put, S) ==
    IF c \notin S THEN parent[c]
    ELSE [n |-> put.n, at |-> IF put.time THEN put.at ELSE parent[c].at]

\* writeToBothRows on the copies in S; a failed batch may have reached any.
writeToBothRows(w, S) ==
    parent' = [c \in Copies |-> Saved(c, job[w].put, S)]

WriteCounts(w) ==
    /\ At(w, "write") \/ At(w, "resave")
    /\ writeToBothRows(w, Copies)
    /\ torn' = (torn /\ ~job[w].put.time)
    /\ unstamped' = IF job[w].put.exact THEN {} ELSE unstamped
    /\ resaved' = (resaved /\ ~job[w].put.exact)
    /\ \/ job[w].op = "add" /\ Goto(w, "publish") /\ UNCHANGED <<job, erased>>
       \/ /\ job[w].op = "delete"
          /\ erased' = erased \cup {job[w].r}
          /\ Done(w)
    /\ UNCHANGED <<scen, inbox, asks, rows, faults, edited, halfway>>

WriteFails(w) ==
    /\ At(w, "write")
    /\ \E S \in SUBSET Copies :
          /\ writeToBothRows(w, S)
          /\ torn' = (torn \/ job[w].op = "delete")
    /\ Fault
    /\ GiveUp(w)
    /\ UNCHANGED <<scen, asks, rows, edited, erased, resaved>>

\* A recount whose save failed is only a warning: the reply goes on.
ResaveFails(w) ==
    /\ At(w, "resave")
    /\ Fault
    /\ \E S \in SUBSET Copies :
          /\ writeToBothRows(w, S)
          /\ resaved' = (resaved \/ "byId" \in S)
    /\ torn' = TRUE
    /\ Goto(w, "reread")
    /\ UNCHANGED <<scen, job, inbox, asks, rows, edited, erased, halfway, unstamped>>

-----------------------------------------------------------------------------
(* message-worker: SaveThreadMessage and what follows it.                  *)

Deliver(w, r) ==
    /\ MayStart(w)
    /\ inbox[r] \in {"new", "again"}
    /\ inbox' = [inbox EXCEPT ![r] = "busy"]
    /\ job' = [job EXCEPT ![w] = Job("add", r, inbox[r] = "again")]
    /\ Goto(w, "insert")
    /\ UNCHANGED <<scen, asks, stores, faults, history>>

\* Every create on the client clock.
InsertedUnpinned(row) == [row EXCEPT !.body = "original"]

\* A plaintext create is pinned to the reply's creation time, so it never
\* outranks an edit; an encrypted one rides the client clock.
Inserted(row) ==
    [row EXCEPT !.body = IF @ = "edited" /\ ~scen.cipher THEN @ ELSE "original"]

InsertInto(w, S) ==
    rows' = [rows EXCEPT ![job[w].r] =
                [t \in Tables |-> IF t \in S THEN Inserted(@[t]) ELSE @[t]]]

SaveThreadMessage(w) ==
    /\ At(w, "insert")
    /\ InsertInto(w, TablesOf(job[w].r))
    /\ Goto(w, "read")
    /\ UNCHANGED <<scen, job, inbox, asks, parent, faults, history>>

SaveFails(w) ==
    /\ At(w, "insert")
    /\ \E S \in SUBSET TablesOf(job[w].r) : InsertInto(w, S)
    /\ Fault
    /\ GiveUp(w)
    /\ UNCHANGED <<scen, asks, parent, written>>

\* The badge is published, the event acked.
Publish(w) ==
    /\ At(w, "publish")
    /\ inbox' = [inbox EXCEPT ![job[w].r] = "done"]
    /\ Done(w)
    /\ UNCHANGED <<scen, asks, stores, faults, history>>

\* A call whose error the handler returns fails with no effect, or the process
\* stops.
Fail(w) ==
    /\ ~At(w, "idle")
    /\ Fault
    /\ GiveUp(w)
    /\ UNCHANGED <<scen, asks, stores, written>>

-----------------------------------------------------------------------------
(* history-service: EditMessage and DeleteMessage.                         *)

Ask(w, a) ==
    /\ MayStart(w)
    /\ a \in asks
    /\ asks' = asks \ {a}
    /\ job' = [job EXCEPT ![w] = Job(a.op, a.r, FALSE)]
    /\ Goto(w, "find")
    /\ UNCHANGED <<scen, inbox, stores, faults, history>>

\* findMessage, and the deleted checks: an edit is refused, a delete of a
\* deleted message is answered OK at once.
FindMessage(w) ==
    /\ At(w, "find")
    /\ LET row == rows[job[w].r]["byId"]
       IN  \/ row = Absent /\ Done(w) /\ UNCHANGED erased
           \/ /\ row.deleted
              /\ Done(w)
              /\ erased' = IF job[w].op = "delete" THEN erased \cup {job[w].r}
                                                   ELSE erased
           \/ /\ row # Absent /\ ~row.deleted
              /\ Goto(w, IF job[w].op = "edit" THEN "edit" ELSE "cas")
              /\ UNCHANGED <<job, erased>>
    /\ UNCHANGED <<scen, inbox, asks, stores, faults, edited, halfway, unstamped,
                   torn, resaved>>

\* One table's UPDATE: an upsert, it does not ask whether the row exists.
Update(r, t, row) == rows' = [rows EXCEPT ![r] = [@ EXCEPT ![t] = row]]

Edit(row) == [row EXCEPT !.body = "edited"]

\* The ciphertext is cleared with the flag; a plaintext body stays.
Delete(row) ==
    [body |-> IF scen.cipher THEN "none" ELSE row.body, deleted |-> TRUE]

\* The edit of a TShow reply that forgets its copy in the channel.
UpdateThreadContent(w) ==
    /\ job[w].op = "edit"
    /\ LET r == job[w].r
           last == At(w, "mirror")
       IN  /\ \/ At(w, "edit") /\ Update(r, "byId", Edit(rows[r]["byId"]))
                 /\ Goto(w, "mirror")
              \/ At(w, "mirror") /\ Update(r, "thread", Edit(rows[r]["thread"]))
                 /\ Goto(w, "idle")
           /\ edited' = IF last THEN edited \cup {r} ELSE edited
           /\ job' = IF last THEN [job EXCEPT ![w] = Idle] ELSE job
    /\ UNCHANGED <<scen, inbox, asks, parent, faults, erased, halfway, unstamped,
                   torn, resaved>>

\* UpdateMessageContent: messages_by_id, then the thread, then the channel.
UpdateMessageContent(w) ==
    /\ job[w].op = "edit"
    /\ LET r == job[w].r
           last == \/ At(w, "mirror") /\ r \notin TShow
                   \/ At(w, "mirrorRoom")
       IN  /\ \/ At(w, "edit") /\ Update(r, "byId", Edit(rows[r]["byId"]))
                 /\ Goto(w, "mirror")
              \/ At(w, "mirror") /\ Update(r, "thread", Edit(rows[r]["thread"]))
                 /\ Goto(w, IF last THEN "idle" ELSE "mirrorRoom")
              \/ At(w, "mirrorRoom") /\ Update(r, "room", Edit(rows[r]["room"]))
                 /\ Goto(w, "idle")
           /\ edited' = IF last THEN edited \cup {r} ELSE edited
           /\ job' = IF last THEN [job EXCEPT ![w] = Idle] ELSE job
    /\ UNCHANGED <<scen, inbox, asks, parent, faults, erased, halfway, unstamped,
                   torn, resaved>>

\* SoftDeleteMessage: the conditional update of messages_by_id lets one
\* delete of a reply through; the loser answers OK and leaves the parent be.
SoftDelete(w) ==
    /\ At(w, "cas")
    /\ LET r == job[w].r
       IN  \/ /\ ~rows[r]["byId"].deleted
              /\ Update(r, "byId", Delete(rows[r]["byId"]))
              /\ Goto(w, "mirror")
              /\ UNCHANGED <<job, erased>>
           \/ /\ rows[r]["byId"].deleted
              /\ erased' = erased \cup {r}
              /\ Done(w)
              /\ UNCHANGED rows
    /\ UNCHANGED <<scen, inbox, asks, parent, faults, edited, halfway, unstamped,
                   torn, resaved>>

\* A delete that leaves the copy in the channel.
DeleteThreadMirror(w) ==
    /\ job[w].op = "delete"
    /\ At(w, "mirror")
    /\ Update(job[w].r, "thread", Delete(rows[job[w].r]["thread"]))
    /\ Goto(w, "read")
    /\ UNCHANGED <<scen, job, inbox, asks, parent, faults, history>>

DeleteMirrors(w) ==
    /\ job[w].op = "delete"
    /\ LET r == job[w].r
       IN  \/ At(w, "mirror") /\ Update(r, "thread", Delete(rows[r]["thread"]))
              /\ Goto(w, IF r \in TShow THEN "mirrorRoom" ELSE "read")
           \/ At(w, "mirrorRoom") /\ Update(r, "room", Delete(rows[r]["room"]))
              /\ Goto(w, "read")
    /\ UNCHANGED <<scen, job, inbox, asks, parent, faults, history>>

-----------------------------------------------------------------------------
Step(w) ==
    \/ SaveThreadMessage(w) \/ SaveFails(w)
    \/ ReadCounts(w) \/ CountFromReplies(w)
    \/ Reconcile(w) \/ ReconcileFails(w) \/ RereadCounts(w)
    \/ WriteCounts(w) \/ WriteFails(w) \/ ResaveFails(w)
    \/ Publish(w) \/ Fail(w)
    \/ FindMessage(w) \/ UpdateMessageContent(w)
    \/ SoftDelete(w) \/ DeleteMirrors(w)

Settled == Busy = {} /\ \A r \in Replies : inbox[r] = "done"
Rest == Settled /\ asks = {} /\ UNCHANGED vars

Next ==
    \/ \E w \in Workers, r \in Replies : Deliver(w, r)
    \/ \E w \in Workers, a \in asks : Ask(w, a)
    \/ \E w \in Workers : Step(w)
    \/ Rest

Spec == Init /\ [][Next]_vars

-----------------------------------------------------------------------------
\* Types, and that a reply's event is handled by at most one goroutine.
TypeOK ==
    /\ scen \in Scenarios
    /\ state \in [Workers -> {"idle", "insert", "read", "scan", "reanchor",
            "reconcile", "resave", "reread", "write", "publish", "find",
            "cas", "edit", "mirror", "mirrorRoom"}]
    /\ job \in [Workers -> [op : {"none", "add", "edit", "delete"},
            r : Replies \cup {NoTime}, retry : BOOLEAN, saved : Counts,
            put : Put]]
    /\ inbox \in [Replies -> {"new", "again", "busy", "done"}]
    /\ rows \in [Replies -> [Tables -> Row]]
    /\ parent \in [Copies -> Counts]
    /\ faults \in 0..MaxFaults
    /\ \A r \in Replies : Cardinality({w \in Workers :
            job[w].op = "add" /\ job[w].r = r}) = IF inbox[r] = "busy" THEN 1 ELSE 0

Live == {r \in Replies : rows[r]["thread"] # Absent
                         /\ ~rows[r]["thread"].deleted}
One == scen.workers = 1

\* Below the scan limit the saved count is the truth once everything settled:
\* exactly the live replies, whatever failed and was redelivered on the way --
\* with handlers one at a time.  Excepted is a delete whose own parent update
\* failed, until the next count.
ShortThreadExact ==
    Settled /\ One /\ Cardinality(Thread) \in 1..(scen.scan - 1)
        /\ unstamped = {} =>
        parent["byId"].n = Cardinality(Live)

\* On a thread of any length, with handlers one at a time, the estimate drifts
\* by what failed and no further: no reply is counted twice, so the count
\* exceeds the live replies only by deletes that failed before their parent
\* update, and it falls short of them by at most one for each failed call.
DriftBounded ==
    Settled /\ One /\ ~resaved =>
        /\ parent["byId"].n <= Cardinality(Live) + Cardinality(unstamped)
        /\ parent["byId"].n >= Cardinality(Live) - faults

\* With handlers one at a time, a thread that still has live replies never
\* reads as empty: its count is not 0, which GetThreadMessages answers without
\* looking, and its last-reply time is not behind its newest live reply.
LiveThreadShown ==
    Settled /\ One /\ ~resaved /\ Live # {} =>
        parent["byId"].n # 0 /\ parent["byId"].at >= Newest(Live)

\* The two copies of the parent say the same once every event is acked, even
\* when a batch reached one of them only: the redelivered add rewrites both,
\* also when it changes nothing.  Under any interleaving.
CopiesAgree ==
    Settled /\ ~torn => parent["byId"] = parent["room"]

\* An edit answered OK is in every table that keeps the reply, and a create
\* redelivered later never brings the original body back (plaintext rows).
\* Under any interleaving of edit, delete and redeliveries.
EditsStick ==
    ~scen.cipher => \A r \in edited, t \in Tables :
        t \in TablesOf(r) => rows[r][t].body = "edited"

\* A delete answered OK has removed the reply from every table that keeps it,
\* and no redelivered create or late edit shows it again -- unless the delete
\* that won failed half-way or is still running.
DeletesStick ==
    \A r \in erased : \/ r \in halfway
                      \/ \E w \in Workers : job[w].op = "delete" /\ job[w].r = r
                      \/ \A t \in TablesOf(r) : rows[r][t].deleted
=============================================================================
