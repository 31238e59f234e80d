--------------------------- MODULE ThreadReplies ---------------------------
(***************************************************************************)
(* message-worker on the replies of one thread: the thread room with its   *)
(* followers, the thread subscriptions, the unread and mention marks, and  *)
(* the link from the parent message to its thread (handler.go,             *)
(* store_mongo.go); and room-service's RPC that marks the thread as read.  *)
(*                                                                         *)
(* The handlers of several replies run at once.  A handler is a series of  *)
(* calls to MongoDB, Cassandra and the outbox; one that fails, or that     *)
(* dies, is redelivered and starts over, whatever the first delivery did.  *)
(* The parent is a message of the same stream and may be saved late, or    *)
(* never.  Replies are named by their creation time.                       *)
(***************************************************************************)
EXTENDS Naturals, FiniteSets, Sequences, Functions, TLC

CONSTANTS
    Replies,    \* 1..n
    Accounts,
    Visible,    \* members of the room whose history reaches back to the parent
    Author,     \* the author of the parent message
    Remote,     \* accounts whose home is another site
    Scenarios,  \* [events, parent, room, readers, workers, unknown], see Init
    Attempts,   \* parentResolveAttempts
    MaxFaults   \* bound on failed calls, crashes and lookups that find nothing

ASSUME ThreadAssumption ==
    /\ Replies \subseteq Nat \ {0} /\ Author \in Visible
    /\ Visible \subseteq Accounts /\ Remote \subseteq Accounts
    /\ Attempts \in Nat /\ MaxFaults \in Nat

VARIABLES
    scen,      \* the scenario of this behaviour; never changes
    clock,     \* the time: the replies sent so far
    inbox,     \* each reply's event: unsent, queued, busy, done
    tries,     \* deliveries of each event, up to Attempts
    job,       \* each reply's handler: what it knows and has still to do
    parent,    \* the parent's row in each table: absent, plain, stamped
    saving,    \* whether the parent's own event has still to be handled
    room,      \* the thread room, or NoRoom
    tsubs,     \* thread subscriptions, account -> [seen, mention]
    unread,    \* accounts whose threadUnread contains the parent
    told,      \* remote accounts whose site was sent their subscription
    sent,      \* the remote accounts in each reply's thread_unread_added event
    reads,     \* each account's read request: its time and its writes to do
    faults,
    linkers,   \* history: replies handled from the start with the parent saved
    gaps,      \* history: what lookups did not find for each reply handled
    skipped,   \* history: recipients of each reply whose home site was not found
    before,    \* history: the followers when each reply was sent
    pulledAt,  \* history: when each account's last read cleared its unread mark
    readAt     \* history: the time and the moment of each account's last read

store == <<parent, room, tsubs, unread, told, sent>>
history == <<linkers, gaps, skipped, before, pulledAt, readAt>>
vars == <<scen, clock, inbox, tries, job, store, saving, reads, faults, history>>

-----------------------------------------------------------------------------
Tables == {"byId", "byRoom"}
NoRoom == [accounts |-> {}, subscribed |-> FALSE, stamped |-> FALSE, exists |-> FALSE]
NewSub == [seen |-> 0, mention |-> FALSE]
Idle == [todo |-> <<>>, known |-> TRUE, lost |-> {}, late |-> FALSE, found |-> FALSE,
         audience |-> {}, first |-> FALSE, healed |-> TRUE, linked |-> TRUE, hit |-> TRUE]
NoRead == [now |-> 0, todo |-> {}]

\* events: who replies, whom they mention (nobody or one account), whether the
\* gatekeeper knew the parent's time (knows), whether the reply comes from the
\* migration (migrated) and whether the sender is a user (user).
\* parent: saved, pending, or never.  room: a room of before the flags existed.
\* unknown: accounts the user store has not, or not yet.
Init ==
    /\ scen \in Scenarios
    /\ clock = 0
    /\ inbox = [r \in Replies |-> IF r \in DOMAIN scen.events THEN "unsent" ELSE "done"]
    /\ tries = [r \in Replies |-> 0]
    /\ job = [r \in Replies |-> Idle]
    /\ parent = [t \in Tables |-> IF scen.parent = "saved" THEN "plain" ELSE "absent"]
    /\ saving = (scen.parent = "pending")
    /\ room = scen.room
    /\ tsubs = [a \in scen.room.accounts |-> NewSub]
    /\ unread = {}
    /\ told = scen.room.accounts \cap Remote
    /\ sent = [r \in Replies |-> {}]
    /\ reads = [a \in Accounts |-> NoRead]
    /\ faults = 0
    /\ linkers = {}
    /\ gaps = [r \in Replies |-> {}]
    /\ skipped = [r \in Replies |-> {}]
    /\ before = [r \in Replies |-> {}]
    /\ pulledAt = [a \in Accounts |-> 0]
    /\ readAt = [a \in Accounts |-> [now |-> 0, at |-> 0]]

Event(r) == scen.events[r]
At(r, op) == job[r].todo # <<>> /\ Head(job[r].todo).op = op
Who(r) == Head(job[r].todo).who
Step(op, who) == <<[op |-> op, who |-> who]>>
Do(op) == Step(op, Author)
When(cond, steps) == IF cond THEN steps ELSE <<>>

\* The step is done; the rest of the job follows.
Done(r) == job' = [job EXCEPT ![r] = [@ EXCEPT !.todo = Tail(@)]]
Settle(r, s) ==
    /\ inbox' = [inbox EXCEPT ![r] = s]
    /\ job' = [job EXCEPT ![r] = Idle]
Nak(r) == Settle(r, "queued")

Fault == faults < MaxFaults /\ faults' = faults + 1

-----------------------------------------------------------------------------
(* The stream.                                                             *)

Send(r) ==
    /\ inbox[r] = "unsent" /\ r = clock + 1
    /\ clock' = r
    /\ inbox' = [inbox EXCEPT ![r] = "queued"]
    /\ before' = [before EXCEPT ![r] = room.accounts]
    /\ UNCHANGED <<scen, tries, job, store, saving, reads, faults, linkers, gaps,
                   skipped, pulledAt, readAt>>

\* The lookups of the sender and of the mentioned accounts fail open: the reply
\* goes on without its sender's home site, or without its mentions.
Lookups(e) == {x \in {"site", "mentions"} :
                  (x = "site" => e.by \in Remote) /\ (x = "mentions" => e.mentions # {})}

Deliver(r) ==
    /\ Cardinality({x \in Replies : job[x] # Idle}) < scen.workers
    /\ inbox[r] = "queued"
    /\ inbox' = [inbox EXCEPT ![r] = "busy"]
    /\ tries' = [tries EXCEPT ![r] = IF @ < Attempts THEN @ + 1 ELSE @]
    /\ \E lost \in SUBSET Lookups(scen.events[r]) :
          /\ IF lost = {} THEN UNCHANGED faults ELSE Fault
          /\ job' = [job EXCEPT ![r] =
                [Idle EXCEPT !.lost = lost,
                             !.late = \A t \in Tables : parent[t] # "absent",
                             !.known = scen.events[r].knows,
                             !.todo = When(~scen.events[r].knows, Do("resolve")) \o Do("ensure")]]
    /\ UNCHANGED <<scen, clock, store, saving, reads, history>>

\* A call fails, or the process dies.
Fail(r) ==
    /\ job[r] # Idle /\ Fault
    /\ Nak(r)
    /\ UNCHANGED <<scen, clock, tries, store, saving, reads, history>>

\* The parent's own event: the two rows are one batch, not all-or-nothing, and
\* an insert over a stamped row leaves the stamp.
SaveParent ==
    /\ saving
    /\ \E S \in SUBSET Tables :
          /\ IF S = Tables THEN UNCHANGED faults ELSE Fault
          /\ saving' = (S # Tables)
          /\ parent' = [t \in Tables |-> IF t \in S /\ parent[t] = "absent"
                                         THEN "plain" ELSE parent[t]]
    /\ UNCHANGED <<scen, clock, inbox, tries, job, room, tsubs, unread, told, sent,
                   reads, history>>

-----------------------------------------------------------------------------
(* What a handler has to do, decided once it knows the room and the parent. *)

IsReplier(e, found) == ~e.migrated /\ e.user /\ (found => e.by # Author)

Stamps == Do("stampById") \o Do("stampByRoom") \o Do("markStamped")

handleFirstThreadReply(e, known, found) ==
    When(found,
        Step("follow", Author)
        \o When(~e.migrated, Do("owner") \o Step("insert", Author) \o Do("tellAuthor") \o Do("markSubscribed"))
        \o When(IsReplier(e, found), Step("insert", e.by) \o Step("tellReplier", e.by))
        \o When(known, Stamps))

healParentThreadSub ==
    Do("owner") \o Step("upsert", Author) \o Do("tellAuthor") \o Do("markSubscribed")

\* The replier's subscription is left to the first reply, as the parent's is.
SubsequentWithoutReplier(e, j, found) ==
    When(found /\ ~e.migrated /\ ~j.healed, healParentThreadSub)
    \o Do("last")
    \o When(~j.linked /\ found /\ j.known, Stamps)

handleSubsequentThreadReply(e, j, found) ==
    When(found /\ ~e.migrated /\ ~j.healed, healParentThreadSub)
    \o When(IsReplier(e, found), Step("upsertSeen", e.by) \o Step("tellReplier", e.by))
    \o Do("last")
    \o When(~j.linked /\ found /\ j.known, Stamps)

\* At most one account is mentioned in a reply.
Mentioned(e, j) ==
    IF "mentions" \in j.lost THEN {} ELSE (e.mentions \ {e.by}) \cap Visible

markThreadMentions(e, j) ==
    IF Mentioned(e, j) = {} THEN <<>>
    ELSE LET m == CHOOSE a \in Mentioned(e, j) : TRUE
         IN  When(~e.migrated, Step("mention", m) \o Step("flag", m) \o Step("tell", m))
             \o Step("follow", m)

\* processMessage after the thread room is resolved: the replier has read their
\* own reply, mentions, unread marks, the row itself, the badge.
Rest(e, j, found) ==
    When(j.first \/ ~IsReplier(e, found), Step("seen", e.by))
    \o markThreadMentions(e, j)
    \o When(~e.migrated, Do("unread") \o Do("tellUnread"))
    \o Do("save")

Plan(e, j, found) ==
    (IF j.first THEN handleFirstThreadReply(e, j.known, found)
                ELSE handleSubsequentThreadReply(e, j, found))
    \o Rest(e, j, found)

\* Only the author and the mentioned.
AudienceOfParent(e, j, found) ==
    ((IF found THEN {Author} ELSE j.audience) \cup Mentioned(e, j)) \ {e.by}

\* The followers as they were before the reply, the author, the mentioned.
Audience(e, j, found) ==
    (j.audience \cup (IF found THEN {Author} ELSE {})
     \cup Mentioned(e, j)) \ {e.by}

-----------------------------------------------------------------------------
(* The steps.                                                              *)

\* The parent's time, when the event does not carry it: retried, then done without.
ResolveForever(r) ==
    /\ At(r, "resolve")
    /\ IF parent["byId"] = "absent" THEN Nak(r)
       ELSE /\ job' = [job EXCEPT ![r] = [@ EXCEPT !.known = TRUE, !.todo = Tail(@)]]
            /\ UNCHANGED inbox
    /\ UNCHANGED <<scen, clock, tries, store, saving, reads, faults, history>>

GetMessageCreatedAt(r) ==
    LET found == parent["byId"] # "absent"
    IN  /\ At(r, "resolve")
        /\ IF ~found /\ tries[r] < Attempts THEN Nak(r)
           ELSE /\ job' = [job EXCEPT ![r] = [@ EXCEPT !.known = found, !.todo = Tail(@)]]
                /\ UNCHANGED inbox
        /\ UNCHANGED <<scen, clock, tries, store, saving, reads, faults, history>>

\* One upsert: the reply that inserts the room is the first; the others see the
\* room, and its flags, as they were.
EnsureThreadRoom(r) ==
    /\ At(r, "ensure")
    /\ room' = IF room.exists THEN room
               ELSE [NoRoom EXCEPT !.exists = TRUE, !.accounts = {Event(r).by}]
    /\ job' = [job EXCEPT ![r] =
          [@ EXCEPT !.first = ~room.exists, !.audience = room.accounts, !.todo = Do("sender"),
                    !.healed = room.subscribed, !.linked = room.stamped]]
    /\ UNCHANGED <<scen, clock, inbox, tries, parent, tsubs, unread, told, sent, saving,
                   reads, faults, history>>

GetMessageSender(r) ==
    LET found == parent["byId"] # "absent"
    IN  /\ At(r, "sender")
        /\ job' = [job EXCEPT ![r] =
              [@ EXCEPT !.todo = Plan(Event(r), job[r], found),
                        !.audience = Audience(Event(r), job[r], found),
                        !.found = found,
                        !.lost = @ \cup IF job[r].first /\ ~found THEN {"parent"} ELSE {}]]
        /\ UNCHANGED <<scen, clock, inbox, tries, store, saving, reads, faults, history>>

\* A step that changes only the thread room, or only the subscriptions.
RoomStep(r, new) ==
    /\ room' = new /\ Done(r)
    /\ UNCHANGED <<scen, clock, inbox, tries, parent, tsubs, unread, told, sent, saving,
                   reads, faults, history>>
SubStep(r, new) ==
    /\ tsubs' = new /\ Done(r)
    /\ UNCHANGED <<scen, clock, inbox, tries, parent, room, unread, told, sent, saving,
                   reads, faults, history>>

AddReplyAccounts(r) ==
    /\ At(r, "follow")
    /\ RoomStep(r, [room EXCEPT !.accounts = @ \cup {Who(r)}])

UpdateThreadRoomLastMessage(r) ==
    /\ At(r, "last")
    /\ RoomStep(r, [room EXCEPT !.accounts =
                       @ \cup {Event(r).by} \cup IF job[r].found THEN {Author} ELSE {}])

MarkParentSubscribed(r) ==
    /\ At(r, "markSubscribed")
    /\ RoomStep(r, [room EXCEPT !.subscribed = TRUE])

\* A stamp is recorded that may have missed a row.
MarkParentStampedAnyway(r) ==
    /\ At(r, "markStamped")
    /\ RoomStep(r, [room EXCEPT !.stamped = TRUE])

MarkParentStamped(r) ==
    /\ At(r, "markStamped")
    /\ RoomStep(r, [room EXCEPT !.stamped = @ \/ job[r].hit])

\* A subscription that exists already is a duplicate key: the reply is redelivered.
InsertThreadSubscription(r) ==
    /\ At(r, "insert")
    /\ IF Who(r) \in DOMAIN tsubs
       THEN Nak(r) /\ UNCHANGED <<scen, clock, tries, store, saving, reads, faults, history>>
       ELSE SubStep(r, Who(r) :> NewSub @@ tsubs)

UpsertThreadSubscription(r) ==
    /\ At(r, "upsert")
    /\ SubStep(r, tsubs @@ Who(r) :> NewSub)

SeenUpTo(subs, a, at) == [subs EXCEPT ![a].seen = IF @ < at THEN at ELSE @]

UpsertThreadSubscriptionAdvancingLastSeen(r) ==
    /\ At(r, "upsertSeen")
    /\ SubStep(r, SeenUpTo(tsubs @@ Who(r) :> NewSub, Who(r), r))

\* Best-effort: a failure is logged and the reply goes on.
AdvanceThreadSubscriptionLastSeen(r) ==
    /\ At(r, "seen")
    /\ SubStep(r, IF Who(r) \in DOMAIN tsubs THEN SeenUpTo(tsubs, Who(r), r) ELSE tsubs)

AdvanceFails(r) ==
    /\ At(r, "seen") /\ Fault /\ Done(r)
    /\ UNCHANGED <<scen, clock, inbox, tries, store, saving, reads, history>>

\* MarkThreadSubscriptionMention is two writes: a new subscription is inserted
\* with the mention, and one not seen past the reply gets it.
InsertMention(r) ==
    /\ At(r, "mention")
    /\ SubStep(r, tsubs @@ Who(r) :> [NewSub EXCEPT !.mention = TRUE])

FlagAnyMention(r) ==
    /\ At(r, "flag")
    /\ SubStep(r, [tsubs EXCEPT ![Who(r)].mention = TRUE])

FlagMention(r) ==
    /\ At(r, "flag")
    /\ SubStep(r, [tsubs EXCEPT ![Who(r)].mention = @ \/ tsubs[Who(r)].seen < r])

\* The author's home site, before their subscription is written: an author the
\* user store does not know has none, and the reply goes on.
lookupOwnerSiteID(r) ==
    /\ At(r, "owner")
    /\ \/ Done(r)
       \/ /\ Author \in scen.unknown
          /\ job' = [job EXCEPT ![r] = [@ EXCEPT !.todo = Tail(@), !.lost = @ \cup {"author"}]]
    /\ UNCHANGED <<scen, clock, inbox, tries, store, saving, reads, faults, history>>

\* No copy is sent for an author, or a replier, whose home site was not found.
Unrouted(r) ==
    \/ At(r, "tellAuthor") /\ "author" \in job[r].lost
    \/ At(r, "tellReplier") /\ "site" \in job[r].lost

publishThreadSubInboxIfRemote(r) ==
    /\ At(r, "tell") \/ At(r, "tellAuthor") \/ At(r, "tellReplier")
    /\ told' = IF Unrouted(r) THEN told ELSE told \cup ({Who(r)} \cap Remote)
    /\ gaps' = [gaps EXCEPT ![r] = @ \cup (job[r].lost \cap {"author"})]
    /\ Done(r)
    /\ UNCHANGED <<scen, clock, inbox, tries, parent, room, tsubs, unread, sent, saving,
                   reads, faults, linkers, skipped, before, pulledAt, readAt>>

UpdateParentMessageThreadRoomID(r, op, t) ==
    /\ At(r, op)
    /\ parent' = [parent EXCEPT ![t] = IF @ = "absent" THEN @ ELSE "stamped"]
    /\ job' = [job EXCEPT ![r] = [@ EXCEPT !.todo = Tail(@),
                                           !.hit = @ /\ parent[t] # "absent"]]
    /\ UNCHANGED <<scen, clock, inbox, tries, room, tsubs, unread, told, sent, saving,
                   reads, faults, history>>

\* fanOutThreadUnread: the marks here, then one event for the remote site with
\* the recipients the user store knows; the event's id is the reply's, so the
\* site takes only the first one.
AddThreadUnread(r) ==
    /\ At(r, "unread")
    /\ unread' = unread \cup job[r].audience
    /\ Done(r)
    /\ UNCHANGED <<scen, clock, inbox, tries, parent, room, tsubs, told, sent, saving,
                   reads, faults, history>>

PublishThreadUnread(r) ==
    /\ At(r, "tellUnread")
    /\ \E missing \in SUBSET (job[r].audience \cap Remote \cap scen.unknown) :
          /\ sent' = [sent EXCEPT ![r] =
                        IF @ = {} THEN (job[r].audience \cap Remote) \ missing ELSE @]
          /\ skipped' = [skipped EXCEPT ![r] = @ \cup missing]
    /\ Done(r)
    /\ UNCHANGED <<scen, clock, inbox, tries, parent, room, tsubs, unread, told, saving,
                   reads, faults, linkers, gaps, before, pulledAt, readAt>>

\* The reply's rows, its parent's count and the badge (ThreadCount models them);
\* then the event is acknowledged.
SaveThreadMessage(r) ==
    /\ At(r, "save")
    /\ Settle(r, "done")
    /\ linkers' = IF job[r].late THEN linkers \cup {r} ELSE linkers
    /\ gaps' = [gaps EXCEPT ![r] = @ \cup job[r].lost]
    /\ UNCHANGED <<scen, clock, tries, store, saving, reads, faults, skipped, before, pulledAt, readAt>>

-----------------------------------------------------------------------------
(* room-service: an account marks the thread as read.  The subscription is *)
(* looked up, the time taken, and two writes go out side by side.          *)

messageThreadRead(a) ==
    /\ a \in scen.readers \cap DOMAIN tsubs
    /\ reads[a] = NoRead /\ clock > 0
    /\ reads' = [reads EXCEPT ![a] = [now |-> clock, todo |-> {"unread", "seen"}]]
    /\ UNCHANGED <<scen, clock, inbox, tries, job, store, saving, faults, history>>

ReadDone(a, what) ==
    /\ what \in reads[a].todo
    /\ reads' = [reads EXCEPT ![a] = IF @.todo = {what} THEN NoRead
                                     ELSE [@ EXCEPT !.todo = @ \ {what}]]

UpdateSubscriptionThreadRead(a) ==
    /\ ReadDone(a, "unread")
    /\ unread' = unread \ {a}
    /\ pulledAt' = [pulledAt EXCEPT ![a] = clock]
    /\ UNCHANGED <<scen, clock, inbox, tries, job, parent, room, tsubs, told, sent, saving,
                   faults, linkers, gaps, skipped, before, readAt>>

UpdateThreadSubscriptionRead(a) ==
    /\ ReadDone(a, "seen")
    /\ tsubs' = [tsubs EXCEPT ![a] = [seen |-> reads[a].now, mention |-> FALSE]]
    /\ readAt' = [readAt EXCEPT ![a] = [now |-> reads[a].now, at |-> clock]]
    /\ UNCHANGED <<scen, clock, inbox, tries, job, parent, room, unread, told, sent, saving,
                   faults, linkers, gaps, skipped, before, pulledAt>>

\* One write fails and cancels the other, unless that one is done.
ReadFails(a) ==
    /\ reads[a] # NoRead /\ Fault
    /\ reads' = [reads EXCEPT ![a] = NoRead]
    /\ UNCHANGED <<scen, clock, inbox, tries, job, store, saving, history>>

-----------------------------------------------------------------------------
Handle(r) ==
    \/ GetMessageCreatedAt(r) \/ EnsureThreadRoom(r) \/ GetMessageSender(r)
    \/ AddReplyAccounts(r) \/ UpdateThreadRoomLastMessage(r)
    \/ MarkParentSubscribed(r) \/ MarkParentStamped(r)
    \/ InsertThreadSubscription(r) \/ UpsertThreadSubscription(r)
    \/ UpsertThreadSubscriptionAdvancingLastSeen(r)
    \/ AdvanceThreadSubscriptionLastSeen(r) \/ AdvanceFails(r)
    \/ InsertMention(r) \/ FlagMention(r)
    \/ lookupOwnerSiteID(r) \/ publishThreadSubInboxIfRemote(r)
    \/ UpdateParentMessageThreadRoomID(r, "stampById", "byId")
    \/ UpdateParentMessageThreadRoomID(r, "stampByRoom", "byRoom")
    \/ AddThreadUnread(r) \/ PublishThreadUnread(r) \/ SaveThreadMessage(r)

Read(a) ==
    \/ UpdateSubscriptionThreadRead(a) \/ UpdateThreadSubscriptionRead(a) \/ ReadFails(a)

Next ==
    \/ \E r \in Replies : Send(r) \/ Deliver(r) \/ Handle(r) \/ Fail(r)
    \/ SaveParent
    \/ \E a \in Accounts : messageThreadRead(a) \/ Read(a)

Spec == Init /\ [][Next]_vars

\* A goroutine with a message runs on, the stream delivers what is queued again
\* and again, and the parent's event is retried.  Nothing makes anyone reply or read.
FairSpec ==
    /\ Spec
    /\ \A r \in Replies : WF_vars(Handle(r)) /\ WF_vars(Deliver(r))
    /\ WF_vars(SaveParent)

-----------------------------------------------------------------------------
\* The state has its shape.
TypeOK ==
    /\ scen \in Scenarios /\ clock \in Replies \cup {0}
    /\ inbox \in [Replies -> {"unsent", "queued", "busy", "done"}]
    /\ parent \in [Tables -> {"absent", "plain", "stamped"}]
    /\ room.accounts \subseteq Accounts
    /\ DOMAIN tsubs \subseteq Accounts
    /\ unread \subseteq Accounts /\ told \subseteq Remote

Handled == {r \in DOMAIN scen.events : inbox[r] = "done"}
Live == {r \in Handled : ~scen.events[r].migrated}

\* The author's home site was sent their subscription, or was not found by a
\* lookup made for it: an author the user store does not know is not federated.
AuthorTold == {Author} \cap Remote \subseteq told \/ \E r \in Replies : "author" \in gaps[r]

\* The room's two flags never claim more than was done: while parentSubscribed is
\* set the parent's author has a subscription, sent to their site if a lookup
\* finds it, and while parentStamped is set both rows of the parent point to the
\* thread.  And the heal works: once a reply has been handled that found the
\* parent saved, the author follows the thread and the parent points to it, and
\* after such a live reply the author is subscribed, whatever failed in the
\* replies before.
ParentLinked ==
    /\ room.subscribed => Author \in DOMAIN tsubs /\ AuthorTold
    /\ room.stamped => \A t \in Tables : parent[t] = "stamped"
    /\ linkers # {} =>
          /\ Author \in room.accounts
          /\ \A t \in Tables : parent[t] = "stamped"
    /\ linkers \cap Live # {} => Author \in DOMAIN tsubs /\ AuthorTold

\* Whoever replied follows the thread; a user whose live reply was handled is
\* subscribed to it, here and (when the lookup of their home worked) at their own
\* site, unless it was the first reply and its parent was not found; a mentioned
\* account follows and is subscribed only if it may see the parent.
RepliersFollow ==
    /\ \A r \in Handled : scen.events[r].by \in room.accounts
    /\ \A r \in Live :
          LET e == scen.events[r] IN
          e.user /\ "parent" \notin gaps[r] /\ (e.by = Author => r \in linkers) =>
             /\ e.by \in DOMAIN tsubs
             /\ \/ "site" \in gaps[r] \/ {e.by} \cap Remote \subseteq told
                \/ e.by = Author /\ AuthorTold
    /\ \A r \in Handled :
          LET e == scen.events[r] IN
          (e.mentions \ {e.by}) \cap Visible \subseteq room.accounts \/ "mentions" \in gaps[r]
    /\ room.accounts \cup DOMAIN tsubs \subseteq Visible

\* No follower misses a live reply: whoever followed the thread when it was sent
\* (and the parent's author, when the parent was saved by then) has the thread
\* among the unread ones unless they read it since, and the event for their home
\* site names them, although the list is rebuilt on every delivery and the site
\* takes only the first event.  ("An unknown user just isn't federated": the
\* event leaves out a recipient the lookup of home sites did not return.)
UnreadReaches ==
    \A r \in Live :
       LET due == before[r] \ {scen.events[r].by} IN
       /\ \A a \in due : a \in unread \/ pulledAt[a] >= r
       /\ due \cap Remote \subseteq sent[r] \cup skipped[r]
       /\ r \in linkers /\ scen.events[r].by # Author =>
             Author \in unread \/ pulledAt[Author] >= r

\* Mention flags and reads agree in both directions: a flag stands for a mention
\* newer than the account's last read, though the mention is written
\* asynchronously and again on a redelivery, and a mention sent after the last
\* read, and not followed by a reply of the account, is flagged.
MentionsMatchReads ==
    /\ \A a \in DOMAIN tsubs : tsubs[a].mention =>
          \E r \in 1..clock : a \in scen.events[r].mentions /\ r > readAt[a].now
    /\ \A r \in Live : \A a \in Mentioned(scen.events[r], [lost |-> gaps[r]]) :
          \/ a \in DOMAIN tsubs /\ tsubs[a].mention
          \/ readAt[a].at >= r
          \/ a \in DOMAIN tsubs /\ tsubs[a].seen >= r

\* Every reply sent is in the end handled: the wait for the parent's time, a
\* duplicate subscription and every other redelivery come to an end, even when
\* the parent is never saved.
EveryReplySettles ==
    \A r \in Replies : inbox[r] = "queued" ~> inbox[r] = "done"
=============================================================================
