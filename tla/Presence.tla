------------------------------ MODULE Presence ------------------------------
(***************************************************************************)
(* user-presence-service: the presence of one account.                     *)
(*                                                                         *)
(* The truth is the hash of the account's connections (`conns`), the       *)
(* manual override and the external (Teams) status; `status` is the        *)
(* materialised result that queries read.  Every handler and the sweeper   *)
(* first run one Lua script, which is atomic, and then update the sweep    *)
(* index (`sched`) in a second, separate call: another process may run     *)
(* between the two.  The keys of one account never touch those of another, *)
(* so one account stands for all of them.                                  *)
(*                                                                         *)
(* Time is relative, so that behaviours may go on for ever in finitely     *)
(* many states: a connection carries the age of its last ping, capped one  *)
(* beyond the threshold, and the sweep index the time left, floored at 0   *)
(* ("due").  A handler reads its clock and runs its script in one step; a  *)
(* sweeper runs its scripts on the clock of its range query.               *)
(***************************************************************************)
EXTENDS Naturals, FiniteSets, Functions

CONSTANTS
    Conns,        \* connection ids (one per open client)
    Accounts,     \* what an account may do: see Habits
    Handlers,     \* goroutines that serve client requests, on any replica
    Sweepers,     \* one sweeper per replica
    Stale,        \* PRESENCE_STALE_THRESHOLD, in clock ticks
    SyncFails,    \* whether failed calls may hit the Teams sync
    None          \* no value

ASSUME StaleAssumption == Stale \in Nat \ {0}

\* The connections a user opens, the overrides they set (None clears), whether
\* their clients report inactivity, whether they take calls in Teams, the
\* goroutines that serve their requests at once, and a bound on failed calls.
Manuals == {"online", "away", "busy", "appear_offline"}
Habits == [conns : SUBSET Conns, manuals : SUBSET (Manuals \cup {None}), idles : BOOLEAN,
           calls : BOOLEAN, handlers : SUBSET Handlers, faults : Nat]
ASSUME AccountsAssumption == Accounts \subseteq Habits

VARIABLES
    account,   \* the account, one of Accounts
    conns,     \* presence:{account}:conns, connId -> [away, age]
    manual,    \* presence:{account}:manual
    azure,     \* presence:{account}:azure, "in_call" or None
    status,    \* presence:{account}:status
    sched,     \* the account's score in presence:sweep, as time left, or None
    inCall,    \* whether the account is in presence:incall, the sync's index
    op,        \* what each process has still to do after its script
    client,    \* the clients themselves: "open" or "gone"
    teams,     \* whether Teams says that the user is in a call
    expired,   \* keys that a TTL removed since the last recompute
    faults     \* failures so far

vars == <<account, conns, manual, azure, status, sched, inCall, op, client, teams,
          expired, faults>>

Sync == "sync"
Procs == Handlers \cup Sweepers \cup {Sync}
Statuses == {"offline", "away", "in_call", "online", "busy"}
Idle == [step |-> "idle"]

TypeOK ==
    /\ account \in Accounts
    /\ \E C \in SUBSET account.conns : conns \in [C -> [away : BOOLEAN, age : 0..Stale + 1]]
    /\ manual \in account.manuals \cup {None}
    /\ azure \in {"in_call", None}
    /\ status \in Statuses \cup {None}
    /\ sched \in 0..Stale \cup {None}
    /\ inCall \in BOOLEAN /\ teams \in BOOLEAN
    /\ client \in [Conns -> {"open", "gone"}]
    /\ op \in [Procs -> {Idle}
                  \cup [step : {"due"}, dead : SUBSET Conns]
                  \cup [step : {"apply"}, ext : {"in_call", None}]
                  \cup [step : {"reschedule"}, next : 0..Stale \cup {None}]
                  \cup [step : {"index"}]]
    /\ expired \subseteq {"conns", "azure"}
    /\ faults \in 0..account.faults

Init ==
    /\ account \in Accounts
    /\ conns = <<>> /\ manual = None /\ azure = None /\ status = None
    /\ sched = None /\ inCall = FALSE
    /\ op = [p \in Procs |-> Idle]
    /\ client = [c \in Conns |-> "gone"]
    /\ teams = FALSE
    /\ expired = {} /\ faults = 0

-----------------------------------------------------------------------------
(* The scripts. *)

\* What computeLua keeps: a connection is dead once its age exceeds the threshold.
Dead(cs) == {c \in DOMAIN cs : cs[c].age > Stale}
Live(cs) == Restrict(cs, DOMAIN cs \ Dead(cs))

\* The status of live connections `cs` under the override m and the external status a.
Effective(cs, m, a) ==
    CASE cs = <<>>                                   -> "offline"
      [] cs # <<>> /\ m = "appear_offline"           -> "offline"
      [] cs # <<>> /\ m = "away"                     -> "away"
      [] OTHER ->
           IF a = "in_call" THEN "in_call"
           ELSE IF m # None THEN m
           ELSE IF \E c \in DOMAIN cs : ~cs[c].away THEN "online" ELSE "away"

\* The earliest lastSeen + stale of the connections kept, as time left from now.
Left(conn) == IF conn.age > Stale THEN 0 ELSE Stale - conn.age
NextDeadlineOfActive(cs) ==
    IF \A c \in DOMAIN cs : cs[c].away THEN None
    ELSE CHOOSE d \in 0..Stale : \E c \in DOMAIN cs : ~cs[c].away /\ d = Left(cs[c])
NextDeadline(cs) ==
    IF cs = <<>> THEN None
    ELSE CHOOSE d \in 0..Stale :
            /\ \E c \in DOMAIN cs : d = Left(cs[c])
            /\ \A c \in DOMAIN cs : d <= Left(cs[c])

\* computeLua once it has pruned the hash to cs, under m and a: derive and
\* compare-and-set the status.  The caller still has to reschedule.
Derive(p, cs, m, a) ==
    /\ conns' = cs /\ manual' = m /\ azure' = a /\ status' = Effective(cs, m, a)
    /\ expired' = {}
    /\ op' = [op EXCEPT ![p] = [step |-> "reschedule", next |-> NextDeadline(cs)]]

\* A script ending in computeLua, after it wrote cs, m and a.
Recompute(p, cs, m, a) == Derive(p, Live(cs), m, a)

\* The hash with connection c seen just now.
Seen(c, isAway) ==
    [x \in DOMAIN conns \cup {c} |-> IF x = c THEN [away |-> isAway, age |-> 0] ELSE conns[x]]

-----------------------------------------------------------------------------
(* Requests of clients.  The client's own step and the script are one      *)
(* step: a request that is still on its way is a client that has not acted.*)

\* Hello: SetActivity(connId, away = false).
Hello(p, c) ==
    /\ op[p] = Idle /\ client[c] = "gone" /\ c \in account.conns
    /\ client' = [client EXCEPT ![c] = "open"]
    /\ Recompute(p, Seen(c, FALSE), manual, azure)
    /\ UNCHANGED <<account, sched, inCall, teams, faults>>

Activity(p, c, isAway) ==
    /\ op[p] = Idle /\ account.idles /\ client[c] = "open"
    /\ Recompute(p, Seen(c, isAway), manual, azure)
    /\ UNCHANGED <<account, sched, inCall, client, teams, faults>>

\* A known connection is refreshed without recompute, and the account's next
\* deadline is said to be now + stale, whatever its other connections say.
PingKnown(p, c) ==
    /\ c \in DOMAIN conns
    /\ conns' = Seen(c, conns[c].away)
    /\ op' = [op EXCEPT ![p] = [step |-> "reschedule", next |-> Stale]]
    /\ UNCHANGED <<account, manual, azure, status, expired>>

PingWithoutRecompute(p, c) ==
    /\ op[p] = Idle /\ client[c] = "open"
    /\ conns' = Seen(c, FALSE)
    /\ op' = [op EXCEPT ![p] = [step |-> "reschedule", next |-> Stale]]
    /\ UNCHANGED <<account, manual, azure, status, expired, sched, inCall, client, teams, faults>>
PingOnlyKnown(p, c) ==
    /\ op[p] = Idle /\ client[c] = "open"
    /\ PingKnown(p, c)
    /\ UNCHANGED <<account, sched, inCall, client, teams, faults>>
Ping(p, c) ==
    /\ op[p] = Idle /\ client[c] = "open"
    /\ \/ PingKnown(p, c)
       \/ c \notin DOMAIN conns /\ Recompute(p, Seen(c, FALSE), manual, azure)
    /\ UNCHANGED <<account, sched, inCall, client, teams, faults>>

Bye(p, c) ==
    /\ op[p] = Idle /\ client[c] = "open"
    /\ client' = [client EXCEPT ![c] = "gone"]
    /\ Recompute(p, Restrict(conns, DOMAIN conns \ {c}), manual, azure)
    /\ UNCHANGED <<account, sched, inCall, teams, faults>>

SetManual(p, m) ==
    /\ op[p] = Idle
    /\ Recompute(p, conns, m, azure)
    /\ UNCHANGED <<account, sched, inCall, client, teams, faults>>

-----------------------------------------------------------------------------
(* The sweeper: read the accounts that are due, then recompute each. *)

\* The range query, and which connections are dead at its clock.
SweepRead(p) ==
    /\ op[p] = Idle /\ sched = 0
    /\ op' = [op EXCEPT ![p] = [step |-> "due", dead |-> Dead(conns)]]
    /\ UNCHANGED <<account, conns, manual, azure, status, sched, inCall, client, teams,
                   expired, faults>>

\* The script on that clock: a connection that died since the query is kept,
\* with a deadline that has already passed.
SweepRun(p) ==
    /\ op[p].step = "due"
    /\ Derive(p, Restrict(conns, DOMAIN conns \ (op[p].dead \cap Dead(conns))), manual, azure)
    /\ UNCHANGED <<account, sched, inCall, client, teams, faults>>

\* A Valkey call of process p fails.
Fail(p) ==
    /\ faults < account.faults /\ (p = Sync => SyncFails)
    /\ faults' = faults + 1

-----------------------------------------------------------------------------
(* The Teams sync (one job, run periodically). *)

\* One reconcile run up to the account's turn: only accounts of the sweep
\* index can be current; an account of the in-call index that is not current
\* is cleared.
SyncReadSetsOnly ==
    /\ op[Sync] = Idle /\ sched # None /\ teams
    /\ op' = [op EXCEPT ![Sync] = [step |-> "apply", ext |-> "in_call"]]
    /\ UNCHANGED <<account, conns, manual, azure, status, sched, inCall, client, teams, expired, faults>>
SyncRead ==
    LET current == sched # None /\ teams
    IN  /\ op[Sync] = Idle
        /\ current \/ inCall
        /\ op' = [op EXCEPT ![Sync] = [step |-> "apply", ext |-> IF current THEN "in_call" ELSE None]]
        /\ UNCHANGED <<account, conns, manual, azure, status, sched, inCall, client, teams,
                       expired, faults>>

\* apply: SetExternal's script.
SyncApply ==
    /\ op[Sync].step = "apply"
    /\ Recompute(Sync, conns, manual, op[Sync].ext)
    /\ UNCHANGED <<account, sched, inCall, client, teams, faults>>

\* apply: the in-call index follows the external status that was just written.
SyncIndex ==
    /\ op[Sync].step = "index"
    /\ \/ /\ inCall' = (azure = "in_call")
          /\ UNCHANGED faults
       \/ Fail(Sync) /\ UNCHANGED inCall
    /\ op' = [op EXCEPT ![Sync] = Idle]
    /\ UNCHANGED <<account, conns, manual, azure, status, sched, client, teams, expired>>

-----------------------------------------------------------------------------
(* The rest of every process. *)

\* reschedule: ZADD at the deadline the script returned, or ZREM.  A process
\* whose call fails returns the error.  One that succeeds publishes the status
\* when the script changed it, which no state of this module depends on.
Reschedule(p) ==
    /\ op[p].step = "reschedule"
    /\ \/ /\ sched' = op[p].next
          /\ op' = [op EXCEPT ![p] = IF p = Sync THEN [step |-> "index"] ELSE Idle]
          /\ UNCHANGED faults
       \/ /\ Fail(p)
          /\ op' = [op EXCEPT ![p] = Idle]
          /\ UNCHANGED sched
    /\ UNCHANGED <<account, conns, manual, azure, status, inCall, client, teams, expired>>

-----------------------------------------------------------------------------
(* The surroundings. *)

\* A client disappears without a bye.
Vanish(c) ==
    /\ client[c] = "open"
    /\ client' = [client EXCEPT ![c] = "gone"]
    /\ UNCHANGED <<account, conns, manual, azure, status, sched, inCall, op, teams,
                   expired, faults>>

Sooner(d) == IF d = None \/ d = 0 THEN d ELSE d - 1

Tick ==
    /\ conns' = [c \in DOMAIN conns |->
                    [conns[c] EXCEPT !.age = IF @ > Stale THEN @ ELSE @ + 1]]
    /\ sched' = Sooner(sched)
    /\ op' = [p \in Procs |-> IF op[p].step = "reschedule"
                              THEN [op[p] EXCEPT !.next = Sooner(@)] ELSE op[p]]
    /\ UNCHANGED <<account, manual, azure, status, inCall, client, teams, expired, faults>>

\* PEXPIRE of the hash: PRESENCE_CONNS_TTL is longer than the threshold and
\* every ping and activity renews it, so only a hash of dead connections goes.
ConnsExpire ==
    /\ conns # <<>> /\ Live(conns) = <<>>
    /\ conns' = <<>> /\ expired' = expired \cup {"conns"}
    /\ UNCHANGED <<account, manual, azure, status, sched, inCall, op, client, teams, faults>>

\* EXTERNAL_TTL: only the sync renews the key, and it may be late or dead; a
\* run under way ends (RUN_TIMEOUT) before the key it has just written expires.
AzureExpire ==
    /\ azure # None /\ op[Sync] = Idle
    /\ azure' = None /\ expired' = expired \cup {"azure"}
    /\ UNCHANGED <<account, conns, manual, status, sched, inCall, op, client, teams, faults>>

\* A call in Teams starts or ends.
TeamsCall ==
    /\ account.calls
    /\ teams' = ~teams
    /\ UNCHANGED <<account, conns, manual, azure, status, sched, inCall, op, client, expired, faults>>

-----------------------------------------------------------------------------
Finish(p) == Reschedule(p) \/ SweepRun(p)

Next ==
    \/ \E p \in account.handlers, c \in Conns :
          \/ Hello(p, c) \/ Ping(p, c) \/ Bye(p, c)
          \/ \E isAway \in BOOLEAN : Activity(p, c, isAway)
    \/ \E p \in account.handlers, m \in account.manuals : SetManual(p, m)
    \/ \E p \in Sweepers : SweepRead(p)
    \/ \E p \in Procs : Finish(p)
    \/ SyncRead \/ SyncApply \/ SyncIndex
    \/ \E c \in Conns : Vanish(c)
    \/ Tick \/ ConnsExpire \/ AzureExpire \/ TeamsCall

Spec == Init /\ [][Next]_vars

\* Processes finish what they started, sweepers run periodically, an open
\* client's pings are served, time passes, TTLs elapse.
Fairness ==
    /\ \A p \in Procs : WF_vars(Finish(p))
    /\ \A p \in Sweepers : WF_vars(SweepRead(p))
    /\ WF_vars(SyncApply) /\ WF_vars(SyncIndex)
    /\ \A c \in Conns : SF_vars(\E p \in account.handlers : Ping(p, c))
    /\ WF_vars(Tick) /\ WF_vars(AzureExpire)

\* The sync need not be run again, and if it is, it is run periodically.
FairSpec == Spec /\ Fairness
SyncedSpec == FairSpec /\ WF_vars(SyncRead)

-----------------------------------------------------------------------------
(* Properties. *)

\* StatusIsDerived: the materialised status is what the connection hash, the
\* override and the external status say, whatever the interleaving of handlers,
\* sweepers and the sync: a ping that skips the recompute never has to make it.
\* Only a TTL may change the truth behind it, until the next recompute.
StatusIsDerived ==
    (expired = {} /\ status # None) => status = Effective(conns, manual, azure)

AllGone == \A c \in Conns : client[c] = "gone"
NothingInFlight == \A p \in Procs : op[p] = Idle
ShownOffline == status \in {"offline", None}

\* OfflineDetected: once every client has vanished and no request is in flight,
\* an account that the sweep index still knows is shown offline in the end,
\* unless a client comes back first: the strict staleness test of computeLua
\* and the inclusive range of Sweep leave no deadline that is never acted on.
OfflineDetected ==
    (AllGone /\ NothingInFlight /\ sched # None) ~> (ShownOffline \/ ~AllGone)

\* PingRevives: an account with a client that keeps pinging, and no
\* appear_offline, is shown live again and again, and is indexed for the
\* sweeper again and again, although a sweep may prune a connection whose pings
\* are late and an index update may fail or be overwritten by an older one.
PingRevives ==
    \A c \in Conns :
        <>[](client[c] = "open" /\ manual # "appear_offline")
            => []<>(~ShownOffline) /\ []<>(sched # None)

\* CallEndClears: when a call has ended for good and the sync keeps running, the
\* account is in the end not shown in a call any more -- if no Valkey call of
\* the sync itself fails (SyncFails = FALSE): a failed update of the in-call
\* index leaves an account that no later run clears.
CallEndClears == <>[]~teams => <>[](status # "in_call")
=============================================================================
