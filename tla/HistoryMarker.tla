--------------------------- MODULE HistoryMarker ---------------------------
(***************************************************************************)
(* message-worker when Cassandra cannot take writes: how a failed message  *)
(* is settled (settle.go, droplimit.go), and the site-wide marker that     *)
(* tells clients their history is incomplete (degrade.go,                  *)
(* pkg/histdegrade).                                                       *)
(*                                                                         *)
(* Every pod keeps a local view of the marker and shares the document in   *)
(* MongoDB.  The goroutines of a pod take the tracker's mutex for one      *)
(* critical section at a time and give it up around every round trip, so   *)
(* each section and each round trip is a step of its own.  Time is kept as *)
(* ages that stop growing at the bound that matters.  A message slot is    *)
(* used again once its message is settled: traffic never ends.             *)
(***************************************************************************)
EXTENDS Integers, FiniteSets

CONSTANTS
    Messages,   \* message slots
    Pods,
    Workers,    \* handler goroutines
    Scenarios,  \* records: the pod of each running goroutine (podOf), the
                \* messages whose row Cassandra rejects (poison), and the bounds
                \* on outages and on single timeouts, failed MongoDB calls and
                \* crashes (outages, faults)
    MarkDelay,  \* DEGRADE_MARK_DELAY, in ticks
    TailGrace,  \* drainTailGrace, in ticks
    RetryUses,  \* deliveries after which INVALID_RETRY_WINDOW has passed
    MaxDrops    \* drops a pod may make in a window of one tick

ASSUME MarkerBounds ==
    /\ \A s \in Scenarios : /\ s.poison \subseteq Messages
                            /\ DOMAIN s.podOf \subseteq Workers
                            /\ \A w \in DOMAIN s.podOf : s.podOf[w] \in Pods
                            /\ {s.outages, s.faults} \subseteq Nat
    /\ {MarkDelay, TailGrace, RetryUses, MaxDrops} \subseteq Nat

VARIABLES
    scen,       \* the scenario of this behaviour; never changes
    cass,       \* Cassandra: up or down
    stage,      \* each message: queued, busy, waiting for redelivery, done
    uses,       \* NumDelivered of a poison message, up to RetryUses
    marker,     \* the history_degradations document is present
    view,       \* degradeTracker.degraded and markerSynced, per pod
    failing,    \* age of firstFailureSince, or None
    tail,       \* age of drainTailSince, or None
    drops,      \* dropLimiter.count, per pod
    pc, msg,    \* each goroutine: its next step and its message
    refresh,    \* each pod's refresher: idle, or what its Get returned
    outages, faults

cluster == <<scen, outages, cass>>
tracker == <<view, failing, tail>>
stream == <<stage, uses>>
vars == <<cluster, stream, marker, tracker, drops, pc, msg, refresh, faults>>

-----------------------------------------------------------------------------
None == -1
podOf == scen.podOf
Running == DOMAIN podOf
NoMsg == "none"

Init ==
    /\ scen \in Scenarios
    /\ cass = "up"
    /\ stage = [m \in Messages |-> "done"] /\ uses = [m \in Messages |-> 0]
    /\ marker = FALSE
    /\ view = [p \in Pods |-> "healthy"]
    /\ failing = [p \in Pods |-> None] /\ tail = [p \in Pods |-> None]
    /\ drops = [p \in Pods |-> 0]
    /\ pc = [w \in Workers |-> "idle"] /\ msg = [w \in Workers |-> NoMsg]
    /\ refresh = [p \in Pods |-> "idle"]
    /\ outages = 0 /\ faults = 0

Fault == faults < scen.faults /\ faults' = faults + 1
Maybe(fault) == IF fault THEN Fault ELSE UNCHANGED faults

At(w, s) == pc[w] = s
Goto(w, s) == pc' = [pc EXCEPT ![w] = s] /\ UNCHANGED <<msg, stage>>
Settle(w, s) ==
    /\ pc' = [pc EXCEPT ![w] = "idle"]
    /\ msg' = [msg EXCEPT ![w] = NoMsg]
    /\ stage' = [stage EXCEPT ![msg[w]] = s]
Ack(w) == Settle(w, "done")
Nak(w) == Settle(w, "waiting")

-----------------------------------------------------------------------------
(* The environment: traffic, time, Cassandra.                              *)

Publish(m) ==
    /\ stage[m] = "done"
    /\ stage' = [stage EXCEPT ![m] = "queued"]
    /\ uses' = [uses EXCEPT ![m] = 0]
    /\ UNCHANGED <<cluster, marker, tracker, drops, pc, msg, refresh, faults>>

Older(age, limit) == IF age \in {None, limit} THEN age ELSE age + 1

\* A tick ends the limiter's window.
Tick ==
    /\ failing' = [p \in Pods |-> Older(failing[p], MarkDelay)]
    /\ tail' = [p \in Pods |-> Older(tail[p], TailGrace)]
    /\ drops' = [p \in Pods |-> 0]
    /\ UNCHANGED <<cluster, stream, marker, view, pc, msg, refresh, faults>>

Outage ==
    /\ cass = "up" /\ outages < scen.outages
    /\ cass' = "down" /\ outages' = outages + 1
    /\ UNCHANGED <<scen, stream, marker, tracker, drops, pc, msg, refresh,
                   faults>>

Recover ==
    /\ cass = "down"
    /\ cass' = "up"
    /\ UNCHANGED <<scen, outages, stream, marker, tracker, drops, pc, msg, refresh,
                   faults>>

-----------------------------------------------------------------------------
(* HandleJetStreamMsg and settle.                                          *)

Deliver(w, m) ==
    /\ w \in Running /\ At(w, "idle") /\ stage[m] \in {"queued", "waiting"}
    /\ stage' = [stage EXCEPT ![m] = "busy"]
    /\ uses' = [uses EXCEPT ![m] = IF m \in scen.poison /\ @ < RetryUses THEN @ + 1 ELSE @]
    /\ pc' = [pc EXCEPT ![w] = "write"] /\ msg' = [msg EXCEPT ![w] = m]
    /\ UNCHANGED <<cluster, marker, tracker, drops, refresh, faults>>

\* The history write.  While the cluster answers, it rejects a poison row for
\* good; anything else that goes wrong is infra class.
Write(w) ==
    /\ At(w, "write")
    /\ \/ cass = "up" /\ msg[w] \notin scen.poison /\ Goto(w, "written")
          /\ UNCHANGED faults
       \/ cass = "up" /\ msg[w] \in scen.poison /\ Goto(w, "rejected")
          /\ UNCHANGED faults
       \/ Goto(w, "failed") /\ Maybe(cass = "up")
    /\ UNCHANGED <<cluster, uses, marker, tracker, drops, refresh>>

\* Another of the handler's calls fails: no class, no marker, a NAK.
OtherFailure(w) ==
    /\ At(w, "write") /\ Fault
    /\ Nak(w)
    /\ UNCHANGED <<cluster, uses, marker, tracker, drops, refresh>>

\* A limiter whose window never rolls over to zero drops again.
DropWhenever(w) ==
    /\ At(w, "rejected")
    /\ Nak(w) /\ UNCHANGED drops
    /\ UNCHANGED <<cluster, uses, marker, tracker, refresh, faults>>

\* A request-class failure is retried for the window, then dropped unless the
\* pod has used up its drops; a refused drop is another NAK.  A drop whose Ack
\* fails is used up all the same, and the message comes back.
Reject(w) ==
    /\ At(w, "rejected")
    /\ \/ /\ uses[msg[w]] < RetryUses \/ drops[podOf[w]] >= MaxDrops
          /\ Nak(w) /\ UNCHANGED <<drops, faults>>
       \/ /\ uses[msg[w]] >= RetryUses /\ drops[podOf[w]] < MaxDrops
          /\ drops' = [drops EXCEPT ![podOf[w]] = @ + 1]
          /\ \/ Ack(w) /\ UNCHANGED faults
             \/ Nak(w) /\ Fault
    /\ UNCHANGED <<cluster, uses, marker, tracker, refresh>>

-----------------------------------------------------------------------------
(* degradeTracker.OnWriteFailure.                                          *)

\* A failure that takes a degraded site as already recorded.
OnWriteFailureOnce(w) ==
    LET p == podOf[w]
        age == IF failing[p] = None THEN 0 ELSE failing[p]
    IN  /\ At(w, "failed")
        /\ failing' = [failing EXCEPT ![p] = age]
        /\ tail' = [tail EXCEPT ![p] = None]
        /\ IF view[p] # "healthy" \/ age < MarkDelay
           THEN Nak(w) /\ UNCHANGED view
           ELSE view' = [view EXCEPT ![p] = "unsynced"] /\ Goto(w, "set")
        /\ UNCHANGED <<cluster, uses, marker, drops, refresh, faults>>

\* The first critical section: the debounce gates only the way into degraded.
OnWriteFailure(w) ==
    LET p == podOf[w]
        age == IF failing[p] = None THEN 0 ELSE failing[p]
        held == view[p] = "healthy" /\ age < MarkDelay
    IN  /\ At(w, "failed")
        /\ failing' = [failing EXCEPT ![p] = age]
        /\ tail' = [tail EXCEPT ![p] = None]
        /\ IF held \/ view[p] = "synced"
           THEN Nak(w) /\ UNCHANGED view
           ELSE view' = [view EXCEPT ![p] = "unsynced"] /\ Goto(w, "set")
        /\ UNCHANGED <<cluster, uses, marker, drops, refresh, faults>>

\* store.Set, which may fail having changed the document or not.
Set(w) ==
    /\ At(w, "set")
    /\ \/ marker' = TRUE /\ Goto(w, "confirm") /\ UNCHANGED faults
       \/ marker' \in {marker, TRUE} /\ Nak(w) /\ Fault
    /\ UNCHANGED <<cluster, uses, tracker, drops, refresh>>

\* The second critical section: a recovery that ran meanwhile is not undone.
Confirm(w) ==
    /\ At(w, "confirm")
    /\ \/ /\ view[podOf[w]] # "healthy"
          /\ view' = [view EXCEPT ![podOf[w]] = "synced"] /\ Nak(w)
       \/ view[podOf[w]] = "healthy" /\ Goto(w, "undo") /\ UNCHANGED view
    /\ UNCHANGED <<cluster, uses, marker, failing, tail, drops, refresh, faults>>

Undo(w) ==
    /\ At(w, "undo")
    /\ \/ marker' = FALSE /\ UNCHANGED faults
       \/ UNCHANGED marker /\ Fault
    /\ Nak(w)
    /\ UNCHANGED <<cluster, uses, tracker, drops, refresh>>

-----------------------------------------------------------------------------
(* degradeTracker.OnWriteSuccess, before the message is acked.             *)

\* The run of failures is over; a degraded pod looks at the backlog, unless it
\* did so less than backlogCheckInterval ago.
OnWriteSuccess(w) ==
    LET p == podOf[w]
    IN  /\ At(w, "written")
        /\ failing' = [failing EXCEPT ![p] = None]
        /\ \/ Ack(w)
           \/ view[p] # "healthy" /\ Goto(w, "backlog")
        /\ UNCHANGED <<cluster, uses, marker, view, tail, drops, refresh, faults>>

InStage(s) == {m \in Messages : stage[m] = s}

\* cons.Info: an undelivered backlog holds the marker.
Backlog(w) ==
    /\ At(w, "backlog")
    /\ \/ InStage("queued") # {} /\ Ack(w) /\ UNCHANGED faults
       \/ InStage("queued") = {} /\ Goto(w, "tail") /\ UNCHANGED faults
       \/ Ack(w) /\ Fault
    /\ UNCHANGED <<cluster, uses, marker, tracker, drops, refresh>>

\* A tail that must see every redelivery settled.
TailSettled(w) ==
    /\ At(w, "tail")
    /\ IF InStage("waiting") # {} THEN Ack(w) ELSE Goto(w, "clear")
    /\ UNCHANGED <<cluster, uses, marker, tracker, drops, refresh,
                   faults>>

\* drainTailGraceElapsed.  The message itself is not acked, so ackPending is
\* never zero here.
Tail(w) ==
    LET p == podOf[w]
    IN  /\ At(w, "tail")
        /\ tail' = [tail EXCEPT ![p] = IF @ = None THEN 0 ELSE @]
        /\ IF tail[p] = TailGrace THEN Goto(w, "clear") ELSE Ack(w)
        /\ UNCHANGED <<cluster, uses, marker, view, failing, drops, refresh,
                       faults>>

Clear(w) ==
    /\ At(w, "clear")
    /\ \/ marker' = FALSE /\ Goto(w, "healthy") /\ UNCHANGED faults
       \/ marker' \in {marker, FALSE} /\ Ack(w) /\ Fault
    /\ UNCHANGED <<cluster, uses, tracker, drops, refresh>>

\* setSynced(false).
Healthy(w) ==
    LET p == podOf[w]
    IN  /\ At(w, "healthy") /\ Ack(w)
        /\ view' = [view EXCEPT ![p] = "healthy"]
        /\ tail' = [tail EXCEPT ![p] = None]
        /\ UNCHANGED <<cluster, uses, marker, failing, drops, refresh, faults>>

-----------------------------------------------------------------------------
(* The refresher of a pod; crashes.                                        *)

RefreshGet(p) ==
    /\ refresh[p] = "idle" /\ view[p] # "unsynced"
    /\ \E w \in Running : podOf[w] = p
    /\ refresh' = [refresh EXCEPT ![p] = IF marker THEN "present" ELSE "absent"]
    /\ UNCHANGED <<cluster, stream, marker, tracker, drops, pc, msg, faults>>

Adopted(p) == IF refresh[p] = "present" THEN "synced" ELSE "healthy"

\* The adoption of a read without the second look at the local state.
RefreshAdoptStale(p) ==
    /\ refresh[p] # "idle"
    /\ refresh' = [refresh EXCEPT ![p] = "idle"]
    /\ view' = [view EXCEPT ![p] = Adopted(p)]
    /\ UNCHANGED <<cluster, stream, marker, failing, tail, drops, pc, msg, faults>>

RefreshAdopt(p) ==
    /\ refresh[p] # "idle"
    /\ refresh' = [refresh EXCEPT ![p] = "idle"]
    /\ IF view[p] = "unsynced" THEN UNCHANGED <<view, tail>>
       ELSE /\ view' = [view EXCEPT ![p] = Adopted(p)]
            /\ tail' = [tail EXCEPT ![p] = IF refresh[p] = "present" THEN @ ELSE None]
    /\ UNCHANGED <<cluster, stream, marker, failing, drops, pc, msg, faults>>

Crash(p) ==
    LET gone == {w \in Running : podOf[w] = p /\ ~At(w, "idle")}
    IN  /\ gone # {} /\ Fault
        /\ view' = [view EXCEPT ![p] = "healthy"]
        /\ failing' = [failing EXCEPT ![p] = None]
        /\ tail' = [tail EXCEPT ![p] = None]
        /\ drops' = [drops EXCEPT ![p] = 0]
        /\ refresh' = [refresh EXCEPT ![p] = "idle"]
        /\ stage' = [m \in Messages |->
                        IF \E w \in gone : msg[w] = m THEN "waiting" ELSE stage[m]]
        /\ pc' = [w \in Workers |-> IF w \in gone THEN "idle" ELSE pc[w]]
        /\ msg' = [w \in Workers |-> IF w \in gone THEN NoMsg ELSE msg[w]]
        /\ UNCHANGED <<cluster, uses, marker>>

-----------------------------------------------------------------------------
Handle(w) ==
    \/ Write(w) \/ Reject(w)
    \/ OnWriteFailure(w) \/ Set(w) \/ Confirm(w) \/ Undo(w)
    \/ OnWriteSuccess(w) \/ Backlog(w) \/ Tail(w) \/ Clear(w) \/ Healthy(w)

Next ==
    \/ \E m \in Messages : Publish(m)
    \/ Tick \/ Outage \/ Recover
    \/ \E w \in Workers, m \in Messages : Deliver(w, m)
    \/ \E w \in Workers : Handle(w) \/ OtherFailure(w)
    \/ \E p \in Pods : RefreshGet(p) \/ RefreshAdopt(p) \/ Crash(p)

Spec == Init /\ [][Next]_vars

\* Goroutines and tickers run, JetStream redelivers, messages keep coming.
\* Nothing makes Cassandra recover.
Fairness ==
    /\ WF_vars(Tick)
    /\ \A m \in Messages : /\ WF_vars(Publish(m))
                           /\ SF_vars(\E w \in Workers : Deliver(w, m))
    /\ \A w \in Workers : WF_vars(Handle(w))
    /\ \A p \in Pods : WF_vars(RefreshGet(p)) /\ WF_vars(RefreshAdopt(p))
FairSpec == Spec /\ Fairness

-----------------------------------------------------------------------------
\* Types, and that a busy message is in exactly one goroutine's hands.
TypeOK ==
    /\ scen \in Scenarios /\ cass \in {"up", "down"}
    /\ stage \in [Messages -> {"queued", "busy", "waiting", "done"}]
    /\ uses \in [Messages -> 0..RetryUses]
    /\ marker \in BOOLEAN /\ view \in [Pods -> {"healthy", "unsynced", "synced"}]
    /\ failing \in [Pods -> {None} \cup (0..MarkDelay)]
    /\ tail \in [Pods -> {None} \cup (0..TailGrace)]
    /\ drops \in [Pods -> 0..MaxDrops]
    /\ pc \in [Workers -> {"idle", "write", "written", "rejected", "failed", "set",
                           "confirm", "undo", "backlog", "tail", "clear", "healthy"}]
    /\ msg \in [Workers -> Messages \cup {NoMsg}]
    /\ refresh \in [Pods -> {"idle", "present", "absent"}]
    /\ faults \in 0..scen.faults
    /\ \A m \in Messages : stage[m] = "busy" <=>
          Cardinality({w \in Workers : msg[w] = m}) = 1

\* A local degrade whose marker write is outstanding is never reverted by a
\* read of the shared marker: it ends with a successful Set, with a recovery of
\* this pod, or with the pod (OnWriteFailure against Refresh).
UnsyncedHolds ==
    [][\A p \in Pods : view[p] = "unsynced" /\ view'[p] # "unsynced" =>
          refresh'[p] = refresh[p] \/ faults' > faults]_vars

\* Cassandra gone for good is announced, and again after every undone marker,
\* whatever races, lost marker writes and crashes came before.
OutageAnnounced == <>[](cass = "down") => []<>marker

\* OnWriteFailure takes a marker back only after a recovery raced its Set: where
\* no write succeeds, none is undone.
Recovering == \E w \in Workers :
                 pc[w] \in {"written", "backlog", "tail", "clear", "healthy"}
UndoneAfterRecovery == []~Recovering => [](\A w \in Workers : ~At(w, "undo"))

\* A marker never outlives its outage for ever: with Cassandra back it is gone
\* again and again, if the backlog is found empty again and again, even when a
\* row that cannot be written keeps the redelivery set from emptying.
BacklogEmpty == \E w \in Workers : Backlog(w) /\ pc'[w] = "tail"
MarkerClears ==
    <>[](cass = "up") /\ []<><<BacklogEmpty>>_vars => []<>(~marker)

\* Every message is settled once Cassandra is back: written, or given up when it
\* is a row Cassandra rejects, also one whose drop the limiter refused.
EverySettles ==
    <>[](cass = "up") => \A m \in Messages : []<>(stage[m] = "done")
=============================================================================
