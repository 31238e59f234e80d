----------------------------- MODULE MCPresence -----------------------------
(* Presence with three kinds of account: one with two devices that report    *)
(* inactivity; one with two devices whose requests are served at once; and   *)
(* one with a single device, an override and Teams calls.                    *)
EXTENDS Presence

CONSTANTS c1, c2, h1, h2

MCConns == {c1, c2}
MCHandlers == {h1, h2}
MCAccounts ==
    {[conns |-> {c1, c2}, manuals |-> {}, idles |-> TRUE, calls |-> FALSE,
      handlers |-> {h1}, faults |-> 1],
     [conns |-> {c1, c2}, manuals |-> {}, idles |-> FALSE, calls |-> FALSE,
      handlers |-> {h1, h2}, faults |-> 0],
     [conns |-> {c1}, manuals |-> {"appear_offline", None}, idles |-> FALSE, calls |-> TRUE,
      handlers |-> {h1}, faults |-> 1]}
=============================================================================
