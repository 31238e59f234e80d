-------------------------- MODULE MCHistoryMarker --------------------------
(* Instances of HistoryMarker for TLC. *)
EXTENDS HistoryMarker, TLC

MCMessages == {"m1", "m2"}
MCWorkers == {"w1", "w2"}
MCPods == {"p1", "p2"}

Scen(place, bad, down, faulty) ==
    [podOf |-> place, poison |-> bad, outages |-> down, faults |-> faulty]

(* Two goroutines of one pod; one in each of two pods; one goroutine with a row *)
(* that cannot be written.                                                      *)
MCScenarios ==
    {Scen([w \in MCWorkers |-> "p1"], {}, 1, 1),
     Scen("w1" :> "p1" @@ "w2" :> "p2", {}, 1, 0),
     Scen("w1" :> "p1", {"m2"}, 2, 1)}
=============================================================================
