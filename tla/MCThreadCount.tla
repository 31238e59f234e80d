--------------------------- MODULE MCThreadCount ---------------------------
(***************************************************************************)
(* Small instances of ThreadCount: threads of up to three replies with     *)
(* scan limits 2 and 4, so that a read may stop early, may be skipped, and *)
(* may reach the end; one of the replies is also sent to the channel.      *)
(***************************************************************************)
EXTENDS ThreadCount, TLC

CONSTANTS w1, w2

MCWorkers == {w1, w2}
Symmetry == Permutations(MCWorkers)
MCReplies == 1..3
MCTShow == {2}

D(r, k) == [op |-> "delete", r |-> r, k |-> k]
E(r) == [op |-> "edit", r |-> r, k |-> 1]
S(workers, scan, budget, rowLimit, cipher, replies, asked) ==
    [workers |-> workers, scan |-> scan, budget |-> budget,
     rowLimit |-> rowLimit, cipher |-> cipher, replies |-> replies,
     asks |-> asked]

MCScenarios ==
    { S(1, 4, 0, 0, FALSE, 1..3, {D(2, 1), D(3, 1), D(3, 2)}),
      S(1, 2, 0, 0, FALSE, 1..3, {D(1, 1), D(2, 1), D(3, 1)}),
      S(1, 2, 0, 2, FALSE, 1..3, {D(2, 1), D(3, 1), D(3, 2)}),
      S(1, 2, 1, 0, FALSE, 1..3, {D(2, 1), D(3, 1)}),
      S(1, 2, 2, 2, FALSE, 1..3, {D(2, 1), D(3, 1)}),
      S(2, 4, 0, 0, FALSE, 1..2, {E(2), D(2, 1), D(2, 2)}),
      S(2, 4, 0, 0, TRUE, 1..2, {E(2), D(2, 1)}),
      S(2, 2, 1, 0, FALSE, 1..3, {D(1, 1)}) }
=============================================================================
