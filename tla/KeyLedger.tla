------------------------------ MODULE KeyLedger ------------------------------
(***************************************************************************)
(* What the encryption key of a channel room promises its members: the     *)
(* versions 0, 1, 2, ... are issued one after the other, the bytes of a    *)
(* version are chosen once and never change, and nobody is ever sent a     *)
(* (version, bytes) pair that was not issued.                              *)
(***************************************************************************)
EXTENDS Naturals, Sequences

CONSTANTS Accounts, Secrets

VARIABLES
  ledger,   \* the bytes issued so far; version v is ledger[v + 1]
  held      \* the pairs sent to every account

Issued == {[ver |-> v - 1, secret |-> ledger[v]] : v \in 1..Len(ledger)}

Init ==
  /\ ledger \in Seq(Secrets) /\ Len(ledger) <= 1
  /\ held \in [Accounts -> {{}, Issued}]

Issue ==
  /\ ledger' \in Seq(Secrets) /\ Len(ledger') = Len(ledger) + 1
  /\ SubSeq(ledger', 1, Len(ledger)) = ledger
  /\ \A v \in 1..Len(ledger) : ledger[v] # ledger'[Len(ledger')]
  /\ UNCHANGED held

Send ==
  /\ \A a \in Accounts : held[a] \subseteq held'[a] /\ held'[a] \subseteq held[a] \cup Issued
  /\ UNCHANGED ledger

Spec == Init /\ [][Issue \/ Send]_<<ledger, held>>
=============================================================================
