--------------------------- MODULE MCChildLedger ---------------------------
(* Instances of ChildLedger for TLC.                                       *)
EXTENDS ChildLedger, TLC

\* No action tells two gateways, servers or strangers apart.
Symmetric == Permutations(Gateways) \cup Permutations(Servers) \cup Permutations(Strangers)
=============================================================================
