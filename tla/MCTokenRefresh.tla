--------------------------- MODULE MCTokenRefresh ---------------------------
(* Instances of TokenRefresh for TLC.                                      *)
EXTENDS TokenRefresh, TLC

\* Gateways are interchangeable.
Symmetric == Permutations(Gateways)
=============================================================================
