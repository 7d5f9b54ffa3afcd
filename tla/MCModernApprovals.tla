------------------------- MODULE MCModernApprovals -------------------------
(* Instances of ModernApprovals for TLC.                                   *)
EXTENDS ModernApprovals, TLC

\* Tokens, requests, scopes, definitions and servers are interchangeable.
Symmetric == Permutations(Tokens) \cup Permutations(Reqs) \cup Permutations(Scopes)
             \cup Permutations(Defs) \cup Permutations(Owners)
=============================================================================
