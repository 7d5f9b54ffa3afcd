-------------------------- MODULE MCApprovalBroker --------------------------
(* Instances of ApprovalBroker for TLC.                                    *)
EXTENDS ApprovalBroker, TLC

\* Calls, apps and definitions are interchangeable.
Symmetric == Permutations(Calls) \cup Permutations(Apps) \cup Permutations(Defs)
=============================================================================
