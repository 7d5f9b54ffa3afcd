------------------------ MODULE MCDownstreamBackoff ------------------------
(* Instances of DownstreamBackoff for TLC.                                 *)
EXTENDS DownstreamBackoff, TLC

Symmetric == Permutations(Procs) \cup Permutations(Origins)
=============================================================================
