---------------------------- MODULE MCRateLimits ----------------------------
(* An instance of RateLimits for TLC.                                      *)
EXTENDS RateLimits, TLC

CONSTANTS plain, special, all

\* One tool has a monthly cap of its own; two caps share the daily counter.
MCScopesOf == [t \in {plain, special} |-> IF t = special THEN {all, special} ELSE {all}]
MCCaps == {[window |-> "day", scope |-> all, max |-> 1],
           [window |-> "day", scope |-> all, max |-> 2],
           [window |-> "month", scope |-> special, max |-> 2]}

Symmetric == Permutations(Procs)
=============================================================================
