------------------------- MODULE MCServerSupervisor -------------------------
(* Instance of ServerSupervisor for TLC.                                   *)
EXTENDS ServerSupervisor
CONSTANTS c1, c2, r0, r1, r2

\* Two callers where the root stays, one where it moves back and forth.
Both == [r \in Roots |-> IF r = r0 THEN {c1, c2} ELSE {c1}]
Onward == {<<r1, r2>>}
=============================================================================
