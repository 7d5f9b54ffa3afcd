-------------------------- MODULE MCRegistryStore --------------------------
(* Instances of RegistryStore for TLC: an older build, a newer one, and a  *)
(* gateway of a build between them.                                        *)
EXTENDS RegistryStore

CONSTANTS old, new

MCWriters == {old, new}
MCBuild == [p \in {old, new, Gateway} |-> IF p = old THEN 1 ELSE IF p = new THEN 3 ELSE 2]
=============================================================================
