-------------------------- MODULE MCIntegrityStores --------------------------
(* Instances of IntegrityStores for TLC.                                   *)
EXTENDS IntegrityStores
=============================================================================
