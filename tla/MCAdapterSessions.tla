-------------------------- MODULE MCAdapterSessions --------------------------
(* Instances of AdapterSessions for TLC.                                   *)
EXTENDS AdapterSessions
=============================================================================
