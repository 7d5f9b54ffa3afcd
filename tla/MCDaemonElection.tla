-------------------------- MODULE MCDaemonElection --------------------------
(* Instances of DaemonElection for TLC.                                    *)
EXTENDS DaemonElection
=============================================================================
