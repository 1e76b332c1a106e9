------------------------------ MODULE MCDaemon ------------------------------
(***************************************************************************)
(* Two terminals; three starts of the CLI, or two and a reroll: a client   *)
(* can stop or lose the daemon, come back, and find it running for the     *)
(* other.                                                                  *)
(***************************************************************************)
EXTENDS Daemon

CONSTANTS c1, c2
=============================================================================
