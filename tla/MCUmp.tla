------------------------------- MODULE MCUmp -------------------------------
(* Small instances of a kbfish channel for TLC. *)
EXTENDS Ump
=============================================================================
