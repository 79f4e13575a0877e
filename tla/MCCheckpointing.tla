--------------------------- MODULE MCCheckpointing --------------------------
(* Small instances of the checkpointing application for TLC. *)
EXTENDS Checkpointing
=============================================================================
