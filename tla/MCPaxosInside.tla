---------------------------- MODULE MCPaxosInside ---------------------------
(* Small instances of PaxosInside over ULM for TLC. *)
EXTENDS PaxosInside
=============================================================================
