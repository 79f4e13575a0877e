------------------------------- MODULE MCUrpc -------------------------------
(* Small instances of an acceptor and its learners over URPC for TLC. *)
EXTENDS Urpc
=============================================================================
