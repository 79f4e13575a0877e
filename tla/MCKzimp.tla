------------------------------ MODULE MCKzimp ------------------------------
(* Small instances of the kzimp channel for TLC. *)
EXTENDS Kzimp, TLC

CONSTANTS r1, r2, r3, w1, w2
=============================================================================
