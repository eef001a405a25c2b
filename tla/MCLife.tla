------------------------------- MODULE MCLife -------------------------------
(* Instances of Life for TLC. *)
EXTENDS Life, TLC
=============================================================================
