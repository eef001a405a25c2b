------------------------------- MODULE MCLabs -------------------------------
(* The small programs with the constants of Labs.cfg. *)
EXTENDS Labs, TLC
=============================================================================
