------------------------------ MODULE MCBarber ------------------------------
(* Instances of Barber for TLC. *)
EXTENDS Barber, TLC
=============================================================================
