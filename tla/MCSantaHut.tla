----------------------------- MODULE MCSantaHut -----------------------------
(* Instances of SantaHut for TLC. *)
EXTENDS SantaHut, TLC

Symmetry == Permutations(Reindeer) \cup Permutations(Elf)
=============================================================================
