------------------------------- MODULE MCChat -------------------------------
\* Chat on small instances; clients are interchangeable.
EXTENDS Chat, TLC

Symmetry == Permutations(Client)
=============================================================================
