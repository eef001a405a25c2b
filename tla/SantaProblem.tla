---------------------------- MODULE SantaProblem ----------------------------
(***************************************************************************)
(* What the hut of cw09/zad1 promises, without mutexes, flags, counters    *)
(* or condition variables: workers of two kinds queue for Santa, Santa     *)
(* serves a complete group and only a complete group, one group at a time, *)
(* and every member of it is released once.                                *)
(***************************************************************************)
EXTENDS Integers, FiniteSets

CONSTANTS Reindeer, Elf, TrioSize

VARIABLES
  queued,    \* the workers of each kind that wait in the hut
  served,    \* the members of the group being served not yet released
  released   \* the workers that may go but are still in the hut

vars == <<queued, served, released>>

Kinds == {"elf", "reindeer"}
Members(k) == IF k = "elf" THEN Elf ELSE Reindeer
Quorum(k)  == IF k = "elf" THEN TrioSize ELSE Cardinality(Reindeer)

Init ==
  /\ queued = [k \in Kinds |-> {}]
  /\ served = [k \in Kinds |-> {}]
  /\ released = {}

\* A worker joins while its group is incomplete and not being served.
Join(k, w) ==
  /\ w \in Members(k) \ (queued[k] \cup released)
  /\ served[k] = {}
  /\ Cardinality(queued[k]) < Quorum(k)
  /\ queued' = [queued EXCEPT ![k] = @ \cup {w}]
  /\ UNCHANGED <<served, released>>

\* Santa takes a whole group, and is busy with it until all are released.
Serve(k) ==
  /\ \A j \in Kinds : served[j] = {}
  /\ Cardinality(queued[k]) = Quorum(k)
  /\ served' = [served EXCEPT ![k] = queued[k]]
  /\ queued' = [queued EXCEPT ![k] = {}]
  /\ UNCHANGED released

Release(k, w) ==
  /\ w \in served[k]
  /\ served' = [served EXCEPT ![k] = @ \ {w}]
  /\ released' = released \cup {w}
  /\ UNCHANGED queued

GoBack(w) ==
  /\ w \in released
  /\ released' = released \ {w}
  /\ UNCHANGED <<queued, served>>

Next ==
  \/ \E k \in Kinds : Serve(k) \/ \E w \in Members(k) : Join(k, w) \/ Release(k, w)
  \/ \E w \in Elf \cup Reindeer : GoBack(w)

Spec == Init /\ [][Next]_vars
=============================================================================
