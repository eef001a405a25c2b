----------------------------- MODULE BarberShop -----------------------------
(***************************************************************************)
(* What the barber's shop of cw07 promises, without semaphores, ring or    *)
(* mutex: the waiting room is never crowded, its clients are called in the *)
(* order in which they queued up, and no chair is taken twice.             *)
(***************************************************************************)
EXTENDS Integers, Sequences, FiniteSets

CONSTANTS Client, WaitingRoom, Chairs

VARIABLES
  queue,    \* the clients that wait to be called
  called,   \* the clients that have been called but still wait for a chair
  seated,   \* the clients in a chair
  past      \* the clients that have left their chair

vars == <<queue, called, seated, past>>

Queued == {queue[i] : i \in 1..Len(queue)}

Init == queue = <<>> /\ called = {} /\ seated = {} /\ past = {}

QueueUp(c) ==
  /\ c \notin Queued \cup called \cup seated \cup past
  /\ Len(queue) + Cardinality(called) < WaitingRoom
  /\ queue' = Append(queue, c)
  /\ UNCHANGED <<called, seated, past>>

CallNext ==
  /\ queue # <<>>
  /\ called' = called \cup {Head(queue)}
  /\ queue' = Tail(queue)
  /\ UNCHANGED <<seated, past>>

SitDown(c) ==
  /\ c \in called
  /\ Cardinality(seated) < Chairs
  /\ called' = called \ {c}
  /\ seated' = seated \cup {c}
  /\ UNCHANGED <<queue, past>>

GetUp(c) ==
  /\ c \in seated
  /\ seated' = seated \ {c}
  /\ past' = past \cup {c}
  /\ UNCHANGED <<queue, called>>

Next == CallNext \/ \E c \in Client : QueueUp(c) \/ SitDown(c) \/ GetUp(c)

Spec == Init /\ [][Next]_vars
=============================================================================
