------------------------------- MODULE Barber -------------------------------
(***************************************************************************)
(* The sleeping barber of cw07: zad1 with System V semaphores, zad2 with   *)
(* POSIX semaphores.  main forks one client process after the other; the   *)
(* clients share a ring buffer of ids, guarded by a std::mutex, and three  *)
(* pools, which are counting semaphores.  The two programs differ in the   *)
(* pools only; the variable program tells which of them is running.        *)
(*                                                                         *)
(* The std::mutex lies in memory shared by processes, which std::mutex is  *)
(* not made for.  It excludes correctly, but a process that goes to sleep  *)
(* on it is woken only by its own threads: Doze is that outcome.           *)
(***************************************************************************)
EXTENDS Integers, FiniteSets

CONSTANTS
  MaxClients,         \* bound of the model: main forks clients for ever
  Main,               \* the process that forks the clients
  Nobody,             \* the mutex is free
  WaitingRoom,        \* WAITING_ROOM, also the size of the ring
  Barbers,            \* BARBERS
  Chairs,             \* BARBER_CHAIRS
  Programs,           \* of "zad1" and "zad2", those that may be run
  StaleStart,         \* earlier runs were killed and left their semaphores
  MayDoze,            \* a contended mutex may put a client to sleep for good
  MaxInterrupts       \* bound of the model: how many processes SIGINT may reach

ASSUME BarberAssumption ==
  /\ {MaxClients, WaitingRoom, Barbers, Chairs} \subseteq Nat \ {0}
  /\ Nobody \notin Nat /\ Main \notin Nat
  /\ MaxInterrupts \in Nat
  /\ Programs \subseteq {"zad1", "zad2"}
  /\ {StaleStart, MayDoze} \subseteq BOOLEAN

VARIABLES
  program,     \* the one of the two programs that runs
  forked,      \* the number of clients forked so far, the id of the next one
  pc,          \* what each client is about to do
  mutex,       \* the client that holds the ring's mutex
  data, first, last,  \* the ring: Queue_FIFO
  free,        \* the value of each semaphore
  removed,     \* the pools whose System V semaphore has been removed
  killed       \* the processes that SIGINT has ended

vars == <<program, forked, pc, mutex, data, first, last, free, removed, killed>>
ring == <<data, first, last>>

Client == 0..(MaxClients - 1)
Pools  == {"waitroom", "barber", "seat"}
Capacity == [waitroom |-> WaitingRoom, barber |-> Barbers, seat |-> Chairs]

\* semctl(SETVAL) resets a semaphore that exists; sem_open(O_CREAT) ignores
\* the given value and keeps the one it finds.
InitialValue(p) == IF StaleStart /\ program = "zad2" THEN 0..Capacity[p] ELSE {Capacity[p]}

Init ==
  /\ program \in Programs
  /\ forked = 0
  /\ pc = [c \in Client |-> "unborn"]
  /\ mutex = Nobody
  /\ data = [i \in 0..(WaitingRoom - 1) |-> 0]
  /\ first = 0
  /\ last = 0
  /\ free \in [Pools -> 0..(WaitingRoom + Barbers + Chairs)]
  /\ \A p \in Pools : free[p] \in InitialValue(p)
  /\ removed = {}
  /\ killed = {}

-----------------------------------------------------------------------------
(* The pools.                                                              *)

\* Mutant: a place is taken without a look at the semaphore.
TakePlaceAnyway(p) == free' = [free EXCEPT ![p] = @ - 1]

\* The blocking takePlace ignores the result of semop: once the semaphore
\* is gone it returns at once, without a place.
TakePlace(p) ==
  \/ p \notin removed /\ free[p] > 0 /\ free' = [free EXCEPT ![p] = @ - 1]
  \/ p \in removed /\ UNCHANGED free

\* Mutant: the place is not given back.
KeepPlace(p) == UNCHANGED free

ReleasePlace(p) == free' = IF p \in removed THEN free ELSE [free EXCEPT ![p] = @ + 1]

-----------------------------------------------------------------------------
(* The ring.                                                               *)

\* Mutant: the index does not wrap.
SuccUnbounded(i) == i + 1

Succ(i) == (i + 1) % WaitingRoom

Push(v) ==
  /\ data' = [data EXCEPT ![last] = v]
  /\ last' = Succ(last)
  /\ UNCHANGED first

\* Mutants: the newest id is looked at; the popped id stays at the head.
PeekLast == data[(last + WaitingRoom - 1) % WaitingRoom]
PopNothing == UNCHANGED ring

Peek == data[first]

Pop == first' = Succ(first) /\ UNCHANGED <<data, last>>

-----------------------------------------------------------------------------
(* A client.                                                               *)

Alive(c) == c \notin killed

\* c moves on from the label it is at to another one.
Goto(c, from, to) ==
  /\ Alive(c)
  /\ pc[c] = from
  /\ pc' = [pc EXCEPT ![c] = to]
  /\ UNCHANGED <<program, forked, killed, removed>>

TakeWaitroom(c) ==
  /\ Goto(c, "arrive", "lock_push")
  /\ "waitroom" \notin removed
  /\ TakePlace("waitroom")
  /\ UNCHANGED <<mutex, ring>>

\* The non-blocking takePlace fails, for want of a place or of a semaphore.
TurnAway(c) ==
  /\ Goto(c, "arrive", "turned_away")
  /\ "waitroom" \in removed \/ free["waitroom"] = 0
  /\ UNCHANGED <<mutex, ring, free>>

LockRing(c) ==
  /\ Goto(c, "lock_push", "push") \/ Goto(c, "lock_peek", "peek")
  /\ mutex = Nobody
  /\ mutex' = c
  /\ UNCHANGED <<ring, free>>

\* The mutex is taken, the client sleeps, and nobody can wake it.
Doze(c) ==
  /\ MayDoze
  /\ Goto(c, "lock_push", "doze_push") \/ Goto(c, "lock_peek", "doze_peek")
  /\ mutex # Nobody
  /\ UNCHANGED <<mutex, ring, free>>

PushId(c) ==
  /\ Goto(c, "push", "lock_peek")
  /\ Push(c)
  /\ mutex' = Nobody
  /\ UNCHANGED free

\* It is the client's turn: it takes itself out of the ring.
PopId(c) ==
  /\ Goto(c, "peek", "barber")
  /\ Peek = c
  /\ Pop
  /\ mutex' = Nobody
  /\ UNCHANGED free

\* It is not: the lock is released and the loop starts over.
LookAgain(c) ==
  /\ Goto(c, "peek", "lock_peek")
  /\ Peek # c
  /\ mutex' = Nobody
  /\ UNCHANGED <<ring, free>>

TakeBarber(c) ==
  Goto(c, "barber", "seat") /\ TakePlace("barber") /\ UNCHANGED <<mutex, ring>>

TakeSeat(c) ==
  Goto(c, "seat", "seated") /\ TakePlace("seat") /\ UNCHANGED <<mutex, ring>>

\* The place in the waiting room is kept until here.
LeaveWaitroom(c) ==
  Goto(c, "seated", "cut") /\ ReleasePlace("waitroom") /\ UNCHANGED <<mutex, ring>>

LeaveSeat(c) ==
  Goto(c, "cut", "pay") /\ ReleasePlace("seat") /\ UNCHANGED <<mutex, ring>>

LeaveBarber(c) ==
  Goto(c, "pay", "gone") /\ ReleasePlace("barber") /\ UNCHANGED <<mutex, ring>>

-----------------------------------------------------------------------------
(* main, and SIGINT.                                                       *)

Fork ==
  /\ Main \notin killed
  /\ forked < MaxClients
  /\ forked' = forked + 1
  /\ pc' = [pc EXCEPT ![forked] = "arrive"]
  /\ UNCHANGED <<program, mutex, ring, free, removed, killed>>

Exited == {"gone", "turned_away"}

Running(p) == IF p = Main THEN TRUE ELSE pc[p] \notin Exited \cup {"unborn"}

\* Every process has the handler, which destroys the pools and exits.  A client
\* that dies inside the section leaves the mutex locked.
Interrupt(p) ==
  /\ Cardinality(killed) < MaxInterrupts
  /\ p \notin killed
  /\ Running(p)
  /\ killed' = killed \cup {p}
  /\ UNCHANGED <<program, forked, pc, mutex, ring, free, removed>>

\* A handler destroys the next pool.  Removal ends a System V semaphore for
\* all; unlinking a POSIX one ends only its name.
DestroyPool ==
  /\ program = "zad1"
  /\ killed # {}
  /\ \E p \in Pools \ removed :
       /\ p = "barber" => "waitroom" \in removed
       /\ p = "seat" => "barber" \in removed
       /\ removed' = removed \cup {p}
  /\ UNCHANGED <<program, forked, pc, mutex, ring, free, killed>>

ClientStep(c) ==
  \/ TakeWaitroom(c) \/ TurnAway(c)
  \/ LockRing(c) \/ PushId(c) \/ PopId(c) \/ LookAgain(c)
  \/ TakeBarber(c) \/ TakeSeat(c)
  \/ LeaveWaitroom(c) \/ LeaveSeat(c) \/ LeaveBarber(c)

\* The model's last client has left.
Finished == forked = MaxClients /\ (\A c \in Client : pc[c] \in Exited) /\ UNCHANGED vars

Next ==
  \/ Fork
  \/ \E c \in Client : ClientStep(c) \/ Doze(c)
  \/ \E p \in Client \cup {Main} : Interrupt(p)
  \/ DestroyPool
  \/ Finished

\* A process that can go on is scheduled.  Nothing is assumed of the mutex: a
\* client that finds another one's id at the head holds the lock while it calls
\* sleep(0), unlocks, and may lock again before anybody else.
Fairness == \A c \in Client : WF_vars(ClientStep(c))

Spec == Init /\ [][Next]_vars
FairSpec == Spec /\ Fairness

-----------------------------------------------------------------------------
(* Properties.                                                             *)

Labels == {"unborn", "arrive", "lock_push", "doze_push", "push", "lock_peek",
           "doze_peek", "peek", "barber", "seat", "seated", "cut", "pay"}
            \cup Exited

TypeOK ==
  /\ program \in Programs
  /\ forked \in 0..MaxClients
  /\ pc \in [Client -> Labels]
  /\ mutex \in Client \cup {Nobody}
  /\ data \in [0..(WaitingRoom - 1) -> Client]
  /\ {first, last} \subseteq 0..(WaitingRoom - 1)
  /\ free \in [Pools -> Nat]
  /\ removed \subseteq Pools
  /\ killed \subseteq Client \cup {Main}

InRing == {c \in Client : pc[c] \in {"lock_peek", "doze_peek", "peek"}}

\* The clients that have a place of a pool.
Holders(p) ==
  {c \in Client :
     pc[c] \in CASE p = "waitroom" -> {"lock_push", "doze_push", "push", "lock_peek",
                                       "doze_peek", "peek", "barber", "seat", "seated"}
                 [] p = "barber"   -> {"seat", "seated", "cut", "pay"}
                 [] p = "seat"     -> {"seated", "cut"}}

\* Nobody is served beyond the capacity of a pool while its semaphore exists:
\* in particular no more haircuts than chairs (main.cpp:119-128).
WithinCapacity ==
  \A p \in Pools \ removed : Cardinality(Holders(p)) <= Capacity[p]

\* The ring holds exactly the ids of the waiting clients, each once, between
\* first and last: push has no test for a full ring, and relies on the place
\* of the waiting room being released after the pop (main.cpp:103-124,
\* queue.h:13-24).
RingFaithful ==
  LET n == Cardinality(InRing)
  IN  /\ n <= WaitingRoom
      /\ last = (first + n) % WaitingRoom
      /\ InRing = {data[(first + i) % WaitingRoom] : i \in 0..(n - 1)}

\* Places are neither lost nor made: what a semaphore counts and what the
\* clients hold always adds up to what it started with.
PlacesConserved ==
  [][\A p \in Pools \ removed' :
       free'[p] + Cardinality(Holders(p)') = free[p] + Cardinality(Holders(p))]_vars

\* The places of a pool that were in the hands of those SIGINT has ended.
Lost(p) == Cardinality(Holders(p) \cap killed)

\* A client that is called gets its haircut, although it holds a place of the
\* waiting room while it waits for a barber and a barber while it waits for a
\* chair: nobody waits for those behind.  It is so with the semaphores of an
\* earlier run as well, unless that run or SIGINT has left no barber or no chair
\* (main.cpp:119-128).
CalledIsServed ==
  \A barbers \in 1..Barbers, chairs \in 1..Chairs :
    free["barber"] = barbers /\ free["seat"] = chairs =>
      \A c \in Client :
        pc[c] = "barber" ~>
          \/ pc[c] = "gone"
          \/ c \in killed
          \/ Lost("barber") >= barbers
          \/ Lost("seat") >= chairs

-----------------------------------------------------------------------------
(* The programs implement BarberShop, as long as their semaphores exist.   *)

Shop == INSTANCE BarberShop WITH
  queue  <- [i \in 1..Cardinality(InRing) |-> data[(first + i - 1) % WaitingRoom]],
  called <- {c \in Client : pc[c] \in {"barber", "seat"}},
  seated <- Holders("seat"),
  past   <- {c \in Client : pc[c] \in {"pay", "gone"}}

ShopVars == Shop!vars

\* Clients are called in the order in which they queued up, although each of
\* them only looks for its own id, and a chair is never taken twice, whatever
\* happens before the first semaphore is removed (main.cpp:91-131).
ImplementsShop == Shop!Init /\ [][Shop!Next \/ removed # {}]_ShopVars
=============================================================================
