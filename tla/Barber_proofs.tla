---------------------------- MODULE Barber_proofs ----------------------------
(***************************************************************************)
(* Proofs about Barber, for any number of clients and places, for both     *)
(* programs, with stale semaphores, dozing clients and interrupts.         *)
(*                                                                         *)
(* The argument has two halves.  The pools: what a semaphore counts and    *)
(* what the clients hold adds up to at most the capacity, as long as the   *)
(* semaphore exists (Balanced); the waiting room stays bounded even after  *)
(* that, because the non-blocking takePlace fails then.  The ring: a       *)
(* client that pushes has a place and is not yet in the ring, so the ring  *)
(* has room for its id (RingFaithful), and the ids in it differ            *)
(* (RingDistinct), so that a pop takes out one client and no more.         *)
(***************************************************************************)
EXTENDS Barber, FiniteSetTheorems, SequenceTheorems, TLAPS

\* A client that has not been forked has not taken a step.
Unforked == \A c \in Client : c >= forked => pc[c] = "unborn"

\* The semaphores never promise more places than there are: a stale one may
\* promise fewer.
Balanced ==
  /\ \A p \in Pools \ removed : free[p] + Cardinality(Holders(p)) <= Capacity[p]
  /\ Cardinality(Holders("waitroom")) <= WaitingRoom

\* No id is in the ring twice.
RingDistinct ==
  \A i, j \in 0..(Cardinality(InRing) - 1) :
    data[(first + i) % WaitingRoom] = data[(first + j) % WaitingRoom] => i = j

IInv ==
  /\ TypeOK
  /\ Unforked
  /\ Balanced
  /\ RingFaithful
  /\ RingDistinct

-----------------------------------------------------------------------------
(* The indices of the ring, and counting clients.                          *)

\* Within two rounds of the ring, an index wraps at most once.
LEMMA Wrap ==
  ASSUME NEW i \in 0..(2 * WaitingRoom - 1)
  PROVE  i % WaitingRoom = IF i < WaitingRoom THEN i ELSE i - WaitingRoom
<1> DEFINE w == WaitingRoom
<1>1. w \in Nat \ {0}
  BY BarberAssumption
<1> HIDE DEF w
<1>2. ASSUME i < w  PROVE i % w = i
  BY <1>1, <1>2
<1>3. ASSUME ~ (i < w), i \in w..(2 * w - 1)  PROVE i % w = i - w
  BY <1>1, <1>3
<1> QED
  BY <1>1, <1>2, <1>3 DEF w

LEMMA WrapSum ==
  ASSUME NEW i \in 0..(WaitingRoom - 1), NEW j \in 0..(WaitingRoom - 1)
  PROVE  (i + j) % WaitingRoom = IF i + j < WaitingRoom THEN i + j ELSE i + j - WaitingRoom
<1> DEFINE w == WaitingRoom
<1>1. w \in Nat \ {0}
  BY BarberAssumption
<1>2. i \in Nat /\ j \in Nat /\ i < w /\ j < w
  BY <1>1
<1> HIDE DEF w
<1>3. ASSUME i + j < w  PROVE (i + j) % w = i + j
  BY <1>1, <1>2, <1>3
<1>4. ASSUME ~ (i + j < w)  PROVE (i + j) % w = i + j - w
  BY <1>1, <1>2, <1>4
<1> QED
  BY <1>3, <1>4 DEF w

\* Groups of clients are finite, and grow and shrink by one client at a time.
LEMMA ClientsCounted ==
  ASSUME NEW S \in SUBSET Client
  PROVE  /\ IsFiniteSet(S)
         /\ Cardinality(S) \in Nat
         /\ \A T \in SUBSET S : Cardinality(T) <= Cardinality(S)
         /\ \A c \in Client \ S : Cardinality(S \cup {c}) = Cardinality(S) + 1
         /\ \A c \in S : Cardinality(S \ {c}) = Cardinality(S) - 1
<1>1. IsFiniteSet(Client)
  BY BarberAssumption, FS_Interval DEF Client
<1>2. IsFiniteSet(S) /\ Cardinality(S) \in Nat
  BY <1>1, FS_Subset, FS_CardinalityType
<1>3. \A T \in SUBSET S : Cardinality(T) <= Cardinality(S)
  BY <1>2, FS_Subset
<1>4. \A c \in Client \ S : Cardinality(S \cup {c}) = Cardinality(S) + 1
  BY <1>2, FS_AddElement
<1>5. \A c \in S : Cardinality(S \ {c}) = Cardinality(S) - 1
  BY <1>2, FS_RemoveElement
<1> QED
  BY <1>2, <1>3, <1>4, <1>5

\* The sizes of the pools.
LEMMA CapacityOf ==
  /\ Capacity["waitroom"] = WaitingRoom
  /\ \A p \in Pools : Capacity[p] \in Nat \ {0}
BY BarberAssumption DEF Capacity, Pools

-----------------------------------------------------------------------------
(* Types, and clients to come.                                             *)

\* Every action keeps the types.
LEMMA TypeStep ==
  ASSUME IInv, [Next]_vars
  PROVE  TypeOK'
<1> USE BarberAssumption DEF IInv, TypeOK, ring
<1>1. ASSUME NEW i \in 0..(WaitingRoom - 1)
      PROVE  Succ(i) \in 0..(WaitingRoom - 1)
  BY Wrap DEF Succ
<1>2. CASE Fork
  BY <1>2, SMTT(30) DEF Fork, Labels, Client
<1>3. ASSUME NEW c \in Client, ClientStep(c) \/ Doze(c)
      PROVE  TypeOK'
  <2> USE DEF Goto, Labels, Exited
  <2>1. CASE TakeWaitroom(c)
    BY <2>1 DEF TakeWaitroom, TakePlace, Pools
  <2>2. CASE TurnAway(c)
    BY <2>2 DEF TurnAway
  <2>3. CASE LockRing(c)
    BY <2>3 DEF LockRing
  <2>4. CASE Doze(c)
    BY <2>4 DEF Doze
  <2>5. CASE PushId(c)
    BY <2>5, <1>1 DEF PushId, Push
  <2>6. CASE PopId(c)
    BY <2>6, <1>1 DEF PopId, Pop
  <2>7. CASE LookAgain(c)
    BY <2>7 DEF LookAgain
  <2>8. CASE TakeBarber(c)
    BY <2>8 DEF TakeBarber, TakePlace, Pools
  <2>9. CASE TakeSeat(c)
    BY <2>9 DEF TakeSeat, TakePlace, Pools
  <2>10. CASE LeaveWaitroom(c)
    BY <2>10 DEF LeaveWaitroom, ReleasePlace, Pools
  <2>11. CASE LeaveSeat(c)
    BY <2>11 DEF LeaveSeat, ReleasePlace, Pools
  <2>12. CASE LeaveBarber(c)
    BY <2>12 DEF LeaveBarber, ReleasePlace, Pools
  <2> QED
    BY <1>3, <2>1, <2>2, <2>3, <2>4, <2>5, <2>6, <2>7, <2>8, <2>9, <2>10, <2>11, <2>12
       DEF ClientStep
<1>4. ASSUME NEW p \in Client \cup {Main}, Interrupt(p)
      PROVE  TypeOK'
  BY <1>4 DEF Interrupt
<1>5. CASE DestroyPool
  BY <1>5 DEF DestroyPool
<1>6. CASE UNCHANGED vars
  BY <1>6 DEF vars
<1> QED
  BY <1>2, <1>3, <1>4, <1>5, <1>6 DEF Next, Finished

\* A client leaves "unborn" by being forked, in the order of the ids.
LEMMA UnforkedStep ==
  ASSUME IInv, [Next]_vars
  PROVE  Unforked'
<1> USE BarberAssumption DEF IInv, TypeOK, Unforked
<1>1. CASE Fork
  BY <1>1 DEF Fork, Client
<1>2. ASSUME NEW c \in Client, ClientStep(c) \/ Doze(c)
      PROVE  Unforked'
  <2>1. /\ pc[c] # "unborn"
        /\ forked' = forked
        /\ \A d \in Client : d # c => pc'[d] = pc[d]
    BY <1>2 DEF ClientStep, Doze, TakeWaitroom, TurnAway, LockRing, PushId, PopId, LookAgain,
                TakeBarber, TakeSeat, LeaveWaitroom, LeaveSeat, LeaveBarber, Goto
  <2> QED
    BY <2>1
<1>3. CASE UNCHANGED <<pc, forked>>
  BY <1>3
<1> QED
  BY <1>1, <1>2, <1>3 DEF Next, Finished, Interrupt, DestroyPool, vars

-----------------------------------------------------------------------------
(* The pools.                                                              *)

\* A step that does not touch pool p.
Untouched(p) == free'[p] = free[p] /\ Holders(p)' = Holders(p)

\* c takes a place of pool p, with or without the semaphore.
Takes(c, p) ==
  /\ c \in Client \ Holders(p)
  /\ Holders(p)' = Holders(p) \cup {c}
  /\ \/ p \notin removed /\ free[p] > 0 /\ free'[p] = free[p] - 1
     \/ p \in removed /\ p # "waitroom"

\* c gives back its place of pool p.
Leaves(c, p) ==
  /\ c \in Holders(p)
  /\ Holders(p)' = Holders(p) \ {c}
  /\ p \notin removed => free'[p] = free[p] + 1

\* The labels at which a client has a place of a pool.
InPool ==
  [waitroom |-> {"lock_push", "doze_push", "push", "lock_peek", "doze_peek", "peek",
                 "barber", "seat", "seated"},
   barber   |-> {"seat", "seated", "cut", "pay"},
   seat     |-> {"seated", "cut"}]

\* What a client's move from one label to another means to a pool.
LEMMA HoldersMove ==
  ASSUME TypeOK, NEW p \in Pools, NEW c \in Client, NEW from, NEW to,
         pc[c] = from, pc' = [pc EXCEPT ![c] = to]
  PROVE  /\ (from \in InPool[p] <=> to \in InPool[p]) => Holders(p)' = Holders(p)
         /\ from \notin InPool[p] /\ to \in InPool[p] =>
              c \notin Holders(p) /\ Holders(p)' = Holders(p) \cup {c}
         /\ from \in InPool[p] /\ to \notin InPool[p] =>
              c \in Holders(p) /\ Holders(p)' = Holders(p) \ {c}
<1>1. /\ Holders(p) = {d \in Client : pc[d] \in InPool[p]}
      /\ Holders(p)' = {d \in Client : pc'[d] \in InPool[p]}
  BY DEF Holders, InPool, Pools
<1>2. \A d \in Client : pc'[d] = IF d = c THEN to ELSE pc[d]
  BY DEF TypeOK
<1> QED
  BY <1>1, <1>2

\* Every step leaves a pool alone, or takes a client in or out of it.
LEMMA PlacesMove ==
  ASSUME IInv, [Next]_vars, NEW p \in Pools
  PROVE  \/ Untouched(p)
         \/ \E c \in Client : Takes(c, p)
         \/ \E c \in Client : Leaves(c, p)
<1>a. /\ TypeOK /\ Unforked
      /\ p \in {"waitroom", "barber", "seat"}
      /\ free \in [Pools -> Nat]
  BY DEF IInv, TypeOK, Pools
<1>b. ASSUME pc' = pc, free' = free
      PROVE  Untouched(p)
  BY <1>a, <1>b DEF Untouched, Holders
<1>1. CASE Fork
  <2>1. /\ forked \in Client /\ pc[forked] = "unborn"
        /\ pc' = [pc EXCEPT ![forked] = "arrive"]
        /\ free' = free
    BY <1>1, <1>a, BarberAssumption DEF Fork, TypeOK, Unforked, Client
  <2>2. "unborn" \notin InPool[p] /\ "arrive" \notin InPool[p]
    BY <1>a DEF InPool
  <2> QED
    BY <2>1, <2>2, <1>a, HoldersMove DEF Untouched
<1>2. ASSUME NEW c \in Client, ClientStep(c) \/ Doze(c)
      PROVE  Untouched(p) \/ Takes(c, p) \/ Leaves(c, p)
  <2> DEFINE From == pc[c]
             Stays(to) == From \in InPool[p] <=> to \in InPool[p]
             Enters(to) == From \notin InPool[p] /\ to \in InPool[p]
             Exits(to) == From \in InPool[p] /\ to \notin InPool[p]
  <2>0. ASSUME NEW to, pc' = [pc EXCEPT ![c] = to]
        PROVE  /\ Stays(to) => Holders(p)' = Holders(p)
               /\ Enters(to) => c \in Client \ Holders(p) /\ Holders(p)' = Holders(p) \cup {c}
               /\ Exits(to) => c \in Holders(p) /\ Holders(p)' = Holders(p) \ {c}
    BY <2>0, <1>a, HoldersMove
  <2>1. CASE TakeWaitroom(c)
    <3>1. /\ pc' = [pc EXCEPT ![c] = "lock_push"]
          /\ IF p = "waitroom" THEN Enters("lock_push") ELSE Stays("lock_push")
      BY <2>1, <1>a DEF TakeWaitroom, Goto, InPool
    <3> QED
      BY <3>1, <2>0, <2>1, <1>a DEF TakeWaitroom, TakePlace, Untouched, Takes, Pools
  <2>2. CASE TurnAway(c) \/ LockRing(c) \/ Doze(c) \/ PushId(c) \/ PopId(c) \/ LookAgain(c)
    <3> DEFINE Moves(from, to) == pc[c] = from /\ pc' = [pc EXCEPT ![c] = to]
    <3>1. /\ free' = free
          /\ \/ Moves("arrive", "turned_away")
             \/ Moves("lock_push", "push") \/ Moves("lock_push", "doze_push")
             \/ Moves("lock_peek", "peek") \/ Moves("lock_peek", "doze_peek")
             \/ Moves("push", "lock_peek") \/ Moves("peek", "lock_peek")
             \/ Moves("peek", "barber")
      BY <2>2 DEF TurnAway, LockRing, Doze, PushId, PopId, LookAgain, Goto
    <3>2. \E to : pc' = [pc EXCEPT ![c] = to] /\ Stays(to)
      BY <3>1, <1>a DEF InPool
    <3> QED
      BY <3>1, <3>2, <2>0 DEF Untouched
  <2>3. CASE TakeBarber(c)
    <3>1. /\ pc' = [pc EXCEPT ![c] = "seat"]
          /\ IF p = "barber" THEN Enters("seat") ELSE Stays("seat")
      BY <2>3, <1>a DEF TakeBarber, Goto, InPool
    <3> QED
      BY <3>1, <2>0, <2>3, <1>a DEF TakeBarber, TakePlace, Untouched, Takes, Pools
  <2>4. CASE TakeSeat(c)
    <3>1. /\ pc' = [pc EXCEPT ![c] = "seated"]
          /\ IF p = "seat" THEN Enters("seated") ELSE Stays("seated")
      BY <2>4, <1>a DEF TakeSeat, Goto, InPool
    <3> QED
      BY <3>1, <2>0, <2>4, <1>a DEF TakeSeat, TakePlace, Untouched, Takes, Pools
  <2>5. CASE LeaveWaitroom(c)
    <3>1. /\ pc' = [pc EXCEPT ![c] = "cut"]
          /\ IF p = "waitroom" THEN Exits("cut") ELSE Stays("cut")
      BY <2>5, <1>a DEF LeaveWaitroom, Goto, InPool
    <3> QED
      BY <3>1, <2>0, <2>5, <1>a DEF LeaveWaitroom, ReleasePlace, Untouched, Leaves, Pools
  <2>6. CASE LeaveSeat(c)
    <3>1. /\ pc' = [pc EXCEPT ![c] = "pay"]
          /\ IF p = "seat" THEN Exits("pay") ELSE Stays("pay")
      BY <2>6, <1>a DEF LeaveSeat, Goto, InPool
    <3> QED
      BY <3>1, <2>0, <2>6, <1>a DEF LeaveSeat, ReleasePlace, Untouched, Leaves, Pools
  <2>7. CASE LeaveBarber(c)
    <3>1. /\ pc' = [pc EXCEPT ![c] = "gone"]
          /\ IF p = "barber" THEN Exits("gone") ELSE Stays("gone")
      BY <2>7, <1>a DEF LeaveBarber, Goto, InPool
    <3> QED
      BY <3>1, <2>0, <2>7, <1>a DEF LeaveBarber, ReleasePlace, Untouched, Leaves, Pools
  <2> QED
    BY <1>2, <2>1, <2>2, <2>3, <2>4, <2>5, <2>6, <2>7 DEF ClientStep
<1> QED
  BY <1>1, <1>2, <1>b DEF Next, Finished, Interrupt, DestroyPool, vars

\* A semaphore that has been removed does not come back.
LEMMA RemovedGrows ==
  ASSUME [Next]_vars
  PROVE  removed \subseteq removed'
BY DEF Next, Fork, ClientStep, Doze, TakeWaitroom, TurnAway, LockRing, PushId, PopId, LookAgain,
       TakeBarber, TakeSeat, LeaveWaitroom, LeaveSeat, LeaveBarber, Goto, Interrupt,
       DestroyPool, Finished, vars

\* The waiting room is left by clients after its semaphore is gone, but not
\* entered; and no pool gives more than it has.
LEMMA BalancedStep ==
  ASSUME IInv, [Next]_vars
  PROVE  Balanced'
<1>1. ASSUME NEW p \in Pools
      PROVE  /\ p \notin removed => free'[p] + Cardinality(Holders(p)') <= Capacity[p]
             /\ p = "waitroom" => Cardinality(Holders(p)') <= WaitingRoom
  <2>1. /\ free[p] \in Nat /\ free'[p] \in Nat
        /\ Cardinality(Holders(p)) \in Nat /\ Cardinality(Holders(p)') \in Nat
        /\ Capacity[p] \in Nat
        /\ Capacity["waitroom"] = WaitingRoom
    BY TypeStep, ClientsCounted, CapacityOf DEF IInv, TypeOK, Holders
  <2>2. /\ p \notin removed => free[p] + Cardinality(Holders(p)) <= Capacity[p]
        /\ p = "waitroom" => Cardinality(Holders(p)) <= WaitingRoom
    BY DEF IInv, Balanced
  <2>3. CASE Untouched(p)
    BY <2>1, <2>2, <2>3 DEF Untouched
  <2>4. ASSUME NEW c \in Client, Takes(c, p)
        PROVE  /\ p \notin removed => free'[p] + Cardinality(Holders(p)') <= Capacity[p]
               /\ p = "waitroom" => Cardinality(Holders(p)') <= WaitingRoom
    <3>1. Cardinality(Holders(p)') = Cardinality(Holders(p)) + 1
      BY <2>4, ClientsCounted DEF Takes, Holders
    <3> QED
      BY <2>1, <2>2, <2>4, <3>1 DEF Takes
  <2>5. ASSUME NEW c \in Client, Leaves(c, p)
        PROVE  /\ p \notin removed => free'[p] + Cardinality(Holders(p)') <= Capacity[p]
               /\ p = "waitroom" => Cardinality(Holders(p)') <= WaitingRoom
    <3>1. Cardinality(Holders(p)') = Cardinality(Holders(p)) - 1
      BY <2>5, ClientsCounted DEF Leaves, Holders
    <3> QED
      BY <2>1, <2>2, <2>5, <3>1 DEF Leaves
  <2> QED
    BY <2>3, <2>4, <2>5, PlacesMove
<1> QED
  BY <1>1, RemovedGrows DEF Balanced, Pools

\* While a pool exists, its semaphore and the clients change by one together.
LEMMA PlacesConservedStep ==
  ASSUME IInv, [Next]_vars, NEW p \in Pools \ removed
  PROVE  free'[p] + Cardinality(Holders(p)') = free[p] + Cardinality(Holders(p))
<1>1. /\ free[p] \in Nat /\ free'[p] \in Nat
      /\ Cardinality(Holders(p)) \in Nat
  BY TypeStep, ClientsCounted DEF IInv, TypeOK, Holders
<1>2. CASE Untouched(p)
  BY <1>2 DEF Untouched
<1>3. ASSUME NEW c \in Client, Takes(c, p)
      PROVE  free'[p] + Cardinality(Holders(p)') = free[p] + Cardinality(Holders(p))
  <2>1. Cardinality(Holders(p)') = Cardinality(Holders(p)) + 1
    BY <1>3, ClientsCounted DEF Takes, Holders
  <2> QED
    BY <1>1, <1>3, <2>1 DEF Takes
<1>4. ASSUME NEW c \in Client, Leaves(c, p)
      PROVE  free'[p] + Cardinality(Holders(p)') = free[p] + Cardinality(Holders(p))
  <2>1. Cardinality(Holders(p)') = Cardinality(Holders(p)) - 1
    BY <1>4, ClientsCounted DEF Leaves, Holders
  <2> QED
    BY <1>1, <1>4, <2>1 DEF Leaves
<1> QED
  BY <1>2, <1>3, <1>4, PlacesMove

-----------------------------------------------------------------------------
(* The ring.                                                               *)

\* c, which has a place in the waiting room, queues up.
Enqueues(c) ==
  /\ c \in Holders("waitroom") \ InRing
  /\ InRing' = InRing \cup {c}
  /\ Push(c)

\* c, whose id is at the head, leaves the queue.
Dequeues(c) ==
  /\ c \in InRing
  /\ Peek = c
  /\ InRing' = InRing \ {c}
  /\ Pop

\* Every step leaves the ring alone, or is a push or a pop.
LEMMA RingMoves ==
  ASSUME IInv, [Next]_vars
  PROVE  \/ InRing' = InRing /\ UNCHANGED ring
         \/ \E c \in Client : Enqueues(c) \/ Dequeues(c)
<1> USE DEF IInv, TypeOK
<1>1. CASE Fork
  <2>1. /\ forked \in Client /\ pc[forked] = "unborn"
        /\ pc' = [pc EXCEPT ![forked] = "arrive"]
        /\ UNCHANGED ring
    BY <1>1, BarberAssumption DEF Fork, Unforked, Client
  <2> QED
    BY <2>1 DEF InRing
<1>2. ASSUME NEW c \in Client, ClientStep(c) \/ Doze(c)
      PROVE  \/ InRing' = InRing /\ UNCHANGED ring
             \/ Enqueues(c) \/ Dequeues(c)
  <2> DEFINE Moves(from, to) == pc[c] = from /\ pc' = [pc EXCEPT ![c] = to]
             Waits == {"lock_peek", "doze_peek", "peek"}
  <2>0. ASSUME NEW from, NEW to, Moves(from, to)
        PROVE  /\ (from \in Waits <=> to \in Waits) => InRing' = InRing
               /\ from \notin Waits /\ to \in Waits =>
                    c \notin InRing /\ InRing' = InRing \cup {c}
               /\ from \in Waits /\ to \notin Waits =>
                    c \in InRing /\ InRing' = InRing \ {c}
    BY <2>0 DEF InRing
  <2>1. CASE PushId(c)
    <3>1. Moves("push", "lock_peek") /\ Push(c)
      BY <2>1 DEF PushId, Goto
    <3>2. c \in Holders("waitroom")
      BY <3>1 DEF Holders
    <3> QED
      BY <3>1, <3>2, <2>0 DEF Enqueues
  <2>2. CASE PopId(c)
    <3>1. Moves("peek", "barber") /\ Peek = c /\ Pop
      BY <2>2 DEF PopId, Goto
    <3>2. c \in InRing /\ InRing' = InRing \ {c}
      BY <3>1 DEF InRing
    <3> QED
      BY <3>1, <3>2 DEF Dequeues
  <2>3. CASE LockRing(c) \/ Doze(c) \/ LookAgain(c)
    <3>1. /\ UNCHANGED ring
          /\ \/ Moves("lock_push", "push") \/ Moves("lock_push", "doze_push")
             \/ Moves("lock_peek", "peek") \/ Moves("lock_peek", "doze_peek")
             \/ Moves("peek", "lock_peek")
      BY <2>3 DEF LockRing, Doze, LookAgain, Goto
    <3> QED
      BY <3>1, <2>0
  <2>4. CASE \/ TakeWaitroom(c) \/ TurnAway(c) \/ TakeBarber(c) \/ TakeSeat(c)
             \/ LeaveWaitroom(c) \/ LeaveSeat(c) \/ LeaveBarber(c)
    <3>1. /\ UNCHANGED ring
          /\ \/ Moves("arrive", "lock_push") \/ Moves("arrive", "turned_away")
             \/ Moves("barber", "seat") \/ Moves("seat", "seated")
             \/ Moves("seated", "cut") \/ Moves("cut", "pay") \/ Moves("pay", "gone")
      BY <2>4 DEF TakeWaitroom, TurnAway, TakeBarber, TakeSeat, LeaveWaitroom, LeaveSeat,
                  LeaveBarber, Goto
    <3> QED
      BY <3>1, <2>0
  <2> QED
    BY <1>2, <2>1, <2>2, <2>3, <2>4 DEF ClientStep
<1>3. CASE UNCHANGED <<pc, ring>>
  BY <1>3 DEF InRing
<1> QED
  BY <1>1, <1>2, <1>3 DEF Next, Finished, Interrupt, DestroyPool, vars, ring

\* The slots of the ring, counted from the head.
Slot(i) == (first + i) % WaitingRoom

\* What is known of a ring before a step.
LEMMA RingBefore ==
  ASSUME IInv
  PROVE  /\ WaitingRoom \in Nat \ {0}
         /\ first \in 0..(WaitingRoom - 1) /\ last \in 0..(WaitingRoom - 1)
         /\ Cardinality(InRing) \in 0..WaitingRoom
         /\ last = Slot(Cardinality(InRing))
         /\ \A i \in 0..WaitingRoom :
              Slot(i) = IF first + i < WaitingRoom THEN first + i ELSE first + i - WaitingRoom
         /\ InRing = {data[Slot(i)] : i \in 0..(Cardinality(InRing) - 1)}
         /\ \A i, j \in 0..(Cardinality(InRing) - 1) : data[Slot(i)] = data[Slot(j)] => i = j
<1>1. /\ WaitingRoom \in Nat \ {0}
      /\ first \in 0..(WaitingRoom - 1) /\ last \in 0..(WaitingRoom - 1)
  BY BarberAssumption DEF IInv, TypeOK
<1>2. Cardinality(InRing) \in 0..WaitingRoom
  BY <1>1, ClientsCounted DEF IInv, RingFaithful, InRing
<1>3. \A i \in 0..WaitingRoom :
        Slot(i) = IF first + i < WaitingRoom THEN first + i ELSE first + i - WaitingRoom
  BY <1>1, Wrap DEF Slot
<1> QED
  BY <1>1, <1>2, <1>3 DEF IInv, RingFaithful, RingDistinct, Slot

\* A push finds a free slot, and fills it.
LEMMA EnqueueRing ==
  ASSUME IInv, NEW c \in Client, Enqueues(c)
  PROVE  LET n == Cardinality(InRing)
         IN  /\ n < WaitingRoom
             /\ Cardinality(InRing') = n + 1
             /\ first' = first
             /\ last' = (first + (n + 1)) % WaitingRoom
             /\ data'[Slot(n)] = c
             /\ \A i \in 0..(n - 1) : data'[Slot(i)] = data[Slot(i)]
<1> DEFINE n == Cardinality(InRing)
<1>1. Cardinality(InRing') = n + 1 /\ n \in Nat
  BY ClientsCounted DEF Enqueues, InRing
<1>2. n < WaitingRoom
  <2>1. InRing \cup {c} \subseteq Holders("waitroom") /\ Holders("waitroom") \subseteq Client
    <3>1. Holders("waitroom") = {d \in Client : pc[d] \in InPool["waitroom"]}
      BY DEF Holders, InPool
    <3> QED
      BY <3>1 DEF Enqueues, InRing, InPool
  <2>2. Cardinality(InRing \cup {c}) <= Cardinality(Holders("waitroom"))
    BY <2>1, ClientsCounted
  <2>3. Cardinality(Holders("waitroom")) \in Nat /\ WaitingRoom \in Nat
    BY <2>1, ClientsCounted, BarberAssumption
  <2> QED
    BY <1>1, <2>2, <2>3 DEF IInv, Balanced, Enqueues
<1>3. first' = first /\ data' = [data EXCEPT ![Slot(n)] = c] /\ last' = Succ(Slot(n))
  BY RingBefore DEF Enqueues, Push
<1>4. /\ Slot(n) \in 0..(WaitingRoom - 1)
      /\ \A i \in 0..(n - 1) : Slot(i) \in 0..(WaitingRoom - 1) /\ Slot(i) # Slot(n)
  BY <1>1, <1>2, RingBefore
<1>5. data'[Slot(n)] = c /\ \A i \in 0..(n - 1) : data'[Slot(i)] = data[Slot(i)]
  BY <1>3, <1>4 DEF IInv, TypeOK
<1>6. Succ(Slot(n)) = Slot(n + 1)
  BY <1>1, <1>2, <1>4, RingBefore, Wrap DEF Succ
<1> QED
  BY <1>1, <1>2, <1>3, <1>5, <1>6 DEF Slot

\* A pop moves the head by one slot.
LEMMA DequeueRing ==
  ASSUME IInv, NEW c \in Client, Dequeues(c)
  PROVE  LET n == Cardinality(InRing)
         IN  /\ n > 0
             /\ Cardinality(InRing') = n - 1
             /\ data[Slot(0)] = c
             /\ data' = data
             /\ last' = (first' + (n - 1)) % WaitingRoom
             /\ \A i \in 0..(n - 1) : (first' + i) % WaitingRoom = Slot(i + 1)
<1> DEFINE n == Cardinality(InRing)
<1>1. Cardinality(InRing') = n - 1 /\ n \in Nat /\ n > 0
  <2>1. Cardinality(InRing') = n - 1 /\ n \in Nat /\ Cardinality(InRing') \in Nat
    BY ClientsCounted DEF Dequeues, InRing
  <2> QED
    BY <2>1
<1>2. first' = Slot(1) /\ data' = data /\ last' = last /\ Slot(0) = first
  BY RingBefore DEF Dequeues, Pop, Succ, Slot
<1>3. ASSUME NEW i \in 0..(n - 1)
      PROVE  (Slot(1) + i) % WaitingRoom = Slot(i + 1)
  <2>1. Slot(1) \in 0..(WaitingRoom - 1) /\ i \in 0..(WaitingRoom - 1)
    BY <1>1, RingBefore
  <2>2. (Slot(1) + i) % WaitingRoom =
          IF Slot(1) + i < WaitingRoom THEN Slot(1) + i ELSE Slot(1) + i - WaitingRoom
    <3>1. PICK a \in 0..(WaitingRoom - 1) : a = Slot(1)
      BY <2>1
    <3>2. (a + i) % WaitingRoom = IF a + i < WaitingRoom THEN a + i ELSE a + i - WaitingRoom
      BY <2>1, WrapSum
    <3> QED
      BY <3>1, <3>2
  <2>3. /\ Slot(1) = IF first + 1 < WaitingRoom THEN first + 1 ELSE first + 1 - WaitingRoom
        /\ Slot(i + 1) = IF first + (i + 1) < WaitingRoom THEN first + (i + 1)
                         ELSE first + (i + 1) - WaitingRoom
    BY <1>1, <2>1, RingBefore
  <2>4. first \in 0..(WaitingRoom - 1) /\ WaitingRoom \in Nat
    BY RingBefore
  <2> QED
    BY <2>1, <2>2, <2>3, <2>4
<1>4. data[Slot(0)] = c
  BY <1>2 DEF Dequeues, Peek
<1>5. last' = (first' + (n - 1)) % WaitingRoom
  BY <1>1, <1>2, <1>3, RingBefore
<1> QED
  BY <1>1, <1>2, <1>3, <1>4, <1>5

\* The ring stays faithful, and its ids stay distinct.
LEMMA RingStep ==
  ASSUME IInv, [Next]_vars
  PROVE  RingFaithful' /\ RingDistinct'
<1> DEFINE n == Cardinality(InRing)
           Slot1(i) == (first' + i) % WaitingRoom
<1>1. CASE InRing' = InRing /\ UNCHANGED ring
  BY <1>1 DEF IInv, RingFaithful, RingDistinct, ring
<1>2. ASSUME NEW c \in Client, Enqueues(c)
      PROVE  RingFaithful' /\ RingDistinct'
  <2>1. /\ n \in Nat /\ n < WaitingRoom /\ WaitingRoom \in Nat
        /\ Cardinality(InRing') = n + 1
        /\ last' = Slot1(n + 1)
        /\ data'[Slot1(n)] = c
        /\ \A i \in 0..(n - 1) : data'[Slot1(i)] = data[Slot(i)]
    BY <1>2, EnqueueRing, RingBefore DEF Slot
  <2>2. /\ InRing = {data[Slot(i)] : i \in 0..(n - 1)}
        /\ \A i, j \in 0..(n - 1) : data[Slot(i)] = data[Slot(j)] => i = j
        /\ c \notin InRing
        /\ InRing' = InRing \cup {c}
    BY <1>2, RingBefore DEF Enqueues
  <2>3. InRing' = {data'[Slot1(i)] : i \in 0..n}
    <3> HIDE DEF n, Slot1
    <3> QED
      BY <2>1, <2>2
  <2>4. \A i, j \in 0..n : data'[Slot1(i)] = data'[Slot1(j)] => i = j
    <3> HIDE DEF n, Slot1
    <3> QED
      BY <2>1, <2>2
  <2>5. (n + 1) - 1 = n
    BY <2>1
  <2> QED
    BY <2>1, <2>3, <2>4, <2>5 DEF RingFaithful, RingDistinct
<1>3. ASSUME NEW c \in Client, Dequeues(c)
      PROVE  RingFaithful' /\ RingDistinct'
  <2>1. /\ n \in Nat /\ n > 0 /\ n <= WaitingRoom /\ WaitingRoom \in Nat
        /\ Cardinality(InRing') = n - 1
        /\ last' = Slot1(n - 1)
        /\ data[Slot(0)] = c
        /\ \A i \in 0..(n - 2) : data'[Slot1(i)] = data[Slot(i + 1)]
    BY <1>3, DequeueRing, RingBefore
  <2>2. /\ InRing = {data[Slot(i)] : i \in 0..(n - 1)}
        /\ \A i, j \in 0..(n - 1) : data[Slot(i)] = data[Slot(j)] => i = j
        /\ InRing' = InRing \ {c}
    BY <1>3, RingBefore DEF Dequeues
  <2>3. InRing' = {data'[Slot1(i)] : i \in 0..(n - 2)}
    <3> HIDE DEF n, Slot1
    <3>1. ASSUME NEW d \in InRing'
          PROVE  \E i \in 0..(n - 2) : d = data'[Slot1(i)]
      <4>1. PICK j \in 0..(n - 1) : d = data[Slot(j)] /\ j # 0
        BY <2>1, <2>2
      <4>2. j - 1 \in 0..(n - 2) /\ (j - 1) + 1 = j
        BY <2>1, <4>1
      <4> QED
        BY <2>1, <4>1, <4>2
    <3>2. ASSUME NEW i \in 0..(n - 2)
          PROVE  data'[Slot1(i)] \in InRing'
      <4>1. i + 1 \in 0..(n - 1) /\ 0 \in 0..(n - 1) /\ i + 1 # 0
        BY <2>1
      <4> QED
        BY <2>1, <2>2, <4>1
    <3> QED
      BY <3>1, <3>2
  <2>4. \A i, j \in 0..(n - 2) : data'[Slot1(i)] = data'[Slot1(j)] => i = j
    <3> HIDE DEF n, Slot1
    <3> QED
      BY <2>1, <2>2
  <2>5. (n - 1) - 1 = n - 2 /\ n - 1 <= WaitingRoom
    BY <2>1
  <2> QED
    BY <2>1, <2>3, <2>4, <2>5 DEF RingFaithful, RingDistinct
<1> QED
  BY <1>1, <1>2, <1>3, RingMoves

-----------------------------------------------------------------------------
(* The invariant, and the properties of it.                                *)

\* Nothing is in the ring at first, and nobody has a place.
LEMMA InvariantInit ==
  ASSUME Init
  PROVE  IInv
<1> USE BarberAssumption DEF Init
<1>1. TypeOK
  BY DEF TypeOK, Labels, Client, Pools
<1>2. \A p \in Pools : Holders(p) = {} /\ Cardinality(Holders(p)) = 0
  <2>1. ASSUME NEW p \in Pools  PROVE Holders(p) = {}
    BY DEF Holders, Pools
  <2> QED
    BY <2>1, FS_EmptySet
<1>3. InRing = {} /\ Cardinality(InRing) = 0
  <2>1. InRing = {}
    BY DEF InRing
  <2> QED
    BY <2>1, FS_EmptySet
<1>4. \A p \in Pools : free[p] \in Nat /\ free[p] <= Capacity[p]
  BY CapacityOf DEF InitialValue
<1>5. Balanced
  BY <1>2, <1>4, CapacityOf DEF Balanced, Pools
<1>6. RingFaithful /\ RingDistinct
  <2>1. 0..(Cardinality(InRing) - 1) = {}
    BY <1>3
  <2>2. last = (first + Cardinality(InRing)) % WaitingRoom
    BY <1>3, Wrap
  <2> QED
    BY <1>3, <2>1, <2>2 DEF RingFaithful, RingDistinct
<1> QED
  BY <1>1, <1>5, <1>6 DEF IInv, Unforked

\* The invariant is inductive.
THEOREM InductiveInvariant == Spec => []IInv
<1>1. ASSUME IInv, [Next]_vars
      PROVE  IInv'
  BY <1>1, TypeStep, UnforkedStep, BalancedStep, RingStep DEF IInv
<1> QED
  BY InvariantInit, <1>1, PTL DEF Spec

\* Types are kept; the indices of the ring stay in its array although push
\* never looks (queue.h:13-24).
THEOREM TypeCorrect == Spec => []TypeOK
<1>1. IInv => TypeOK
  BY DEF IInv
<1> QED
  BY <1>1, InductiveInvariant, PTL

\* No more clients in the waiting room, with a barber or in a chair than
\* there are places, while the semaphores exist (main.cpp:91-131).
THEOREM CapacityKept == Spec => []WithinCapacity
<1>1. ASSUME IInv, NEW p \in Pools \ removed
      PROVE  Cardinality(Holders(p)) <= Capacity[p]
  <2>1. /\ free[p] \in Nat
        /\ Cardinality(Holders(p)) \in Nat
        /\ Capacity[p] \in Nat
        /\ free[p] + Cardinality(Holders(p)) <= Capacity[p]
    BY <1>1, ClientsCounted, CapacityOf DEF IInv, TypeOK, Balanced, Holders
  <2> QED
    BY <2>1
<1>2. IInv => WithinCapacity
  BY <1>1 DEF WithinCapacity
<1> QED
  BY <1>2, InductiveInvariant, PTL

\* The ring never overruns and never loses an id, whichever clients wait,
\* doze or are killed (queue.h:13-24, main.cpp:103-124).
THEOREM RingKept == Spec => []RingFaithful
<1>1. IInv => RingFaithful
  BY DEF IInv
<1> QED
  BY <1>1, InductiveInvariant, PTL

\* What the semaphores count and what the clients hold adds up, step by step.
THEOREM PlacesKept == Spec => PlacesConserved
<1>1. ASSUME IInv, [Next]_vars
      PROVE  \A p \in Pools \ removed' :
               free'[p] + Cardinality(Holders(p)') = free[p] + Cardinality(Holders(p))
  <2>1. removed \subseteq removed'
    BY <1>1, RemovedGrows
  <2> QED
    BY <1>1, <2>1, PlacesConservedStep
<1> QED
  BY <1>1, InductiveInvariant, PTL DEF Spec, PlacesConserved

-----------------------------------------------------------------------------
(* The programs implement BarberShop until a semaphore is removed.         *)

\* The variables of BarberShop.
Queue  == [i \in 1..Cardinality(InRing) |-> data[(first + i - 1) % WaitingRoom]]
Called == {c \in Client : pc[c] \in {"barber", "seat"}}
Seated == {c \in Client : pc[c] \in {"seated", "cut"}}
Past   == {c \in Client : pc[c] \in {"pay", "gone"}}

\* The clients in a chair are those with a place of the pool; the two modules
\* count alike.
LEMMA SeatedHold ==
  /\ Holders("seat") = Seated /\ Holders("seat")' = Seated'
  /\ \A S : Shop!Cardinality(S) = Cardinality(S)
BY DEF Holders, Seated, Shop!Cardinality, Cardinality

\* A sequence that is one element longer, or one shorter at the head.
LEMMA AppendIs ==
  ASSUME NEW S, NEW s \in Seq(S), NEW e \in S, NEW t \in [1..(Len(s) + 1) -> S],
         \A i \in 1..(Len(s) + 1) : t[i] = IF i <= Len(s) THEN s[i] ELSE e
  PROVE  t = Append(s, e)
<1>1. t \in Seq(S) /\ Len(t) = Len(s) + 1 /\ Len(s) \in Nat
  BY LenProperties
<1>2. Append(s, e) \in Seq(S) /\ Len(Append(s, e)) = Len(s) + 1
  BY AppendProperties
<1>3. \A i \in 1..Len(t) : t[i] = Append(s, e)[i]
  <2>1. ASSUME NEW i \in 1..Len(s)  PROVE t[i] = Append(s, e)[i]
    BY <1>1, AppendProperties
  <2>2. t[Len(s) + 1] = Append(s, e)[Len(s) + 1]
    BY <1>1, AppendProperties
  <2> QED
    BY <1>1, <2>1, <2>2
<1> QED
  BY <1>1, <1>2, <1>3, SeqEqual

LEMMA TailIs ==
  ASSUME NEW S, NEW s \in Seq(S), s # <<>>, NEW t \in [1..(Len(s) - 1) -> S],
         \A i \in 1..(Len(s) - 1) : t[i] = s[i + 1]
  PROVE  t = Tail(s)
<1>1. Len(s) \in Nat \ {0}
  BY EmptySeq, LenProperties
<1>2. t \in Seq(S) /\ Len(t) = Len(s) - 1
  BY <1>1
<1>3. /\ Tail(s) \in Seq(S)
      /\ Len(Tail(s)) = Len(s) - 1
      /\ \A i \in 1..(Len(s) - 1) : Tail(s)[i] = s[i + 1]
  BY HeadTailProperties
<1> QED
  BY <1>2, <1>3, SeqEqual

\* The queue of the shop is the ring, from the head on.
LEMMA QueueIsRing ==
  ASSUME IInv
  PROVE  /\ Queue \in Seq(Client)
         /\ Len(Queue) = Cardinality(InRing)
         /\ \A i \in 1..Cardinality(InRing) : Queue[i] = data[Slot(i - 1)]
         /\ Shop!Queued = InRing
<1> DEFINE n == Cardinality(InRing)
<1>1. n \in Nat /\ first \in Nat
  BY RingBefore
<1>2. \A i \in 1..n : Queue[i] = data[Slot(i - 1)] /\ i - 1 \in 0..(n - 1)
  BY <1>1 DEF Queue, Slot
<1>3. \A i \in 0..(n - 1) : data[Slot(i)] = Queue[i + 1] /\ i + 1 \in 1..n
  BY <1>1 DEF Queue, Slot
<1>4. InRing = {data[Slot(i)] : i \in 0..(n - 1)}
  BY RingBefore
<1>5. InRing = {Queue[i] : i \in 1..n} /\ InRing \subseteq Client
  <2> HIDE DEF n
  <2> QED
    BY <1>2, <1>3, <1>4 DEF InRing
<1>6. Queue \in Seq(Client) /\ Len(Queue) = n
  <2>1. Queue = [i \in 1..n |-> Queue[i]]
    BY DEF Queue
  <2> HIDE DEF n
  <2> QED
    BY <1>1, <1>5, <2>1
<1> QED
  BY <1>2, <1>5, <1>6 DEF Shop!Queued, Queue

\* The shop opens empty.
LEMMA ShopInit ==
  ASSUME Init
  PROVE  Shop!Init
<1>1. Called = {} /\ Seated = {} /\ Past = {} /\ InRing = {}
  BY DEF Init, Called, Seated, Past, InRing
<1>2. Cardinality(InRing) = 0
  BY <1>1, FS_EmptySet
<1>3. Queue = <<>>
  BY <1>2 DEF Queue
<1> QED
  BY <1>1, <1>3, SeatedHold DEF Shop!Init, Queue, Called, Past

\* A client that pushes its id queues up, and there is room for it.
LEMMA ShopQueueUp ==
  ASSUME IInv, NEW c \in Client, PushId(c)
  PROVE  Shop!QueueUp(c)
<1> DEFINE n == Cardinality(InRing)
<1>1. pc[c] = "push" /\ pc' = [pc EXCEPT ![c] = "lock_peek"] /\ Push(c)
  BY DEF PushId, Goto
<1>2. c \notin InRing /\ InRing' = InRing \cup {c}
  BY <1>1 DEF IInv, TypeOK, InRing
<1>3. c \in Holders("waitroom")
  BY <1>1 DEF Holders
<1>4. Enqueues(c)
  BY <1>1, <1>2, <1>3 DEF Enqueues
<1>5. Called' = Called /\ Seated' = Seated /\ Past' = Past
  BY <1>1 DEF IInv, TypeOK, Called, Seated, Past
<1>6. c \notin Called /\ c \notin Seated /\ c \notin Past
  BY <1>1 DEF Called, Seated, Past
<1>7. n + Cardinality(Called) < WaitingRoom
  <2>1. InRing \cup Called \cup {c} \subseteq Holders("waitroom")
    <3>1. Holders("waitroom") = {d \in Client : pc[d] \in InPool["waitroom"]}
      BY DEF Holders, InPool
    <3> QED
      BY <1>1, <3>1 DEF InRing, Called, InPool
  <2>2. InRing \cap Called = {} /\ c \notin InRing \cup Called
    BY <1>1 DEF InRing, Called
  <2>3. /\ InRing \in SUBSET Client /\ Called \in SUBSET Client
        /\ InRing \cup Called \in SUBSET Client
        /\ Holders("waitroom") \in SUBSET Client
    BY DEF InRing, Called, Holders
  <2>4. Cardinality(InRing \cup Called) = n + Cardinality(Called)
    <3>1. IsFiniteSet(InRing) /\ IsFiniteSet(Called) /\ Cardinality(InRing \cap Called) = 0
      BY <2>2, <2>3, ClientsCounted, FS_EmptySet
    <3>2. Cardinality(InRing \cup Called)
            = n + Cardinality(Called) - Cardinality(InRing \cap Called)
      BY <3>1, FS_Union
    <3>3. n \in Nat /\ Cardinality(Called) \in Nat
      BY <2>3, ClientsCounted
    <3> QED
      BY <3>1, <3>2, <3>3
  <2>5. Cardinality(InRing \cup Called \cup {c}) = n + Cardinality(Called) + 1
    BY <2>2, <2>3, <2>4, ClientsCounted
  <2>6. Cardinality(InRing \cup Called \cup {c}) <= Cardinality(Holders("waitroom"))
    BY <2>1, <2>3, ClientsCounted
  <2>7. /\ n \in Nat /\ Cardinality(Called) \in Nat /\ WaitingRoom \in Nat
        /\ Cardinality(Holders("waitroom")) \in Nat
        /\ Cardinality(Holders("waitroom")) <= WaitingRoom
    BY <2>3, ClientsCounted, BarberAssumption DEF IInv, Balanced
  <2> QED
    BY <2>5, <2>6, <2>7
<1>8. Queue' = Append(Queue, c)
  <2>1. n \in Nat /\ first \in Nat /\ first' = first /\ Cardinality(InRing') = n + 1
    BY <1>4, EnqueueRing, RingBefore
  <2>2. Queue' = [i \in 1..(n + 1) |-> data'[Slot(i - 1)]]
    BY <2>1 DEF Queue, Slot
  <2>3. ASSUME NEW i \in 1..(n + 1)
        PROVE  data'[Slot(i - 1)] = IF i <= n THEN Queue[i] ELSE c
    <3>1. CASE i <= n
      <4>1. i \in 1..n /\ i - 1 \in 0..(n - 1)
        BY <2>1, <3>1
      <4> QED
        BY <1>4, <3>1, <4>1, EnqueueRing, QueueIsRing
    <3>2. CASE i = n + 1
      <4>1. i - 1 = n /\ ~ (i <= n)
        BY <2>1, <3>2
      <4> QED
        BY <1>4, <4>1, EnqueueRing
    <3> QED
      BY <2>1, <3>1, <3>2
  <2>4. Queue \in Seq(Client) /\ Len(Queue) = n
    BY QueueIsRing
  <2>5. \A i \in 1..n : Queue[i] \in Client
    BY <2>4, ElementOfSeq
  <2>6. /\ Queue' \in [1..(n + 1) -> Client]
        /\ \A i \in 1..(n + 1) : Queue'[i] = IF i <= n THEN Queue[i] ELSE c
    <3> HIDE DEF n
    <3> QED
      BY <2>1, <2>2, <2>3, <2>5
  <2> QED
    BY <2>4, <2>6, AppendIs
<1>9. c \notin Shop!Queued /\ Len(Queue) + Cardinality(Called) < WaitingRoom
  BY <1>2, <1>7, QueueIsRing
<1> QED
  BY <1>5, <1>6, <1>8, <1>9, SeatedHold
     DEF Shop!QueueUp, Queue, Called, Past

\* The client that pops its id is the one that has queued longest.
LEMMA ShopCallNext ==
  ASSUME IInv, NEW c \in Client, PopId(c)
  PROVE  Shop!CallNext
<1> DEFINE n == Cardinality(InRing)
<1>1. pc[c] = "peek" /\ pc' = [pc EXCEPT ![c] = "barber"] /\ Peek = c /\ Pop
  BY DEF PopId, Goto
<1>2. c \in InRing /\ InRing' = InRing \ {c}
  BY <1>1 DEF IInv, TypeOK, InRing
<1>3. Dequeues(c)
  BY <1>1, <1>2 DEF Dequeues
<1>4. Called' = Called \cup {c} /\ Seated' = Seated /\ Past' = Past
  BY <1>1 DEF IInv, TypeOK, Called, Seated, Past
<1>5. /\ n \in Nat /\ n > 0 /\ Cardinality(InRing') = n - 1
      /\ first \in Nat /\ first' \in Nat
  <2>1. Succ(first) = Slot(1) /\ Slot(1) \in Nat
    BY RingBefore DEF Succ, Slot
  <2>2. first' = Succ(first)
    BY <1>1 DEF Pop
  <2>3. first \in Nat /\ n \in Nat
    BY RingBefore
  <2>4. n > 0 /\ Cardinality(InRing') = n - 1
    BY <1>3, DequeueRing
  <2> QED
    BY <2>1, <2>2, <2>3, <2>4
<1>6. Queue # <<>> /\ Head(Queue) = c
  <2>1. Queue[1] = data[Slot(0)]
    BY <1>5, QueueIsRing
  <2> QED
    BY <1>3, <1>5, <2>1, QueueIsRing, DequeueRing
<1>7. Queue' = Tail(Queue)
  <2>1. ASSUME NEW i \in 1..(n - 1)
        PROVE  data'[(first' + i - 1) % WaitingRoom] = Queue[i + 1]
    <3>1. i - 1 \in 0..(n - 1) /\ (i - 1) + 1 = i /\ i + 1 \in 1..n /\ (i + 1) - 1 = i
      BY <1>5
    <3>2. (first' + (i - 1)) % WaitingRoom = Slot(i)
      BY <1>3, <3>1, DequeueRing
    <3>3. first' + i - 1 = first' + (i - 1)
      BY <1>5
    <3>4. Queue[i + 1] = data[Slot(i)]
      BY <3>1, QueueIsRing
    <3> QED
      BY <1>3, <3>2, <3>3, <3>4, DequeueRing
  <2>2. Queue' = [i \in 1..(n - 1) |-> data'[(first' + i - 1) % WaitingRoom]]
    BY <1>5 DEF Queue
  <2>3. Queue \in Seq(Client) /\ Len(Queue) = n
    BY QueueIsRing
  <2>4. \A i \in 1..(n - 1) : Queue[i + 1] \in Client
    <3>1. \A i \in 1..(n - 1) : i + 1 \in 1..n
      BY <1>5
    <3> QED
      BY <2>3, <3>1, ElementOfSeq
  <2>5. /\ Queue' \in [1..(n - 1) -> Client]
        /\ \A i \in 1..(n - 1) : Queue'[i] = Queue[i + 1]
    <3> HIDE DEF n
    <3> QED
      BY <2>1, <2>2, <2>4
  <2> QED
    BY <1>6, <2>3, <2>5, TailIs
<1> QED
  BY <1>4, <1>6, <1>7, SeatedHold DEF Shop!CallNext, Queue, Called, Past

\* A client sits down only on a free chair.
LEMMA ShopSitDown ==
  ASSUME IInv, NEW c \in Client, TakeSeat(c), removed = {}
  PROVE  Shop!SitDown(c)
<1>1. /\ pc[c] = "seat" /\ pc' = [pc EXCEPT ![c] = "seated"]
      /\ UNCHANGED ring
      /\ free["seat"] > 0
  BY DEF TakeSeat, TakePlace, Goto
<1>2. /\ Called' = Called \ {c} /\ Seated' = Seated \cup {c} /\ Past' = Past
      /\ InRing' = InRing
  BY <1>1 DEF IInv, TypeOK, Called, Seated, Past, InRing
<1>3. c \in Called
  BY <1>1 DEF Called
<1>4. Cardinality(Seated) < Chairs
  <2>1. free["seat"] + Cardinality(Seated) <= Chairs
    BY SeatedHold DEF IInv, Balanced, Capacity, Pools
  <2>2. Cardinality(Seated) \in Nat /\ free["seat"] \in Nat /\ Chairs \in Nat
    BY ClientsCounted, BarberAssumption DEF Seated, IInv, TypeOK, Pools
  <2> QED
    BY <1>1, <2>1, <2>2
<1>5. Queue' = Queue
  BY <1>1, <1>2 DEF Queue, ring
<1> QED
  BY <1>2, <1>3, <1>4, <1>5, SeatedHold DEF Shop!SitDown, Queue, Called, Past

\* Before a semaphore is removed, every step is a step of the shop or none.
LEMMA ShopStep ==
  ASSUME IInv, [Next]_vars, removed = {}
  PROVE  Shop!Next \/ UNCHANGED ShopVars
<1> DEFINE Quiet == /\ Called' = Called /\ Seated' = Seated /\ Past' = Past
                    /\ InRing' = InRing
                    /\ UNCHANGED ring
<1>1. ASSUME Quiet
      PROVE  UNCHANGED ShopVars
  <2>1. Queue' = Queue
    BY <1>1 DEF Queue, ring
  <2> QED
    BY <1>1, <2>1, SeatedHold DEF ShopVars, Shop!vars, Queue, Called, Past
<1>2. CASE Fork
  <2>1. /\ forked \in Client /\ pc[forked] = "unborn"
        /\ pc' = [pc EXCEPT ![forked] = "arrive"]
        /\ UNCHANGED ring
    BY <1>2, BarberAssumption DEF Fork, IInv, TypeOK, Unforked, Client
  <2> QED
    BY <1>1, <2>1 DEF IInv, TypeOK, Called, Seated, Past, InRing
<1>3. ASSUME NEW c \in Client, ClientStep(c) \/ Doze(c)
      PROVE  Shop!Next \/ UNCHANGED ShopVars
  <2> DEFINE Moves(from, to) == pc[c] = from /\ pc' = [pc EXCEPT ![c] = to]
  <2>1. CASE PushId(c)
    BY <2>1, ShopQueueUp DEF Shop!Next
  <2>2. CASE PopId(c)
    BY <2>2, ShopCallNext DEF Shop!Next
  <2>3. CASE TakeSeat(c)
    BY <2>3, ShopSitDown DEF Shop!Next
  <2>4. CASE LeaveSeat(c)
    <3>1. Moves("cut", "pay") /\ UNCHANGED ring
      BY <2>4 DEF LeaveSeat, Goto
    <3>2. /\ c \in Seated /\ Seated' = Seated \ {c} /\ Past' = Past \cup {c}
          /\ Called' = Called /\ InRing' = InRing
      BY <3>1 DEF IInv, TypeOK, Called, Seated, Past, InRing
    <3>3. Queue' = Queue
      BY <3>1, <3>2 DEF Queue, ring
    <3>4. Shop!GetUp(c)
      BY <3>2, <3>3, SeatedHold DEF Shop!GetUp, Queue, Called, Past
    <3> QED
      BY <3>4 DEF Shop!Next
  <2>5. CASE \/ TakeWaitroom(c) \/ TurnAway(c) \/ LockRing(c) \/ Doze(c) \/ LookAgain(c)
             \/ TakeBarber(c) \/ LeaveWaitroom(c) \/ LeaveBarber(c)
    <3>1. /\ UNCHANGED ring
          /\ \/ Moves("arrive", "lock_push") \/ Moves("arrive", "turned_away")
             \/ Moves("lock_push", "push") \/ Moves("lock_push", "doze_push")
             \/ Moves("lock_peek", "peek") \/ Moves("lock_peek", "doze_peek")
             \/ Moves("peek", "lock_peek")
             \/ Moves("barber", "seat") \/ Moves("seated", "cut") \/ Moves("pay", "gone")
      BY <2>5 DEF TakeWaitroom, TurnAway, LockRing, Doze, LookAgain, TakeBarber,
                  LeaveWaitroom, LeaveBarber, Goto
    <3>2. pc \in [Client -> Labels]
      BY DEF IInv, TypeOK
    <3>3. Called' = Called /\ Seated' = Seated
      BY <3>1, <3>2 DEF Called, Seated
    <3>4. Past' = Past /\ InRing' = InRing
      BY <3>1, <3>2 DEF Past, InRing
    <3> QED
      BY <1>1, <3>1, <3>3, <3>4
  <2> QED
    BY <1>3, <2>1, <2>2, <2>3, <2>4, <2>5 DEF ClientStep
<1>4. CASE UNCHANGED <<pc, ring>>
  <2>1. Quiet
    BY <1>4 DEF Called, Seated, Past, InRing
  <2> QED
    BY <1>1, <2>1
<1> QED
  BY <1>2, <1>3, <1>4 DEF Next, Finished, Interrupt, DestroyPool, vars, ring

\* Clients are called in the order in which they queued up, into a waiting
\* room and onto chairs that are never overfull, until the first semaphore is
\* removed (main.cpp:91-131).
THEOREM ImplementsShopHolds == Spec => ImplementsShop
<1>1. Init => Shop!Init
  BY ShopInit
<1>2. ASSUME IInv, [Next]_vars
      PROVE  [Shop!Next \/ removed # {}]_ShopVars
  BY <1>2, ShopStep
<1> QED
  BY <1>1, <1>2, InductiveInvariant, PTL DEF Spec, ImplementsShop

=============================================================================
