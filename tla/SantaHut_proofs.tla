--------------------------- MODULE SantaHut_proofs ---------------------------
(***************************************************************************)
(* Proofs about SantaHut, for any number of reindeer and elves, with and   *)
(* without spurious wake-ups.                                              *)
(*                                                                         *)
(* The safety properties are inductive only together.  The counters are    *)
(* exact because a worker is counted and Santa resets in the same critical *)
(* section, so the invariant needs to know who holds which mutex (Locks)   *)
(* and which code a thread can be in (Roles).                              *)
(***************************************************************************)
EXTENDS SantaHut, FiniteSetTheorems, TLAPS

\* Santa runs santa(), the workers run the other functions.
Roles ==
  /\ pc[Santa] \notin InWait \cup {"entered", "away"}
  /\ \A w \in Worker :
       pc[w] \notin {"check_elf", "check_reindeer", "help", "deliver",
                     "unborn", "announce"}

\* A mutex is held by exactly the thread that is in the section it protects.
Locks ==
  /\ \A t \in Thread : pc[t] \in InSantaSection <=> mutex["santa"] = t
  /\ \A w \in Worker : pc[w] \in InOwnSection <=> mutex[Kind(w)] = w

\* Santa goes to sleep only when nobody calls; no call comes in between.
HearsBeforeSleep == pc[Santa] = "park_santa" => wake_santa = 0

IInv ==
  /\ TypeOK
  /\ Roles
  /\ Locks
  /\ CountExact
  /\ TrioExact
  /\ WakeBalanced
  /\ NoStaleFlag
  /\ SantaHearsCall
  /\ HearsBeforeSleep

-----------------------------------------------------------------------------
(* Kinds and groups.                                                       *)

\* Every worker is a member of its own kind and of no other.
LEMMA KindOfMember ==
  /\ \A w \in Worker : Kind(w) \in Kinds /\ w \in Members(Kind(w))
  /\ \A k \in Kinds : \A w \in Members(k) : w \in Worker /\ Kind(w) = k
BY SantaAssumption DEF Kind, Kinds, Members, Worker

\* A group has at least one member, and there are finitely many of its kind.
LEMMA QuorumPositive ==
  \A k \in Kinds : Quorum(k) \in Nat \ {0} /\ IsFiniteSet(Members(k))
<1>1. Cardinality(Reindeer) \in Nat \ {0}
  BY SantaAssumption, FS_CardinalityType, FS_EmptySet
<1> QED
  BY <1>1, SantaAssumption DEF Quorum, Members, Kinds

-----------------------------------------------------------------------------
(* Who runs what, and who holds which mutex.                               *)

\* No step takes a thread to code it does not run.
LEMMA RolesStep ==
  ASSUME IInv, Next
  PROVE  Roles'
<1> USE SantaAssumption DEF IInv, TypeOK, Roles, Thread, Worker, InWait
<1>1. PICK t \in Thread : Step(t) \/ WakeUnasked(t)
  BY DEF Next
<1>2. CASE PassSantaCv(t)
  BY <1>2 DEF PassSantaCv
<1>3. CASE FailSantaCv(t)
  BY <1>3 DEF FailSantaCv
<1>4. CASE Park(t)
  BY <1>4 DEF Park
<1>5. CASE WakeUnasked(t)
  BY <1>5 DEF WakeUnasked, Awake
<1>6. CASE t \in Worker /\ WorkerStep(t)
  <2>1. CASE ComeToHut(t)
    BY <1>6, <2>1 DEF ComeToHut
  <2>2. CASE GiveUp(t)
    BY <1>6, <2>2 DEF GiveUp
  <2>3. CASE Register(t)
    BY <1>6, <2>3 DEF Register, Audience, NotifyAll, Awake
  <2>4. CASE Leave(t)
    BY <1>6, <2>4 DEF Leave
  <2>5. CASE Stay(t)
    BY <1>6, <2>5 DEF Stay
  <2> QED
    BY <1>6, <2>1, <2>2, <2>3, <2>4, <2>5 DEF WorkerStep
<1>7. CASE t = Santa /\ SantaStep
  <2>1. CASE BeBorn
    BY <2>1 DEF BeBorn
  <2>2. CASE AnnounceBirth
    BY <2>2 DEF AnnounceBirth, NotifyAll, Awake
  <2>3. ASSUME NEW k \in Kinds, StartServing(k)
        PROVE  Roles'
    BY <2>3 DEF StartServing, CheckLabel, ServeLabel, Kinds
  <2>4. ASSUME NEW k \in Kinds, SkipGroup(k)
        PROVE  Roles'
    BY <2>4 DEF SkipGroup, AfterGroup, CheckLabel, Kinds
  <2>5. ASSUME NEW k \in Kinds, FinishServing(k)
        PROVE  Roles'
    BY <2>5 DEF FinishServing, AfterGroup, NotifyAll, Awake, ServeLabel, Kinds
  <2>6. ASSUME NEW w \in Worker, SetFlag(w)
        PROVE  Roles'
    BY <2>6 DEF SetFlag
  <2> QED
    BY <1>7, <2>1, <2>2, <2>3, <2>4, <2>5, <2>6 DEF SantaStep
<1> QED
  BY <1>1, <1>2, <1>3, <1>4, <1>5, <1>6, <1>7 DEF Step

\* Every step takes and releases exactly the mutexes of the sections it enters
\* and leaves.
LEMMA LocksStep ==
  ASSUME IInv, Next
  PROVE  Locks'
<1> USE SantaAssumption, KindOfMember
    DEF IInv, TypeOK, Roles, Locks, Thread, Worker, InWait, InSantaSection, InOwnSection
<1>1. PICK t \in Thread : Step(t) \/ WakeUnasked(t)
  BY DEF Next
<1>a. \A w \in Worker : Kind(w) # "santa" /\ Kind(w) \in Kinds
  BY DEF Kind, Kinds
<1>2. CASE PassSantaCv(t)
  BY <1>2, <1>a DEF PassSantaCv, Locked
<1>3. CASE FailSantaCv(t)
  BY <1>3, <1>a DEF FailSantaCv, Lock, Locked
<1>4. CASE Park(t)
  <2>1. CASE pc[t] = "park_santa"
    BY <1>4, <1>a, <2>1 DEF Park, Unlock, Locked
  <2>2. CASE pc[t] = "park_own"
    <3>1. t \in Worker /\ mutex[Kind(t)] = t
      BY <2>2
    <3>2. /\ pc' = [pc EXCEPT ![t] = "on_own_cv"]
          /\ mutex' = [mutex EXCEPT ![Kind(t)] = Nobody]
      BY <1>4, <2>2 DEF Park, Unlock, Locked
    <3>3. \A w \in Worker : w # t /\ Kind(w) = Kind(t) => pc[w] \notin InOwnSection
      BY <3>1
    <3> QED
      BY <1>a, <2>2, <3>1, <3>2, <3>3
  <2> QED
    BY <1>4, <2>1, <2>2 DEF Park
<1>5. CASE WakeUnasked(t)
  BY <1>5, <1>a DEF WakeUnasked, Awake
<1>6. CASE t \in Worker /\ WorkerStep(t)
  <2>1. CASE ComeToHut(t)
    BY <1>6, <2>1, <1>a DEF ComeToHut, Lock, Locked
  <2>2. CASE GiveUp(t)
    BY <1>6, <2>2, <1>a DEF GiveUp, Unlock, Locked
  <2>3. CASE Register(t)
    BY <1>6, <2>3, <1>a DEF Register, Audience, NotifyAll, Awake
  <2>4. CASE Leave(t)
    BY <1>6, <2>4, <1>a DEF Leave, AtPredicate, Unlock, Locked
  <2>5. CASE Stay(t)
    BY <1>6, <2>5, <1>a DEF Stay, AtPredicate, Locked
  <2> QED
    BY <1>6, <2>1, <2>2, <2>3, <2>4, <2>5 DEF WorkerStep
<1>7. CASE t = Santa /\ SantaStep
  <2>1. CASE BeBorn
    BY <2>1 DEF BeBorn
  <2>2. CASE AnnounceBirth
    BY <2>2 DEF AnnounceBirth, NotifyAll, Awake
  <2>3. ASSUME NEW k \in Kinds, StartServing(k)
        PROVE  Locks'
    BY <2>3 DEF StartServing, CheckLabel, ServeLabel, Kinds
  <2>4. ASSUME NEW k \in Kinds, SkipGroup(k)
        PROVE  Locks'
    BY <2>4, <1>a DEF SkipGroup, AfterGroup, CheckLabel, Kinds, Locked
  <2>5. ASSUME NEW k \in Kinds, FinishServing(k)
        PROVE  Locks'
    BY <2>5, <1>a DEF FinishServing, AfterGroup, NotifyAll, Awake, ServeLabel, Kinds, Locked
  <2>6. ASSUME NEW w \in Worker, SetFlag(w)
        PROVE  Locks'
    BY <2>6 DEF SetFlag
  <2> QED
    BY <1>7, <2>1, <2>2, <2>3, <2>4, <2>5, <2>6 DEF SantaStep
<1> QED
  BY <1>1, <1>2, <1>3, <1>4, <1>5, <1>6, <1>7 DEF Step

-----------------------------------------------------------------------------
(* The counters.                                                           *)

\* While Santa serves a group he holds santa_mutex, and serves no other group.
LEMMA ServingAlone ==
  ASSUME IInv
  PROVE  /\ \A k \in Kinds : Serving(k) => mutex["santa"] = Santa
         /\ ~(Serving("elf") /\ Serving("reindeer"))
         /\ \A k \in Kinds : Serving(k) <=> pc[Santa] = ServeLabel[k]
BY DEF IInv, Locks, Serving, ServeLabel, InSantaSection, Thread, Kinds

\* Waiting threads are finitely many.
LEMMA WaitersFinite ==
  ASSUME NEW k \in Kinds
  PROVE  /\ Waiters(k) \subseteq Members(k)
         /\ IsFiniteSet(Waiters(k))
         /\ Cardinality(Waiters(k)) \in Nat
         /\ Cardinality(Waiters(k)) <= Cardinality(Members(k))
<1>1. Waiters(k) \subseteq Members(k)
  BY DEF Waiters
<1> QED
  BY <1>1, QuorumPositive, FS_Subset, FS_CardinalityType

\* A worker at the hut's door is not counted yet, and there is room for it:
\* an elf has looked, a reindeer is the one that is missing.
LEMMA RoomToRegister ==
  ASSUME IInv, NEW w \in Worker, Register(w)
  PROVE  /\ w \notin Waiters(Kind(w)) /\ ~go[w]
         /\ \A k \in Kinds : ~Serving(k)
         /\ waiting[Kind(w)] \in Nat
         /\ waiting[Kind(w)] < Quorum(Kind(w))
         /\ wake_santa' = wake_santa + (Complete(Kind(w)))'
<1>1. ~go[w] /\ w \notin Waiters(Kind(w))
  BY DEF IInv, NoStaleFlag, Register, InWait, Waiters
<1>2. \A k \in Kinds : ~Serving(k)
  BY ServingAlone, SantaAssumption DEF Register, Thread
<1>3. Kind(w) \in Kinds /\ w \in Members(Kind(w))
  BY KindOfMember
<1>4. waiting[Kind(w)] \in Nat /\ waiting[Kind(w)] = Cardinality(Waiters(Kind(w)))
  BY <1>2, <1>3 DEF IInv, CountExact, TypeOK
<1>5. waiting[Kind(w)] < Quorum(Kind(w))
  <2>1. CASE Kind(w) = "elf"
    BY <2>1, <1>4, SantaAssumption DEF Register, CrowdFull, Quorum
  <2>2. CASE Kind(w) = "reindeer"
    <3>1. Waiters("reindeer") \subseteq Members("reindeer") \ {w}
      BY <1>1, <2>2 DEF Waiters
    <3>2. /\ IsFiniteSet(Members("reindeer"))
          /\ Cardinality(Members("reindeer")) = Quorum("reindeer")
          /\ Quorum("reindeer") \in Nat
      BY QuorumPositive DEF Members, Quorum, Kinds
    <3>3. /\ IsFiniteSet(Members("reindeer") \ {w})
          /\ Cardinality(Members("reindeer") \ {w}) = Quorum("reindeer") - 1
      BY <3>2, <1>3, <2>2, FS_RemoveElement
    <3>4. Cardinality(Waiters("reindeer")) <= Quorum("reindeer") - 1
      BY <3>1, <3>3, FS_Subset
    <3> QED
      BY <3>2, <3>4, <1>4, <2>2
  <2> QED
    BY <2>1, <2>2, <1>3 DEF Kinds
<1>6. wake_santa' = wake_santa + (Complete(Kind(w)))'
  <2>1. /\ waiting'[Kind(w)] = waiting[Kind(w)] + 1
        /\ wake_santa \in Int
        /\ Quorum(Kind(w)) \in Nat
    BY <1>3, QuorumPositive DEF Register, IInv, TypeOK
  <2>2. IsLast(w) <=> waiting'[Kind(w)] = Quorum(Kind(w))
    BY <2>1, <1>4, <1>5 DEF IsLast
  <2> QED
    BY <2>1, <2>2 DEF Register, Complete
<1> QED
  BY <1>1, <1>2, <1>4, <1>5, <1>6

\* The flags Santa sets when he starts are those of the threads that wait.
LEMMA CalledAreWaiting ==
  ASSUME IInv, NEW k \in Kinds, StartServing(k)
  PROVE  Waiters(k) = Called(k)
<1>1. ~Serving(k) /\ (k = "elf" => ~Serving("elf"))
  BY DEF StartServing, Serving, CheckLabel, ServeLabel, Kinds
<1>2. waiting[k] = Quorum(k) /\ waiting[k] = Cardinality(Waiters(k))
  BY <1>1 DEF StartServing, IInv, CountExact
<1>3. CASE k = "elf"
  BY <1>1, <1>2, <1>3 DEF IInv, TrioExact, Called, Quorum
<1>4. CASE k = "reindeer"
  <2>1. Waiters(k) \subseteq Reindeer
    BY <1>4 DEF Waiters, Members
  <2> QED
    BY <2>1, <1>2, <1>4, FS_Subset, SantaAssumption DEF Called, Quorum
<1> QED
  BY <1>3, <1>4 DEF Kinds

-----------------------------------------------------------------------------
(* Which steps change who waits.                                           *)

\* The steps that neither count a worker nor serve a group.
QuietStep ==
  \/ \E t \in Thread : PassSantaCv(t) \/ FailSantaCv(t) \/ Park(t) \/ WakeUnasked(t)
  \/ \E w \in Worker : ComeToHut(w) \/ GiveUp(w) \/ Leave(w) \/ Stay(w)
  \/ BeBorn \/ AnnounceBirth
  \/ \E k \in Kinds : SkipGroup(k)

\* What the counters are about.
Books == <<waiting, waiting_elves_ids, wake_santa, todo>>

LEMMA NextCases ==
  ASSUME Next
  PROVE  \/ QuietStep
         \/ \E w \in Worker : Register(w) \/ SetFlag(w)
         \/ \E k \in Kinds : StartServing(k) \/ FinishServing(k)
BY DEF Next, Step, WorkerStep, SantaStep, QuietStep

\* A quiet step leaves the books alone, and nobody starts or stops waiting.
LEMMA QuietKeeps ==
  ASSUME IInv, QuietStep
  PROVE  /\ UNCHANGED Books
         /\ \A k \in Kinds : Waiters(k)' = Waiters(k) /\ Serving(k)' = Serving(k)
<1> DEFINE Keeps ==
     /\ UNCHANGED Books
     /\ \A w \in Worker :
          (pc'[w] \in InWait /\ ~go'[w]) <=> (pc[w] \in InWait /\ ~go[w])
     /\ \A k \in Kinds : (pc'[Santa] = ServeLabel[k]) <=> (pc[Santa] = ServeLabel[k])
<1> USE SantaAssumption DEF IInv, TypeOK, Roles, Thread, Worker, InWait, Books,
                            ServeLabel, Kinds
<1>1. ASSUME NEW t \in Thread, PassSantaCv(t)  PROVE Keeps
  BY <1>1 DEF PassSantaCv
<1>2. ASSUME NEW t \in Thread, FailSantaCv(t)  PROVE Keeps
  BY <1>2 DEF FailSantaCv
<1>3. ASSUME NEW t \in Thread, Park(t)  PROVE Keeps
  BY <1>3 DEF Park
<1>4. ASSUME NEW t \in Thread, WakeUnasked(t)  PROVE Keeps
  BY <1>4 DEF WakeUnasked, Awake
<1>5. ASSUME NEW w \in Worker, ComeToHut(w)  PROVE Keeps
  BY <1>5 DEF ComeToHut
<1>6. ASSUME NEW w \in Worker, GiveUp(w)  PROVE Keeps
  BY <1>6 DEF GiveUp
<1>7. ASSUME NEW w \in Worker, Leave(w)  PROVE Keeps
  BY <1>7 DEF Leave
<1>8. ASSUME NEW w \in Worker, Stay(w)  PROVE Keeps
  BY <1>8 DEF Stay, AtPredicate
<1>9. ASSUME BeBorn  PROVE Keeps
  BY <1>9 DEF BeBorn
<1>10. ASSUME AnnounceBirth  PROVE Keeps
  BY <1>10 DEF AnnounceBirth, NotifyAll, Awake
<1>11. ASSUME NEW k \in Kinds, SkipGroup(k)  PROVE Keeps
  BY <1>11 DEF SkipGroup, AfterGroup, CheckLabel
<1>12. Keeps
  BY <1>1, <1>2, <1>3, <1>4, <1>5, <1>6, <1>7, <1>8, <1>9, <1>10, <1>11 DEF QuietStep
<1>13. \A k \in Kinds : Waiters(k)' = Waiters(k)
  BY <1>12, KindOfMember DEF Waiters
<1> QED
  BY <1>12, <1>13 DEF Serving

\* The other steps change the waiting threads of one kind in one way each.
LEMMA RegisterEffect ==
  ASSUME IInv, NEW w \in Worker, Register(w)
  PROVE  /\ \A k \in Kinds :
              /\ ~Serving(k)' /\ ~Serving(k)
              /\ Waiters(k)' = IF k = Kind(w) THEN Waiters(k) \cup {w} ELSE Waiters(k)
              /\ waiting'[k] = IF k = Kind(w) THEN waiting[k] + 1 ELSE waiting[k]
<1>1. \A v \in Worker \ {w} : (pc'[v] \in InWait <=> pc[v] \in InWait) /\ go'[v] = go[v]
  BY SantaAssumption DEF IInv, TypeOK, Register, Audience, NotifyAll, Awake, InWait, Thread, Worker
<1>2. pc'[w] = "pred_own" /\ go'[w] = go[w]
  BY SantaAssumption DEF IInv, TypeOK, Register, Audience, NotifyAll, Thread, Worker
<1>3. \A k \in Kinds : ~Serving(k)' /\ ~Serving(k)
  <2>1. pc'[Santa] \in {pc[Santa], "lock_santa"}
    BY SantaAssumption DEF IInv, TypeOK, Register, Audience, NotifyAll, Awake, Thread, Worker
  <2>2. \A k \in Kinds : ~Serving(k)
    BY RoomToRegister
  <2> QED
    BY <2>1, <2>2 DEF Serving, ServeLabel, Kinds
<1>4. ~go[w] /\ w \in Members(Kind(w))
  BY RoomToRegister, KindOfMember
<1>5. \A k \in Kinds : waiting'[k] = IF k = Kind(w) THEN waiting[k] + 1 ELSE waiting[k]
  BY DEF IInv, TypeOK, Register
<1>6. ASSUME NEW k \in Kinds
      PROVE  Waiters(k)' = IF k = Kind(w) THEN Waiters(k) \cup {w} ELSE Waiters(k)
  BY <1>1, <1>2, <1>4, KindOfMember DEF Waiters, InWait
<1> QED
  BY <1>3, <1>5, <1>6

LEMMA StartEffect ==
  ASSUME IInv, NEW k \in Kinds, StartServing(k)
  PROVE  /\ UNCHANGED <<waiting, waiting_elves_ids, wake_santa>>
         /\ \A j \in Kinds : Waiters(j)' = Waiters(j) /\ ~Serving(j)
         /\ \A j \in Kinds : Serving(j)' <=> j = k
         /\ todo' = Waiters(k)
<1>1. \A v \in Worker : pc'[v] = pc[v] /\ go'[v] = go[v]
  BY SantaAssumption DEF IInv, TypeOK, StartServing, Thread, Worker
<1>2. \A j \in Kinds : Waiters(j)' = Waiters(j)
  BY <1>1, KindOfMember DEF Waiters
<1>3. todo' = Waiters(k)
  BY CalledAreWaiting DEF StartServing
<1>4. \A j \in Kinds : ~Serving(j) /\ (Serving(j)' <=> j = k)
  BY DEF IInv, TypeOK, StartServing, Serving, ServeLabel, CheckLabel, Thread, Kinds
<1> QED
  BY <1>2, <1>3, <1>4 DEF StartServing

LEMMA SetFlagEffect ==
  ASSUME IInv, NEW w \in Worker, SetFlag(w)
  PROVE  \E k \in Kinds :
           /\ UNCHANGED <<waiting, waiting_elves_ids, wake_santa>>
           /\ Waiters(k) = todo
           /\ todo' = todo \ {w}
           /\ \A j \in Kinds : /\ Serving(j) <=> j = k
                               /\ Serving(j)' <=> j = k
                               /\ Waiters(j)' = Waiters(j) \ {w}
                               /\ w \in Waiters(j) <=> j = k
<1>1. PICK k \in Kinds : Serving(k) /\ (\A j \in Kinds : Serving(j) <=> j = k)
  BY DEF SetFlag, Serving, ServeLabel, Kinds
<1>2. Waiters(k) = todo
  BY <1>1 DEF IInv, CountExact
<1>3. w \in Waiters(k) /\ Kind(w) = k
  BY <1>1, <1>2, KindOfMember DEF SetFlag, Waiters
<1>4. pc' = pc /\ \A v \in Worker : go'[v] = IF v = w THEN TRUE ELSE go[v]
  BY DEF IInv, TypeOK, SetFlag
<1>5. \A j \in Kinds : Serving(j)' <=> Serving(j)
  BY <1>4 DEF Serving
<1>6. ASSUME NEW j \in Kinds
      PROVE  Waiters(j)' = Waiters(j) \ {w} /\ (w \in Waiters(j) <=> j = k)
  BY <1>3, <1>4, KindOfMember DEF Waiters
<1> QED
  BY <1>1, <1>2, <1>5, <1>6 DEF SetFlag

LEMMA FinishEffect ==
  ASSUME IInv, NEW k \in Kinds, FinishServing(k)
  PROVE  /\ UNCHANGED <<waiting_elves_ids, todo>>
         /\ waiting' = [waiting EXCEPT ![k] = 0]
         /\ wake_santa' = wake_santa - 1
         /\ Waiters(k) = {} /\ waiting[k] = Quorum(k)
         /\ \A j \in Kinds : Waiters(j)' = Waiters(j) /\ ~Serving(j)'
         /\ \A j \in Kinds : Serving(j) <=> j = k
<1>1. /\ \A j \in Kinds : ~Serving(j)'
      /\ \A j \in Kinds : Serving(j) <=> j = k
  BY SantaAssumption DEF IInv, TypeOK, FinishServing, AfterGroup, NotifyAll, Awake,
                         Serving, ServeLabel, Thread, Kinds
<1>2. Waiters(k) = {} /\ waiting[k] = Quorum(k)
  BY <1>1 DEF IInv, CountExact, FinishServing
<1>3. \A v \in Worker : (pc'[v] \in InWait <=> pc[v] \in InWait) /\ go'[v] = go[v]
  BY SantaAssumption DEF IInv, TypeOK, FinishServing, AfterGroup, NotifyAll, Awake,
                         InWait, Thread, Worker
<1>4. \A j \in Kinds : Waiters(j)' = Waiters(j)
  BY <1>3, KindOfMember DEF Waiters
<1> QED
  BY <1>1, <1>2, <1>4 DEF FinishServing

-----------------------------------------------------------------------------
(* Each part of the invariant is kept.                                     *)

LEMMA CountStep ==
  ASSUME IInv, Next
  PROVE  CountExact'
<1> USE DEF CountExact
<1>0. CountExact /\ waiting \in [Kinds -> Nat]
  BY DEF IInv, TypeOK
<1>1. CASE QuietStep
  BY <1>0, <1>1, QuietKeeps DEF Books
<1>2. ASSUME NEW w \in Worker, Register(w)
      PROVE  CountExact'
  <2>1. SUFFICES ASSUME NEW k \in Kinds
                 PROVE  waiting'[k] = Cardinality(Waiters(k)')
    BY <1>2, RegisterEffect
  <2>2. waiting[k] = Cardinality(Waiters(k))
    BY <1>0, <1>2, RegisterEffect
  <2>3. CASE k = Kind(w)
    BY <1>2, <2>2, <2>3, RegisterEffect, RoomToRegister, WaitersFinite, FS_AddElement
  <2>4. CASE k # Kind(w)
    BY <1>2, <2>2, <2>4, RegisterEffect
  <2> QED
    BY <2>3, <2>4
<1>3. ASSUME NEW w \in Worker, SetFlag(w)
      PROVE  CountExact'
  <2>1. PICK k \in Kinds :
           /\ UNCHANGED <<waiting, waiting_elves_ids, wake_santa>>
           /\ Waiters(k) = todo
           /\ todo' = todo \ {w}
           /\ \A j \in Kinds : /\ Serving(j) <=> j = k
                               /\ Serving(j)' <=> j = k
                               /\ Waiters(j)' = Waiters(j) \ {w}
                               /\ w \in Waiters(j) <=> j = k
    BY <1>3, SetFlagEffect
  <2>2. \A j \in Kinds : j # k => Waiters(j)' = Waiters(j)
    BY <2>1
  <2> QED
    BY <1>0, <2>1, <2>2
<1>4. ASSUME NEW k \in Kinds, StartServing(k)
      PROVE  CountExact'
  BY <1>0, <1>4, StartEffect DEF StartServing
<1>5. ASSUME NEW k \in Kinds, FinishServing(k)
      PROVE  CountExact'
  <2>1. waiting'[k] = 0 /\ Waiters(k)' = {}
    BY <1>0, <1>5, FinishEffect
  <2>2. \A j \in Kinds : j # k => waiting'[j] = waiting[j] /\ Waiters(j)' = Waiters(j)
    BY <1>0, <1>5, FinishEffect
  <2> QED
    BY <1>0, <1>5, <2>1, <2>2, FinishEffect, FS_EmptySet
<1> QED
  BY <1>1, <1>2, <1>3, <1>4, <1>5, NextCases

LEMMA TypeOKStep ==
  ASSUME IInv, Next
  PROVE  TypeOK'
<1> DEFINE BooksTyped ==
     /\ waiting \in [Kinds -> Nat]
     /\ \A k \in Kinds : waiting[k] <= Quorum(k)
     /\ wake_santa \in Int
     /\ waiting_elves_ids \in [0..(TrioSize - 1) -> Elf \cup {Nobody}]
     /\ todo \subseteq Worker
<1> DEFINE ControlTyped ==
     /\ pc \in [Thread -> Labels]
     /\ mutex \in [Kinds \cup {"santa"} -> Thread \cup {Nobody}]
     /\ go \in [Worker -> BOOLEAN]
     /\ santa_exists \in BOOLEAN
<1>1. BooksTyped'
  <2> USE DEF IInv, TypeOK
  <2>1. CASE QuietStep
    BY <2>1, QuietKeeps DEF Books
  <2>2. ASSUME NEW w \in Worker, Register(w)
        PROVE  BooksTyped'
    <3>1. waiting' \in [Kinds -> Nat] /\ \A k \in Kinds : waiting'[k] <= Quorum(k)
      <4>1. /\ Kind(w) \in Kinds
            /\ \A k \in Kinds : Quorum(k) \in Nat
        BY KindOfMember, QuorumPositive
      <4>2. waiting[Kind(w)] < Quorum(Kind(w))
        BY <2>2, RoomToRegister
      <4>3. waiting' = [waiting EXCEPT ![Kind(w)] = @ + 1]
        BY <2>2 DEF Register
      <4> QED
        BY <4>1, <4>2, <4>3
    <3>2. waiting_elves_ids' \in [0..(TrioSize - 1) -> Elf \cup {Nobody}]
      BY <2>2 DEF Register, IdsWith, Kind, Worker
    <3> QED
      BY <2>2, <3>1, <3>2 DEF Register
  <2>3. ASSUME NEW w \in Worker, SetFlag(w)
        PROVE  BooksTyped'
    BY <2>3 DEF SetFlag
  <2>4. ASSUME NEW k \in Kinds, StartServing(k)
        PROVE  BooksTyped'
    BY <2>4, StartEffect, KindOfMember DEF Waiters
  <2>5. ASSUME NEW k \in Kinds, FinishServing(k)
        PROVE  BooksTyped'
    BY <2>5, QuorumPositive DEF FinishServing
  <2> QED
    BY <2>1, <2>2, <2>3, <2>4, <2>5, NextCases
<1>2. ControlTyped'
  <2> USE DEF IInv, TypeOK, Thread, Labels, InSantaSection, InOwnSection, InWait
  <2>1. CASE QuietStep
    <3> USE DEF Lock, Unlock, Locked, Awake, NotifyAll, AfterGroup
    <3>1. ASSUME NEW t \in Thread,
                 PassSantaCv(t) \/ FailSantaCv(t) \/ Park(t) \/ WakeUnasked(t)
          PROVE  ControlTyped'
      <4>1. CASE PassSantaCv(t)
        BY <4>1 DEF PassSantaCv
      <4>2. CASE FailSantaCv(t)
        BY <4>2 DEF FailSantaCv
      <4>3. CASE Park(t)
        <5>1. mutex' \in [Kinds \cup {"santa"} -> Thread \cup {Nobody}]
          BY <4>3 DEF Park, Kind, Kinds
        <5> QED
          BY <4>3, <5>1 DEF Park
      <4>4. CASE WakeUnasked(t)
        BY <4>4 DEF WakeUnasked
      <4> QED
        BY <3>1, <4>1, <4>2, <4>3, <4>4
    <3>2. ASSUME NEW w \in Worker, ComeToHut(w) \/ GiveUp(w) \/ Leave(w) \/ Stay(w)
          PROVE  ControlTyped'
      <4>1. Kind(w) \in Kinds
        BY DEF Kind, Kinds
      <4>2. CASE ComeToHut(w)
        BY <4>1, <4>2 DEF ComeToHut
      <4>3. CASE GiveUp(w)
        BY <4>1, <4>3 DEF GiveUp
      <4>4. CASE Leave(w)
        BY <4>1, <4>4 DEF Leave
      <4>5. CASE Stay(w)
        BY <4>1, <4>5 DEF Stay
      <4> QED
        BY <3>2, <4>2, <4>3, <4>4, <4>5
    <3>3. ASSUME BeBorn \/ AnnounceBirth
          PROVE  ControlTyped'
      BY <3>3 DEF BeBorn, AnnounceBirth
    <3>4. ASSUME NEW k \in Kinds, SkipGroup(k)
          PROVE  ControlTyped'
      BY <3>4 DEF SkipGroup
    <3> QED
      BY <2>1, <3>1, <3>2, <3>3, <3>4 DEF QuietStep
  <2>2. ASSUME NEW w \in Worker, Register(w) \/ SetFlag(w)
        PROVE  ControlTyped'
    BY <2>2 DEF Register, SetFlag, NotifyAll, Awake
  <2>3. ASSUME NEW k \in Kinds, StartServing(k)
        PROVE  ControlTyped'
    BY <2>3 DEF StartServing, ServeLabel, Kinds
  <2>4. ASSUME NEW k \in Kinds, FinishServing(k)
        PROVE  ControlTyped'
    <3>1. NotifyAll(Members(k), "on_own_cv") \in [Thread -> Labels]
      BY DEF NotifyAll, Awake
    <3>2. pc' \in [Thread -> Labels]
      BY <2>4, <3>1 DEF FinishServing, AfterGroup
    <3>3. mutex' \in [Kinds \cup {"santa"} -> Thread \cup {Nobody}]
      BY <2>4 DEF FinishServing, AfterGroup, Locked
    <3> QED
      BY <2>4, <3>2, <3>3 DEF FinishServing
  <2> QED
    BY <2>1, <2>2, <2>3, <2>4, NextCases
<1> QED
  BY <1>1, <1>2 DEF TypeOK

\* During the service the waiting threads are those still to be told; at other
\* times an elf that registers is recorded behind the ones already there.
LEMMA TrioStep ==
  ASSUME IInv, Next
  PROVE  TrioExact'
<1> USE DEF TrioExact
<1>0. TrioExact /\ "elf" \in Kinds
  BY DEF IInv, Kinds
<1>1. CASE QuietStep
  BY <1>0, <1>1, QuietKeeps DEF Books
<1>2. ASSUME NEW w \in Worker, Register(w)
      PROVE  TrioExact'
  <2>1. ~Serving("elf")
    BY <1>0, <1>2, RegisterEffect
  <2>2. CASE Kind(w) = "elf"
    <3>1. waiting["elf"] \in Nat /\ waiting["elf"] < TrioSize
      BY <1>2, <2>2, RoomToRegister DEF Quorum
    <3>2. /\ waiting'["elf"] = waiting["elf"] + 1
          /\ Waiters("elf")' = Waiters("elf") \cup {w}
          /\ w \notin Waiters("elf")
      BY <1>0, <1>2, <2>2, RegisterEffect, RoomToRegister
    <3>3. \A i \in 0..waiting["elf"] :
            waiting_elves_ids'[i] = IF i = waiting["elf"] THEN w ELSE waiting_elves_ids[i]
      BY <1>2, <2>2, <3>1, SantaAssumption DEF Register, IdsWith, IInv, TypeOK
    <3>4. 0..(waiting'["elf"] - 1) = (0..(waiting["elf"] - 1)) \cup {waiting["elf"]}
      BY <3>1, <3>2
    <3> QED
      BY <1>0, <2>1, <3>1, <3>2, <3>3, <3>4
  <2>3. CASE Kind(w) # "elf"
    <3>1. waiting_elves_ids' = waiting_elves_ids
      BY <1>2, <2>3 DEF Register, IdsWith
    <3> QED
      BY <1>0, <1>2, <2>1, <2>3, <3>1, RegisterEffect
  <2> QED
    BY <2>2, <2>3
<1>3. ASSUME NEW w \in Worker, SetFlag(w)
      PROVE  TrioExact'
  <2>1. Serving("elf")' \/ (Waiters("elf")' = Waiters("elf") /\ ~Serving("elf"))
    BY <1>0, <1>3, SetFlagEffect
  <2> QED
    BY <1>0, <1>3, <2>1, SetFlagEffect
<1>4. ASSUME NEW k \in Kinds, StartServing(k)
      PROVE  TrioExact'
  BY <1>0, <1>4, StartEffect
<1>5. ASSUME NEW k \in Kinds, FinishServing(k)
      PROVE  TrioExact'
  <2>1. CASE k = "elf"
    <3>1. waiting'["elf"] = 0 /\ Waiters("elf")' = {}
      BY <1>0, <1>5, <2>1, FinishEffect DEF IInv, TypeOK
    <3> QED
      BY <3>1
  <2>2. CASE k # "elf"
    <3>1. /\ ~Serving("elf")
          /\ waiting'["elf"] = waiting["elf"]
          /\ Waiters("elf")' = Waiters("elf")
          /\ waiting_elves_ids' = waiting_elves_ids
      BY <1>0, <1>5, <2>2, FinishEffect DEF IInv, TypeOK
    <3> QED
      BY <1>0, <3>1
  <2> QED
    BY <2>1, <2>2
<1> QED
  BY <1>1, <1>2, <1>3, <1>4, <1>5, NextCases

\* A call is added when a group becomes complete and taken back when it is
\* dismissed, both together with the counter.
LEMMA WakeStep ==
  ASSUME IInv, Next
  PROVE  WakeBalanced'
<1>0. /\ WakeBalanced /\ waiting \in [Kinds -> Nat] /\ wake_santa \in Int
      /\ \A k \in Kinds : Quorum(k) \in Nat \ {0}
      /\ "elf" \in Kinds /\ "reindeer" \in Kinds
  BY QuorumPositive DEF IInv, TypeOK, Kinds
<1>1. CASE QuietStep
  BY <1>0, <1>1, QuietKeeps DEF Books, WakeBalanced, Complete
<1>2. ASSUME NEW w \in Worker, Register(w)
      PROVE  WakeBalanced'
  <2>1. Complete(Kind(w)) = 0
    BY <1>2, RoomToRegister, KindOfMember DEF Complete
  <2>2. \A k \in Kinds : k # Kind(w) => (Complete(k))' = Complete(k)
    BY <1>2, RegisterEffect DEF Complete
  <2>3. Kind(w) = "elf" \/ Kind(w) = "reindeer"
    BY DEF Kind
  <2>4. wake_santa' = wake_santa + (Complete(Kind(w)))'
    BY <1>2, RoomToRegister
  <2>5. \A k \in Kinds : Complete(k) \in Nat /\ (Complete(k))' \in Nat
    BY DEF Complete
  <2> QED
    BY <1>0, <2>1, <2>2, <2>3, <2>4, <2>5 DEF WakeBalanced
<1>3. ASSUME NEW w \in Worker, SetFlag(w)
      PROVE  WakeBalanced'
  BY <1>0, <1>3 DEF SetFlag, WakeBalanced, Complete
<1>4. ASSUME NEW k \in Kinds, StartServing(k)
      PROVE  WakeBalanced'
  BY <1>0, <1>4 DEF StartServing, WakeBalanced, Complete
<1>5. ASSUME NEW k \in Kinds, FinishServing(k)
      PROVE  WakeBalanced'
  BY <1>0, <1>5, FinishEffect DEF WakeBalanced, Complete, Kinds
<1> QED
  BY <1>1, <1>2, <1>3, <1>4, <1>5, NextCases

\* Only Santa gives permission, to a thread that waits; leaving takes it back.
LEMMA StaleStep ==
  ASSUME IInv, Next
  PROVE  NoStaleFlag'
<1> USE SantaAssumption DEF IInv, TypeOK, NoStaleFlag, InWait, Thread, Worker
<1>1. PICK t \in Thread : Step(t) \/ WakeUnasked(t)
  BY DEF Next
<1>2. CASE PassSantaCv(t)
  BY <1>2 DEF PassSantaCv
<1>3. CASE FailSantaCv(t)
  BY <1>3 DEF FailSantaCv
<1>4. CASE Park(t)
  BY <1>4 DEF Park
<1>5. CASE WakeUnasked(t)
  BY <1>5 DEF WakeUnasked, Awake
<1>6. CASE t \in Worker /\ WorkerStep(t)
  <2>1. CASE ComeToHut(t)
    BY <1>6, <2>1 DEF ComeToHut
  <2>2. CASE GiveUp(t)
    BY <1>6, <2>2 DEF GiveUp
  <2>3. CASE Register(t)
    BY <1>6, <2>3 DEF Register, Audience, NotifyAll, Awake
  <2>4. CASE Leave(t)
    BY <1>6, <2>4 DEF Leave
  <2>5. CASE Stay(t)
    BY <1>6, <2>5 DEF Stay
  <2> QED
    BY <1>6, <2>1, <2>2, <2>3, <2>4, <2>5 DEF WorkerStep
<1>7. CASE t = Santa /\ SantaStep
  <2>1. CASE BeBorn
    BY <2>1 DEF BeBorn
  <2>2. CASE AnnounceBirth
    BY <2>2 DEF AnnounceBirth, NotifyAll, Awake
  <2>3. ASSUME NEW k \in Kinds, StartServing(k)
        PROVE  NoStaleFlag'
    BY <2>3 DEF StartServing
  <2>4. ASSUME NEW k \in Kinds, SkipGroup(k)
        PROVE  NoStaleFlag'
    BY <2>4 DEF SkipGroup, AfterGroup
  <2>5. ASSUME NEW k \in Kinds, FinishServing(k)
        PROVE  NoStaleFlag'
    BY <2>5 DEF FinishServing, AfterGroup, NotifyAll, Awake
  <2>6. ASSUME NEW w \in Worker, SetFlag(w)
        PROVE  NoStaleFlag'
    <3>1. pc[w] \in InWait
      BY <2>6, SetFlagEffect DEF Waiters
    <3> QED
      BY <2>6, <3>1 DEF SetFlag
  <2> QED
    BY <1>7, <2>1, <2>2, <2>3, <2>4, <2>5, <2>6 DEF SantaStep
<1> QED
  BY <1>1, <1>2, <1>3, <1>4, <1>5, <1>6, <1>7 DEF Step

\* Between Santa's look at wake_santa and his going to sleep nobody can call,
\* for santa_mutex is his; a later call wakes him.
LEMMA HearStep ==
  ASSUME IInv, Next
  PROVE  SantaHearsCall' /\ HearsBeforeSleep'
<1> DEFINE Hears == pc[Santa] \in {"park_santa", "on_santa_cv"} => wake_santa = 0
<1> USE SantaAssumption DEF IInv, TypeOK, Thread, Worker
<1>0. Hears
  BY DEF SantaHearsCall, HearsBeforeSleep
<1>1. Hears'
  <2>1. PICK t \in Thread : Step(t) \/ WakeUnasked(t)
    BY DEF Next
  <2>2. CASE PassSantaCv(t)
    BY <1>0, <2>2 DEF PassSantaCv
  <2>3. CASE FailSantaCv(t)
    BY <1>0, <2>3 DEF FailSantaCv, SantaPredicate
  <2>4. CASE Park(t)
    BY <1>0, <2>4 DEF Park, Roles, InWait
  <2>5. CASE WakeUnasked(t)
    BY <1>0, <2>5 DEF WakeUnasked, Awake
  <2>6. CASE t \in Worker /\ Register(t)
    <3>1. pc[Santa] # "park_santa"
      BY <2>6 DEF Register, Locks, InSantaSection
    <3>2. CASE IsLast(t)
      BY <2>6, <3>1, <3>2 DEF Register, Audience, NotifyAll, Awake
    <3>3. CASE ~IsLast(t)
      BY <1>0, <2>6, <3>3 DEF Register, Audience, NotifyAll
    <3> QED
      BY <3>2, <3>3
  <2>7. CASE t \in Worker /\ (ComeToHut(t) \/ GiveUp(t) \/ Leave(t) \/ Stay(t))
    BY <1>0, <2>7 DEF ComeToHut, GiveUp, Leave, Stay
  <2>8. CASE t = Santa /\ SantaStep
    <3>1. CASE BeBorn
      BY <3>1 DEF BeBorn
    <3>2. CASE AnnounceBirth
      BY <3>2 DEF AnnounceBirth, NotifyAll
    <3>3. ASSUME NEW k \in Kinds, StartServing(k) \/ SkipGroup(k) \/ FinishServing(k)
          PROVE  Hears'
      BY <3>3 DEF StartServing, SkipGroup, FinishServing, AfterGroup, NotifyAll,
                  ServeLabel, Kinds
    <3>4. ASSUME NEW w \in Worker, SetFlag(w)
          PROVE  Hears'
      BY <1>0, <3>4 DEF SetFlag
    <3> QED
      BY <2>8, <3>1, <3>2, <3>3, <3>4 DEF SantaStep
  <2> QED
    BY <2>1, <2>2, <2>3, <2>4, <2>5, <2>6, <2>7, <2>8 DEF Step, WorkerStep
<1> QED
  BY <1>1 DEF SantaHearsCall, HearsBeforeSleep

-----------------------------------------------------------------------------
(* The invariant, and what follows from it.                                *)

LEMMA IInvInit == Init => IInv
<1> SUFFICES ASSUME Init  PROVE IInv
  OBVIOUS
<1> USE SantaAssumption
<1>0. /\ pc[Santa] = "unborn"
      /\ \A w \in Worker : pc[w] = "lock_santa" /\ ~go[w]
  BY DEF Init, Thread, Worker
<1>1. \A k \in Kinds : Waiters(k) = {} /\ ~Serving(k)
  BY <1>0, KindOfMember DEF Waiters, Serving, ServeLabel, InWait, Kinds
<1>2. TypeOK
  <2>1. pc \in [Thread -> Labels]
    BY DEF Init, Labels
  <2>2. \A k \in Kinds : waiting[k] = 0 /\ waiting[k] <= Quorum(k)
    BY QuorumPositive DEF Init
  <2>3. /\ mutex \in [Kinds \cup {"santa"} -> Thread \cup {Nobody}]
        /\ go \in [Worker -> BOOLEAN]
        /\ waiting \in [Kinds -> Nat]
    BY DEF Init
  <2>4. waiting_elves_ids \in [0..(TrioSize - 1) -> Elf \cup {Nobody}]
    BY DEF Init
  <2>5. wake_santa \in Int
    BY DEF Init
  <2>6. santa_exists \in BOOLEAN /\ todo \subseteq Worker
    BY DEF Init
  <2> QED
    BY <2>1, <2>2, <2>3, <2>4, <2>5, <2>6 DEF TypeOK
<1>3. Roles /\ Locks
  <2>1. mutex["santa"] = Nobody /\ \A w \in Worker : mutex[Kind(w)] = Nobody
    BY DEF Init, Kind, Kinds
  <2> QED
    BY <1>0, <2>1 DEF Roles, Locks, InSantaSection, InOwnSection, InWait, Thread, Worker
<1>4. CountExact /\ TrioExact
  <2>1. \A k \in Kinds : waiting[k] = 0
    BY DEF Init
  <2>2. 0..(waiting["elf"] - 1) = {}
    BY <2>1 DEF Kinds
  <2> QED
    BY <1>1, <2>1, <2>2, FS_EmptySet DEF CountExact, TrioExact, Kinds
<1>5. WakeBalanced
  BY QuorumPositive DEF Init, WakeBalanced, Complete, Kinds
<1>6. NoStaleFlag /\ SantaHearsCall /\ HearsBeforeSleep
  BY <1>0 DEF NoStaleFlag, SantaHearsCall, HearsBeforeSleep
<1> QED
  BY <1>2, <1>3, <1>4, <1>5, <1>6 DEF IInv

LEMMA IInvStep == IInv /\ [Next]_vars => IInv'
<1> SUFFICES ASSUME IInv, [Next]_vars  PROVE IInv'
  OBVIOUS
<1>1. CASE Next
  BY <1>1, TypeOKStep, RolesStep, LocksStep, CountStep, TrioStep, WakeStep,
     StaleStep, HearStep DEF IInv
<1>2. CASE UNCHANGED vars
  BY <1>2 DEF vars, IInv, TypeOK, Roles, Locks, CountExact, TrioExact, WakeBalanced,
              NoStaleFlag, SantaHearsCall, HearsBeforeSleep, Waiters, Serving, Complete
<1> QED
  BY <1>1, <1>2

THEOREM IInvHolds == Spec => []IInv
BY IInvInit, IInvStep, PTL DEF Spec

\* The hut never holds more than a group of a kind, so no elf writes behind
\* the end of waiting_elves_ids (common.hpp:93, 100, 110).
THEOREM TypeOKHolds == Spec => []TypeOK
BY IInvHolds, PTL DEF IInv

\* elves_waiting and reindeer_waiting count the threads that wait; the group
\* Santa serves is the complete group (common.hpp:68-86, 99-119, 139-163).
THEOREM CountExactHolds == Spec => []CountExact
BY IInvHolds, PTL DEF IInv

\* The recorded ids are those of the waiting elves (common.hpp:100, 110, 144).
THEOREM TrioExactHolds == Spec => []TrioExact
BY IInvHolds, PTL DEF IInv

\* No call for Santa is lost or answered twice (common.hpp:79, 112, 149, 161).
THEOREM WakeBalancedHolds == Spec => []WakeBalanced
BY IInvHolds, PTL DEF IInv

\* Santa never sleeps while a group is complete (common.hpp:80, 113, 136).
THEOREM SantaHearsCallHolds == Spec => []SantaHearsCall
BY IInvHolds, PTL DEF IInv

\* A permission is used by the visit it was given for (common.hpp:75, 86, 107,
\* 119, 145, 157).
THEOREM NoStaleFlagHolds == Spec => []NoStaleFlag
BY IInvHolds, PTL DEF IInv

-----------------------------------------------------------------------------
(* The hut implements SantaProblem.                                        *)

LEMMA ProblemInit == Init => Problem!Init
<1> SUFFICES ASSUME Init  PROVE Problem!Init
  OBVIOUS
<1>1. /\ pc[Santa] = "unborn"
      /\ \A w \in Worker : pc[w] = "lock_santa" /\ ~go[w]
  BY SantaAssumption DEF Init, Thread, Worker
<1>2. \A k \in Kinds : Waiters(k) = {} /\ ~Serving(k)
  BY <1>1, KindOfMember DEF Waiters, Serving, ServeLabel, InWait, Kinds
<1> QED
  BY <1>1, <1>2 DEF Problem!Init, Problem!Kinds, Kinds, Queued, Served, Released

LEMMA ProblemStep == IInv /\ [Next]_vars => [Problem!Next]_(Problem!vars)
<1> SUFFICES ASSUME IInv, [Next]_vars  PROVE [Problem!Next]_(Problem!vars)
  OBVIOUS
<1>a. \A S : Problem!Cardinality(S) = Cardinality(S)
  BY DEF Problem!Cardinality, Cardinality
<1>0. /\ Problem!Kinds = Kinds
      /\ \A k : Problem!Members(k) = Members(k) /\ Problem!Quorum(k) = Quorum(k)
  BY <1>a DEF Problem!Kinds, Problem!Members, Problem!Quorum, Kinds, Members, Quorum
\* A quiet step changes nothing, except that a thread that leaves goes back.
<1>1. CASE QuietStep
  <2>1. Queued' = Queued /\ Served' = Served
    BY <1>1, QuietKeeps DEF Queued, Served, Books
  <2>2. ASSUME NEW w \in Worker, Leave(w)
        PROVE  Problem!GoBack(w)
    <3>1. w \in Released /\ Released' = Released \ {w}
      BY <2>2 DEF Leave, Released, IInv, TypeOK
    <3> QED
      BY <2>1, <3>1 DEF Problem!GoBack
  <2>3. CASE \E w \in Worker : Leave(w)
    BY <2>2, <2>3 DEF Problem!Next, Worker
  <2>4. CASE ~ \E w \in Worker : Leave(w)
    <3>1. go' = go
      BY <1>1, <2>4 DEF QuietStep, PassSantaCv, FailSantaCv, Park, WakeUnasked, ComeToHut,
                        GiveUp, Stay, BeBorn, AnnounceBirth, SkipGroup
    <3> QED
      BY <2>1, <3>1 DEF Released, Problem!vars
  <2> QED
    BY <2>3, <2>4
\* A worker that is counted joins the queue of its kind.
<1>2. ASSUME NEW w \in Worker, Register(w)
      PROVE  Problem!Next
  <2> DEFINE k == Kind(w)
  <2>1. k \in Kinds /\ w \in Members(k)
    BY KindOfMember
  <2>2. \A j \in Kinds : /\ Queued[j] = Waiters(j) /\ Served[j] = {}
                         /\ Queued'[j] = IF j = k THEN Waiters(j) \cup {w} ELSE Waiters(j)
                         /\ Served'[j] = {}
    BY <1>2, RegisterEffect DEF Queued, Served
  <2>3. Queued' = [Queued EXCEPT ![k] = @ \cup {w}] /\ Served' = Served
    BY <2>1, <2>2 DEF Queued, Served
  <2>4. Cardinality(Queued[k]) < Quorum(k)
    BY <1>2, <2>1, <2>2, RoomToRegister DEF IInv, CountExact
  <2>5. w \notin Queued[k] /\ w \notin Released /\ Released' = Released
    BY <1>2, <2>1, <2>2, RoomToRegister DEF Released, Register
  <2>6. Problem!Join(k, w)
    BY <1>a, <1>0, <2>1, <2>2, <2>3, <2>4, <2>5 DEF Problem!Join
  <2> QED
    BY <1>0, <2>1, <2>6 DEF Problem!Next
\* Setting a flag releases a member of the group that is served.
<1>3. ASSUME NEW w \in Worker, SetFlag(w)
      PROVE  Problem!Next
  <2>1. PICK k \in Kinds :
           /\ UNCHANGED <<waiting, waiting_elves_ids, wake_santa>>
           /\ Waiters(k) = todo
           /\ todo' = todo \ {w}
           /\ \A j \in Kinds : /\ Serving(j) <=> j = k
                               /\ Serving(j)' <=> j = k
                               /\ Waiters(j)' = Waiters(j) \ {w}
                               /\ w \in Waiters(j) <=> j = k
    BY <1>3, SetFlagEffect
  <2>2. w \in Served[k] /\ w \in Members(k)
    BY <2>1 DEF Served, Waiters
  <2>3. Served' = [Served EXCEPT ![k] = @ \ {w}]
    BY <2>1 DEF Served
  <2>4. \A j \in Kinds : j # k => Waiters(j)' = Waiters(j)
    BY <2>1
  <2>5. Queued' = Queued
    BY <2>1, <2>4 DEF Queued
  <2>6. Released' = Released \cup {w}
    BY <1>3 DEF SetFlag, Released, IInv, TypeOK
  <2>7. Problem!Release(k, w)
    BY <2>2, <2>3, <2>5, <2>6 DEF Problem!Release
  <2> QED
    BY <1>0, <2>1, <2>2, <2>7 DEF Problem!Next
\* Santa starts with a complete group.
<1>4. ASSUME NEW k \in Kinds, StartServing(k)
      PROVE  Problem!Next
  <2>1. /\ \A j \in Kinds : Queued[j] = Waiters(j) /\ Served[j] = {}
        /\ Queued' = [Queued EXCEPT ![k] = {}]
        /\ Served' = [Served EXCEPT ![k] = Queued[k]]
    BY <1>4, StartEffect DEF Queued, Served
  <2>2. Cardinality(Queued[k]) = Quorum(k)
    BY <1>4, <2>1, StartEffect DEF StartServing, IInv, CountExact
  <2>3. Released' = Released
    BY <1>4 DEF StartServing, Released
  <2>4. Problem!Serve(k)
    BY <1>a, <1>0, <2>1, <2>2, <2>3 DEF Problem!Serve
  <2> QED
    BY <1>0, <2>4 DEF Problem!Next
\* Santa is done when everybody has been released: nothing is left to change.
<1>5. ASSUME NEW k \in Kinds, FinishServing(k)
      PROVE  UNCHANGED Problem!vars
  <2>1. Queued' = Queued /\ Served' = Served
    <3>1. UNCHANGED todo /\ Waiters(k) = {}
      BY <1>5, FinishEffect
    <3>2. \A j \in Kinds : Waiters(j)' = Waiters(j) /\ ~Serving(j)' /\ (Serving(j) <=> j = k)
      BY <1>5, FinishEffect
    <3>3. \A j \in Kinds :
            (IF Serving(j)' THEN {} ELSE Waiters(j)') = (IF Serving(j) THEN {} ELSE Waiters(j))
      BY <3>1, <3>2
    <3>4. Queued' = Queued
      BY <3>3 DEF Queued
    <3>5. \A j \in Kinds : ~Serving(j)' /\ (Serving(j) => todo = {})
      BY <1>5, <3>2 DEF FinishServing
    <3>6. Served' = Served
      BY <3>5 DEF Served
    <3> QED
      BY <3>4, <3>6
  <2>2. Released' = Released
    BY <1>5 DEF FinishServing, Released
  <2> QED
    BY <2>1, <2>2 DEF Problem!vars
<1>6. CASE UNCHANGED vars
  BY <1>6 DEF vars, Problem!vars, Queued, Served, Released, Waiters, Serving
<1> QED
  BY <1>1, <1>2, <1>3, <1>4, <1>5, <1>6, NextCases

\* Whatever the interleaving, Santa serves complete groups, one at a time, and
\* releases every member once (common.hpp:64-165).
THEOREM ImplementsProblemHolds == Spec => ImplementsProblem
BY ProblemInit, ProblemStep, IInvHolds, PTL DEF Spec, ImplementsProblem, Problem!Spec

=============================================================================
