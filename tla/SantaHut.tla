------------------------------ MODULE SantaHut ------------------------------
(***************************************************************************)
(* The Santa Claus program of cw09/zad1: nine reindeer, ten elves and      *)
(* Santa are threads that meet in a SantaHut object.  The hut has three    *)
(* std::mutex, three std::condition_variable and some std::atomic          *)
(* counters and flags.                                                     *)
(*                                                                         *)
(* reindeerComeback and elfHasProblem follow the same pattern: lock the    *)
(* mutex of the kind, lock santa_mutex, count oneself, and, as the last of *)
(* the group, call Santa; unlock santa_mutex; wait on the kind's condition *)
(* variable for one's own flag.  They are modelled by the same actions,    *)
(* indexed by the worker; Quorum and CrowdFull hold the differences.       *)
(*                                                                         *)
(* A step is the code between two points where another thread can see a    *)
(* difference; locking a mutex is one step with what follows it.           *)
(* wait(lock, pred) is two steps, as in the library: the predicate is      *)
(* evaluated under the lock, and if it is false the thread unlocks and     *)
(* blocks in one step; once notified it starts over.  Santa sets the       *)
(* workers' flags and notifies them WITHOUT their mutex.                   *)
(***************************************************************************)
EXTENDS Integers, FiniteSets

CONSTANTS
  Reindeer,         \* the reindeer threads (REINDEER_COUNT = 9)
  Elf,              \* the elf threads (ELVES_COUNT = 10)
  Santa,            \* the main thread, which runs santa()
  Nobody,           \* "no thread": a free mutex, an unused array entry
  TrioSize,         \* the elves that make a group: 3 in the code
  SpuriousWakeups   \* may a condition variable wake a thread unasked?

ASSUME SantaAssumption ==
  /\ IsFiniteSet(Reindeer) /\ Reindeer # {} /\ IsFiniteSet(Elf)
  /\ Reindeer \cap Elf = {}
  /\ Santa \notin Reindeer \cup Elf
  /\ Nobody \notin Reindeer \cup Elf \cup {Santa}
  /\ TrioSize \in Nat \ {0}
  /\ SpuriousWakeups \in BOOLEAN

VARIABLES
  pc,                 \* what each thread is about to do
  mutex,              \* the owner of santa_mutex, elf_mutex, reindeer_mutex
  go,                 \* go_to_work of an elf, go_to_holiday of a reindeer
  waiting,            \* elves_waiting and reindeer_waiting
  waiting_elves_ids,  \* the array of the ids of a trio
  wake_santa,         \* the number of calls Santa has not answered
  santa_exists,
  todo                \* the flags Santa's current loop has still to set

vars == <<pc, mutex, go, waiting, waiting_elves_ids, wake_santa,
          santa_exists, todo>>

Worker == Reindeer \cup Elf
Thread == Worker \cup {Santa}
Kinds  == {"elf", "reindeer"}

Kind(w) == IF w \in Elf THEN "elf" ELSE "reindeer"

Members(k) == IF k = "elf" THEN Elf ELSE Reindeer

\* The group that makes Santa get up: a trio of elves, or every reindeer.
Quorum(k) == IF k = "elf" THEN TrioSize ELSE Cardinality(Reindeer)

Init ==
  /\ pc = [t \in Thread |-> IF t = Santa THEN "unborn" ELSE "lock_santa"]
  /\ mutex = [m \in Kinds \cup {"santa"} |-> Nobody]
  /\ go = [w \in Worker |-> FALSE]
  /\ waiting = [k \in Kinds |-> 0]
  /\ waiting_elves_ids = [i \in 0..(TrioSize - 1) |-> Nobody]
  /\ wake_santa = 0
  /\ santa_exists = FALSE
  /\ todo = {}

-----------------------------------------------------------------------------
(* Mutexes and condition variables.                                        *)

Locked(m, t) == [mutex EXCEPT ![m] = t]

Lock(m, t) == mutex[m] = Nobody /\ mutex' = Locked(m, t)

Unlock(m) == mutex' = Locked(m, Nobody)

\* A thread that is woken has to lock again before it looks at its predicate.
Awake(cv) == IF cv = "on_santa_cv" THEN "lock_santa" ELSE "relock_own"

\* notify_all wakes the members of S that are blocked at that moment.
NotifyAll(S, cv) ==
  [t \in Thread |-> IF t \in S /\ pc[t] = cv THEN Awake(cv) ELSE pc[t]]

\* santa_cv is waited on by Santa, for a call, and by all others, for his birth.
SantaPredicate(t) == IF t = Santa THEN wake_santa # 0 ELSE santa_exists

\* Lock santa_mutex and find the predicate true: Santa keeps the mutex, a
\* worker releases it and enters its loop.
PassSantaCv(t) ==
  /\ pc[t] = "lock_santa"
  /\ mutex["santa"] = Nobody
  /\ SantaPredicate(t)
  /\ pc' = [pc EXCEPT ![t] = IF t = Santa THEN "check_elf" ELSE "away"]
  /\ mutex' = IF t = Santa THEN Locked("santa", t) ELSE mutex
  /\ UNCHANGED <<go, waiting, waiting_elves_ids, wake_santa, santa_exists, todo>>

FailSantaCv(t) ==
  /\ pc[t] = "lock_santa"
  /\ Lock("santa", t)
  /\ ~SantaPredicate(t)
  /\ pc' = [pc EXCEPT ![t] = "park_santa"]
  /\ UNCHANGED <<go, waiting, waiting_elves_ids, wake_santa, santa_exists, todo>>

\* Unlocking and blocking are one step of the condition variable.
Park(t) ==
  /\ \/ pc[t] = "park_santa" /\ Unlock("santa")
        /\ pc' = [pc EXCEPT ![t] = "on_santa_cv"]
     \/ pc[t] = "park_own" /\ Unlock(Kind(t))
        /\ pc' = [pc EXCEPT ![t] = "on_own_cv"]
  /\ UNCHANGED <<go, waiting, waiting_elves_ids, wake_santa, santa_exists, todo>>

\* The standard allows a wait to end although nobody has notified.
WakeUnasked(t) ==
  /\ SpuriousWakeups
  /\ pc[t] \in {"on_santa_cv", "on_own_cv"}
  /\ pc' = [pc EXCEPT ![t] = Awake(@)]
  /\ UNCHANGED <<mutex, go, waiting, waiting_elves_ids, wake_santa, santa_exists, todo>>

-----------------------------------------------------------------------------
(* Reindeer and elves.                                                     *)

\* Mutant: one elf too many is let in.
CrowdFullLate(w) == Kind(w) = "elf" /\ waiting["elf"] > TrioSize

\* Only elves look whether the hut is full, and then solve their problem
\* themselves.
CrowdFull(w) == Kind(w) = "elf" /\ waiting["elf"] >= TrioSize

\* The sleep is over: lock the mutex of one's kind.
ComeToHut(w) ==
  /\ pc[w] = "away"
  /\ Lock(Kind(w), w)
  /\ pc' = [pc EXCEPT ![w] = "entered"]
  /\ UNCHANGED <<go, waiting, waiting_elves_ids, wake_santa, santa_exists, todo>>

GiveUp(w) ==
  /\ pc[w] = "entered"
  /\ CrowdFull(w)
  /\ Unlock(Kind(w))
  /\ pc' = [pc EXCEPT ![w] = "away"]
  /\ UNCHANGED <<go, waiting, waiting_elves_ids, wake_santa, santa_exists, todo>>

\* Mutant: the call comes one worker late.
IsLastLate(w) == waiting[Kind(w)] >= Quorum(Kind(w))

\* The worker completes its group (the else branches of the two functions).
IsLast(w) == waiting[Kind(w)] >= Quorum(Kind(w)) - 1

\* Mutants: only Santa is notified; nobody is.
AudienceSanta(w) == IF IsLast(w) THEN {Santa} ELSE {}
AudienceNobody(w) == {}

\* notify_all reaches Santa and whoever still waits for his birth.
Audience(w) == IF IsLast(w) THEN Thread ELSE {}

\* Mutant: the id is recorded after the counter was increased.
IdsWithShifted(w) ==
  IF Kind(w) = "elf" THEN [waiting_elves_ids EXCEPT ![waiting["elf"] + 1] = w]
                     ELSE waiting_elves_ids

IdsWith(w) ==
  IF Kind(w) = "elf" THEN [waiting_elves_ids EXCEPT ![waiting["elf"]] = w]
                     ELSE waiting_elves_ids

\* The section under santa_mutex, which its last statement releases: the
\* worker is counted, and the last of a group calls Santa.
Register(w) ==
  /\ pc[w] = "entered"
  /\ ~CrowdFull(w)
  /\ mutex["santa"] = Nobody
  /\ waiting' = [waiting EXCEPT ![Kind(w)] = @ + 1]
  /\ waiting_elves_ids' = IdsWith(w)
  /\ wake_santa' = IF IsLast(w) THEN wake_santa + 1 ELSE wake_santa
  /\ pc' = [NotifyAll(Audience(w), "on_santa_cv")
              EXCEPT ![w] = "pred_own"]
  /\ UNCHANGED <<mutex, go, santa_exists, todo>>

\* The worker holds its mutex, or locks it again, and looks at its flag.
AtPredicate(w) ==
  pc[w] = "pred_own" \/ (pc[w] = "relock_own" /\ mutex[Kind(w)] = Nobody)

Leave(w) ==
  /\ AtPredicate(w)
  /\ go[w]
  /\ go' = [go EXCEPT ![w] = FALSE]
  /\ Unlock(Kind(w))
  /\ pc' = [pc EXCEPT ![w] = "away"]
  /\ UNCHANGED <<waiting, waiting_elves_ids, wake_santa, santa_exists, todo>>

Stay(w) ==
  /\ AtPredicate(w)
  /\ ~go[w]
  /\ pc' = [pc EXCEPT ![w] = "park_own"]
  /\ mutex' = Locked(Kind(w), w)
  /\ UNCHANGED <<go, waiting, waiting_elves_ids, wake_santa, santa_exists, todo>>

-----------------------------------------------------------------------------
(* Santa.                                                                  *)

\* Both without santa_mutex: a worker can evaluate its predicate before the
\* first step and block after the second one.
BeBorn ==
  /\ pc[Santa] = "unborn"
  /\ santa_exists' = TRUE
  /\ pc' = [pc EXCEPT ![Santa] = "announce"]
  /\ UNCHANGED <<mutex, go, waiting, waiting_elves_ids, wake_santa, todo>>

AnnounceBirth ==
  /\ pc[Santa] = "announce"
  /\ pc' = [NotifyAll(Thread, "on_santa_cv") EXCEPT ![Santa] = "lock_santa"]
  /\ UNCHANGED <<mutex, go, waiting, waiting_elves_ids, wake_santa, santa_exists, todo>>

CheckLabel == [elf |-> "check_elf", reindeer |-> "check_reindeer"]
ServeLabel == [elf |-> "help", reindeer |-> "deliver"]

\* Mutants: the loop stops one elf early; the loop is over all the elves.
CalledShort(k) == IF k = "elf" THEN {waiting_elves_ids[i] : i \in 1..(TrioSize - 1)} ELSE Reindeer
CalledAll(k) == Members(k)

\* The flags the loop of a group sets: those of the recorded elves, or
\* of all the reindeer.
Called(k) == IF k = "elf" THEN {waiting_elves_ids[i] : i \in 0..(TrioSize - 1)} ELSE Reindeer

StartServing(k) ==
  /\ pc[Santa] = CheckLabel[k]
  /\ waiting[k] = Quorum(k)
  /\ pc' = [pc EXCEPT ![Santa] = ServeLabel[k]]
  /\ todo' = Called(k)
  /\ UNCHANGED <<mutex, go, waiting, waiting_elves_ids, wake_santa, santa_exists>>

\* One iteration of the loop, one atomic store.  The order of the stores is
\* left open.
SetFlag(w) ==
  /\ pc[Santa] \in {"help", "deliver"}
  /\ w \in todo
  /\ go' = [go EXCEPT ![w] = TRUE]
  /\ todo' = todo \ {w}
  /\ UNCHANGED <<pc, mutex, waiting, waiting_elves_ids, wake_santa, santa_exists>>

\* Mutant: the group is not notified.
AfterGroupSilent(k, labels) ==
  /\ pc' = [pc EXCEPT ![Santa] = IF k = "elf" THEN "check_reindeer" ELSE "lock_santa"]
  /\ mutex' = IF k = "elf" THEN mutex ELSE Locked("santa", Nobody)

\* After the elves come the reindeer; after the reindeer the lock of this
\* round is released and the loop starts over.
AfterGroup(k, labels) ==
  /\ pc' = [labels EXCEPT ![Santa] = IF k = "elf" THEN "check_reindeer" ELSE "lock_santa"]
  /\ mutex' = IF k = "elf" THEN mutex ELSE Locked("santa", Nobody)

SkipGroup(k) ==
  /\ pc[Santa] = CheckLabel[k]
  /\ waiting[k] # Quorum(k)
  /\ AfterGroup(k, pc)
  /\ UNCHANGED <<go, waiting, waiting_elves_ids, wake_santa, santa_exists, todo>>

FinishServing(k) ==
  /\ pc[Santa] = ServeLabel[k]
  /\ todo = {}
  /\ waiting' = [waiting EXCEPT ![k] = 0]
  /\ wake_santa' = wake_santa - 1
  /\ AfterGroup(k, NotifyAll(Members(k), "on_own_cv"))
  /\ UNCHANGED <<go, waiting_elves_ids, santa_exists, todo>>

-----------------------------------------------------------------------------
WorkerStep(w) ==
  ComeToHut(w) \/ GiveUp(w) \/ Register(w) \/ Leave(w) \/ Stay(w)

SantaStep ==
  \/ BeBorn \/ AnnounceBirth
  \/ \E k \in Kinds : StartServing(k) \/ SkipGroup(k) \/ FinishServing(k)
  \/ \E w \in Worker : SetFlag(w)

Step(t) ==
  \/ PassSantaCv(t) \/ FailSantaCv(t) \/ Park(t)
  \/ t \in Worker /\ WorkerStep(t)
  \/ t = Santa /\ SantaStep

Next == \E t \in Thread : Step(t) \/ WakeUnasked(t)

\* The scheduler runs every thread, and a thread that finds a mutex free
\* again and again takes it in the end: between two visits everybody sleeps
\* for seconds outside of all locks.  Spurious wake-ups are never relied on.
Fairness == \A t \in Thread : SF_vars(Step(t))

Spec == Init /\ [][Next]_vars
FairSpec == Spec /\ Fairness

-----------------------------------------------------------------------------
(* Properties.                                                             *)

InSantaSection == {"park_santa", "check_elf", "check_reindeer", "help", "deliver"}
InOwnSection == {"entered", "pred_own", "park_own"}
InWait == {"pred_own", "park_own", "on_own_cv", "relock_own"}

Labels == InSantaSection \cup InOwnSection \cup InWait
            \cup {"lock_santa", "on_santa_cv", "away", "unborn", "announce"}

\* Types.  In particular neither counter passes the size of its group, so an
\* elf never writes past the end of waiting_elves_ids (common.hpp:61, 100, 110).
TypeOK ==
  /\ pc \in [Thread -> Labels]
  /\ mutex \in [Kinds \cup {"santa"} -> Thread \cup {Nobody}]
  /\ go \in [Worker -> BOOLEAN]
  /\ waiting \in [Kinds -> Nat]
  /\ \A k \in Kinds : waiting[k] <= Quorum(k)
  /\ waiting_elves_ids \in [0..(TrioSize - 1) -> Elf \cup {Nobody}]
  /\ wake_santa \in Int
  /\ santa_exists \in BOOLEAN
  /\ todo \subseteq Worker

\* The workers that are counted in waiting[k] and not yet told to go.
Waiters(k) == {w \in Members(k) : pc[w] \in InWait /\ ~go[w]}

Serving(k) == pc[Santa] = ServeLabel[k]

\* Each counter is exact: it is the number of threads of that kind that wait
\* without permission to go.  While Santa serves a group, exactly those whose
\* flag is still to be set are waiting.  So presents are delivered only when
\* every reindeer is back, and Santa never leaves out or adds a thread.
CountExact ==
  \A k \in Kinds :
    IF Serving(k) THEN waiting[k] = Quorum(k) /\ Waiters(k) = todo
                  ELSE waiting[k] = Cardinality(Waiters(k))

\* The recorded ids are the waiting elves, each once: the trio Santa helps is
\* the trio that called him, no stale id of an earlier trio is used.
TrioExact ==
  ~Serving("elf") =>
    /\ Waiters("elf") = {waiting_elves_ids[i] : i \in 0..(waiting["elf"] - 1)}
    /\ \A i, j \in 0..(waiting["elf"] - 1) :
         waiting_elves_ids[i] = waiting_elves_ids[j] => i = j

Complete(k) == IF waiting[k] = Quorum(k) THEN 1 ELSE 0

\* wake_santa counts the complete groups: no call is lost or answered twice,
\* even when both groups call while Santa is busy.
WakeBalanced == wake_santa = Complete("elf") + Complete("reindeer")

\* Santa never sleeps through a call: he is blocked only while no group is
\* complete (the reason why the callers notify under santa_mutex).
SantaHearsCall == pc[Santa] = "on_santa_cv" => wake_santa = 0

\* A permission to go is never left over for a later visit.
NoStaleFlag == \A w \in Worker : go[w] => pc[w] \in InWait

\* Nobody misses Santa's birth for good, although it is announced without
\* santa_mutex: a later call of a group wakes a thread that did.
EverybodyStarts == \A w \in Worker : <>(pc[w] = "away")

\* Every complete group is served.
GroupServed == \A k \in Kinds : waiting[k] = Quorum(k) ~> waiting[k] = 0

\* common.hpp:54: Santa notifies each elf through its own flag.  Holds as long
\* as there are elves left to form another trio, whose end wakes an elf that
\* missed its own notification.
ElfReturnsToWork == \A e \in Elf : go[e] ~> pc[e] = "away"

\* common.hpp:53: Santa notifies each reindeer through its own flag.
ReindeerGoesOnHoliday == \A r \in Reindeer : go[r] ~> pc[r] = "away"

-----------------------------------------------------------------------------
(* The hut implements SantaProblem.                                        *)

Queued == [k \in Kinds |-> IF Serving(k) THEN {} ELSE Waiters(k)]
Served == [k \in Kinds |-> IF Serving(k) THEN todo ELSE {}]
Released == {w \in Worker : go[w]}

Problem == INSTANCE SantaProblem WITH
  queued <- Queued, served <- Served, released <- Released

\* Whatever the interleaving, Santa serves complete groups only, one group at
\* a time, and releases each member once (common.hpp:64-165).
ImplementsProblem == Problem!Spec
=============================================================================
