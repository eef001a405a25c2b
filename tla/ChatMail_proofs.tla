-------------------------- MODULE ChatMail_proofs --------------------------
(***************************************************************************)
(* What becomes of the messages of the chat, for every number of clients   *)
(* and requests and every capacity of the queues: texts arrive in their    *)
(* order and are not lost, and an answer to LIST is complete.              *)
(***************************************************************************)
EXTENDS Chat_proofs, FunctionTheorems

(***************************************************************************)
(* Queues: how many messages of a type there are.                          *)
(***************************************************************************)

\* r is q without its fth message.
LeavesOut(r, q, f) ==
  /\ f \in 1..Len(q)
  /\ Len(r) = Len(q) - 1
  /\ \A k \in 1..Len(r) : r[k] = q[Before(k, f)]

\* Every message but the fth has a place in what is left.
LEMMA BeforeOnto ==
  ASSUME NEW n \in Nat, NEW f \in 1..n
  PROVE  /\ \A k \in 1..(n - 1) : Before(k, f) \in 1..n \ {f}
         /\ \A j, k \in 1..(n - 1) : j < k => Before(j, f) < Before(k, f)
         /\ \A i \in 1..n \ {f} : \E k \in 1..(n - 1) : Before(k, f) = i
<1>1. \A k \in 1..(n - 1) : Before(k, f) \in 1..n \ {f}
  BY DEF Before
<1>2. \A j, k \in 1..(n - 1) : j < k => Before(j, f) < Before(k, f)
  BY DEF Before
<1>3. ASSUME NEW i \in 1..n \ {f}
      PROVE  \E k \in 1..(n - 1) : Before(k, f) = i
  <2>1. CASE i < f
    BY <2>1 DEF Before
  <2>2. CASE ~(i < f)
    <3>1. i - 1 \in 1..(n - 1) /\ Before(i - 1, f) = i
      BY <2>2 DEF Before
    <3> QED BY <3>1
  <2> QED BY <2>1, <2>2
<1> QED BY <1>1, <1>2, <1>3

LEMMA CountType ==
  ASSUME NEW q, NEW type, Len(q) \in Nat
  PROVE  /\ IsFiniteSet({k \in 1..Len(q) : q[k].type = type})
         /\ Count(q, type) \in Nat
<1>1. IsFiniteSet(1..Len(q))
  BY FS_Interval
<1>2. IsFiniteSet({k \in 1..Len(q) : q[k].type = type})
  BY <1>1, FS_Subset
<1> QED BY <1>2, FS_CardinalityType DEF Count

\* A message that has gone counts no more.
LEMMA CountLeavesOut ==
  ASSUME NEW q, NEW r, NEW f, NEW type, Len(q) \in Nat, LeavesOut(r, q, f)
  PROVE  /\ Count(r, type) \in Nat
         /\ Count(q, type) = Count(r, type) + (IF q[f].type = type THEN 1 ELSE 0)
<1> DEFINE P == {k \in 1..Len(q) : q[k].type = type}
           R == {k \in 1..Len(r) : r[k].type = type}
           g == [k \in R |-> Before(k, f)]
<1>1. /\ f \in 1..Len(q) /\ Len(r) = Len(q) - 1 /\ Len(r) \in Nat
      /\ \A k \in 1..Len(r) : Before(k, f) \in 1..Len(q) \ {f} /\ r[k] = q[Before(k, f)]
      /\ \A j, k \in 1..Len(r) : j < k => Before(j, f) < Before(k, f)
      /\ \A i \in 1..Len(q) \ {f} : \E k \in 1..Len(r) : Before(k, f) = i
  <2>1. f \in 1..Len(q) /\ Len(r) = Len(q) - 1
        /\ \A k \in 1..Len(r) : r[k] = q[Before(k, f)]
    BY DEF LeavesOut
  <2>2. /\ \A k \in 1..(Len(q) - 1) : Before(k, f) \in 1..Len(q) \ {f}
        /\ \A j, k \in 1..(Len(q) - 1) : j < k => Before(j, f) < Before(k, f)
        /\ \A i \in 1..Len(q) \ {f} : \E k \in 1..(Len(q) - 1) : Before(k, f) = i
    BY <2>1, BeforeOnto
  <2> QED BY <2>1, <2>2
<1>2. IsFiniteSet(P) /\ IsFiniteSet(R) /\ Count(q, type) = Cardinality(P)
      /\ Count(r, type) = Cardinality(R) /\ Count(r, type) \in Nat
  BY <1>1, CountType DEF Count
<1>3. g \in Bijection(R, P \ {f})
  <2>1. g \in [R -> P \ {f}]
    BY <1>1
  <2>2. \A j, k \in R : g[j] = g[k] => j = k
    BY <1>1, BeforeInjective
  <2>3. \A i \in P \ {f} : \E k \in R : g[k] = i
    <3> SUFFICES ASSUME NEW i \in P \ {f} PROVE \E k \in R : g[k] = i
      OBVIOUS
    <3>1. PICK k \in 1..Len(r) : Before(k, f) = i
      BY <1>1
    <3>2. k \in R
      BY <1>1, <3>1
    <3> QED BY <3>1, <3>2
  <2> HIDE DEF g, P, R
  <2> QED BY <2>1, <2>2, <2>3, Fun_IsBij
<1> HIDE DEF g, R
<1>4. Cardinality(R) = Cardinality(P \ {f})
  BY <1>2, <1>3, FS_Bijection DEF ExistsBijection
<1>5. CASE q[f].type = type
  <2>1. f \in P
    BY <1>1, <1>5
  <2> HIDE DEF P
  <2>2. Cardinality(P \ {f}) = Cardinality(P) - 1 /\ Cardinality(P) \in Nat
    BY <1>2, <2>1, FS_RemoveElement, FS_CardinalityType
  <2> QED BY <1>2, <1>4, <1>5, <2>2
<1>6. CASE q[f].type # type
  <2>1. P \ {f} = P
    BY <1>6
  <2> HIDE DEF P
  <2>2. Cardinality(R) = Cardinality(P)
    BY <1>4, <2>1
  <2>3. Count(q, type) = Count(r, type)
    BY <1>2, <2>2
  <2> QED BY <1>2, <1>6, <2>3
<1> QED BY <1>2, <1>5, <1>6

\* A message that has come counts.
LEMMA CountAppend ==
  ASSUME NEW S, NEW q \in Seq(S), NEW m \in S, NEW type
  PROVE  /\ Count(q, type) \in Nat
         /\ Count(Append(q, m), type) = Count(q, type) + (IF m.type = type THEN 1 ELSE 0)
<1> DEFINE r == Append(q, m)
           n == Len(q) + 1
<1>1. /\ r \in Seq(S) /\ Len(q) \in Nat /\ Len(r) = n
      /\ r[n] = m /\ \A k \in 1..Len(q) : r[k] = q[k]
  BY LenProperties
<1>2. n \in 1..n /\ LeavesOut(q, r, n)
  BY <1>1 DEF LeavesOut, Before
<1>3. Len(r) \in Nat
  BY <1>1
<1> HIDE DEF r, n
<1>4. /\ Count(q, type) \in Nat
      /\ Count(r, type) = Count(q, type) + (IF r[n].type = type THEN 1 ELSE 0)
  BY <1>2, <1>3, CountLeavesOut
<1> QED BY <1>1, <1>4 DEF r

LEMMA CountEmpty == \A type : Count(<<>>, type) = 0
<1>1. Len(<<>>) = 0
  BY EmptySeq
<1>2. \A type : {k \in 1..Len(<<>>) : <<>>[k].type = type} = {}
  BY <1>1
<1> QED BY <1>2, FS_EmptySet DEF Count

\* The first message of a sequence is gone from its tail.
LEMMA TailLeavesOut ==
  ASSUME NEW S, NEW q \in Seq(S), q # <<>>
  PROVE  /\ LeavesOut(Tail(q), q, 1) /\ Tail(q) \in Seq(S)
         /\ Len(q) \in Nat /\ Head(q) = q[1] /\ Head(q) \in S
<1>1. /\ Tail(q) \in Seq(S) /\ Len(q) \in Nat /\ Len(q) # 0 /\ Len(Tail(q)) = Len(q) - 1
      /\ Head(q) = q[1] /\ Head(q) \in S
      /\ \A k \in 1..(Len(q) - 1) : Tail(q)[k] = q[k + 1]
  BY HeadTailProperties, EmptySeq, LenProperties
<1>2. 1 \in 1..Len(q) /\ \A k \in 1..(Len(q) - 1) : Before(k, 1) = k + 1
  BY <1>1 DEF Before
<1> QED BY <1>1, <1>2 DEF LeavesOut

\* So is the message that msgrcv takes.
LEMMA TakenLeavesOut ==
  ASSUME NEW S, NEW q \in Seq(S), NEW type, Has(q, type)
  PROVE  /\ LeavesOut(Taken(q, type), q, FirstOf(q, type)) /\ Taken(q, type) \in Seq(S)
         /\ Len(q) \in Nat
         /\ q[FirstOf(q, type)].type = type /\ q[FirstOf(q, type)] \in S
<1>1. Len(q) \in Nat
  BY LenProperties
<1>2. FirstOf(q, type) \in 1..Len(q) /\ q[FirstOf(q, type)].type = type
  BY <1>1, FirstOfFinds
<1>3. q[FirstOf(q, type)] \in S
  BY <1>2, ElementOfSeq
<1> QED BY <1>1, <1>2, <1>3, TakenLeaves DEF LeavesOut

-----------------------------------------------------------------------------
(***************************************************************************)
(* Queues: what remains of one, and one after another.                     *)
(***************************************************************************)

\* r is q, or q without some of its messages.
Remains(r, q) ==
  \E at \in [1..Len(r) -> 1..Len(q)] :
    /\ \A k \in 1..Len(r) : r[k] = q[at[k]]
    /\ \A j, k \in 1..Len(r) : j < k => at[j] < at[k]

LEMMA RemainsSelf == \A q : Remains(q, q)
<1> SUFFICES ASSUME NEW q PROVE Remains(q, q)
  OBVIOUS
<1> DEFINE at == [k \in 1..Len(q) |-> k]
<1>1. at \in [1..Len(q) -> 1..Len(q)]
  OBVIOUS
<1>2. \A k \in 1..Len(q) : q[k] = q[at[k]]
  OBVIOUS
<1>3. \A j, k \in 1..Len(q) : j < k => at[j] < at[k]
  OBVIOUS
<1> QED BY <1>1, <1>2, <1>3 DEF Remains

LEMMA NothingRemains == \A q : Remains(<<>>, q)
<1> SUFFICES ASSUME NEW q PROVE Remains(<<>>, q)
  OBVIOUS
<1> DEFINE at == [k \in 1..Len(<<>>) |-> k]
<1>1. 1..Len(<<>>) = {}
  BY EmptySeq
<1>2. at \in [1..Len(<<>>) -> 1..Len(q)]
  BY <1>1
<1> QED BY <1>1, <1>2 DEF Remains

LEMMA LeavesOutRemains ==
  ASSUME NEW q, NEW r, NEW f, Len(q) \in Nat, LeavesOut(r, q, f)
  PROVE  Remains(r, q)
<1> DEFINE at == [k \in 1..Len(r) |-> Before(k, f)]
<1>1. /\ f \in 1..Len(q) /\ Len(r) = Len(q) - 1
      /\ \A k \in 1..Len(r) : r[k] = q[Before(k, f)]
  BY DEF LeavesOut
<1>2. /\ \A k \in 1..(Len(q) - 1) : Before(k, f) \in 1..Len(q) \ {f}
      /\ \A j, k \in 1..(Len(q) - 1) : j < k => Before(j, f) < Before(k, f)
  BY <1>1, BeforeOnto
<1>3. at \in [1..Len(r) -> 1..Len(q)]
  BY <1>1, <1>2
<1>4. \A k \in 1..Len(r) : r[k] = q[at[k]]
  BY <1>1
<1>5. \A j, k \in 1..Len(r) : j < k => at[j] < at[k]
  BY <1>1, <1>2
<1> HIDE DEF at
<1> QED BY <1>3, <1>4, <1>5 DEF Remains

\* The messages of q, then those of a.
Join(q, a) == q \o a

LEMMA JoinPlaces ==
  ASSUME NEW S, NEW q \in Seq(S), NEW a \in Seq(S), NEW w, w = Join(q, a)
  PROVE  /\ w \in Seq(S)
         /\ Len(q) \in Nat /\ Len(a) \in Nat /\ Len(w) \in Nat
         /\ Len(w) - Len(q) = Len(a)
         /\ \A k \in 1..Len(q) : w[k] = q[k]
         /\ \A k \in 1..Len(a) : w[Len(q) + k] = a[k]
<1>1. Len(q) \in Nat /\ Len(a) \in Nat
  BY LenProperties
<1>2. /\ q \o a \in Seq(S) /\ Len(q \o a) = Len(q) + Len(a)
      /\ \A k \in 1..(Len(q) + Len(a)) : (q \o a)[k] = IF k <= Len(q) THEN q[k] ELSE a[k - Len(q)]
  BY ConcatProperties
<1>3. w = q \o a
  BY DEF Join
<1>4. w \in Seq(S) /\ Len(w) = Len(q) + Len(a)
  BY <1>2, <1>3
<1>5. \A k \in 1..(Len(q) + Len(a)) : w[k] = IF k <= Len(q) THEN q[k] ELSE a[k - Len(q)]
  BY <1>2, <1>3
<1>6. \A k \in 1..Len(q) : w[k] = q[k]
  BY <1>1, <1>5
<1>7. \A k \in 1..Len(a) : w[Len(q) + k] = a[k]
  <2> SUFFICES ASSUME NEW k \in 1..Len(a) PROVE w[Len(q) + k] = a[k]
    OBVIOUS
  <2>1. PICK j : j = Len(q) + k
    OBVIOUS
  <2>2. j \in 1..(Len(q) + Len(a)) /\ ~(j <= Len(q)) /\ j - Len(q) = k
    BY <1>1, <2>1
  <2>3. w[j] = a[j - Len(q)]
    BY <1>5, <2>2
  <2> QED BY <2>1, <2>2, <2>3
<1>8. Len(w) \in Nat /\ Len(w) - Len(q) = Len(a)
  BY <1>1, <1>4
<1> QED BY <1>1, <1>4, <1>6, <1>7, <1>8

\* Nothing comes after q.
LEMMA JoinNothing ==
  ASSUME NEW S, NEW q \in Seq(S), NEW a \in Seq(S)
  PROVE  Len(a) = 0 => Join(q, a) = q
<1>1. PICK w : w = Join(q, a)
  OBVIOUS
<1>2. /\ w \in Seq(S) /\ Len(q) \in Nat /\ Len(w) \in Nat /\ Len(w) - Len(q) = Len(a)
      /\ \A k \in 1..Len(q) : w[k] = q[k]
  BY <1>1, JoinPlaces
<1>3. Len(a) = 0 => Len(w) = Len(q)
  BY <1>2
<1>4. Len(w) = Len(q) => w = q
  BY <1>2, SeqEqual
<1> QED BY <1>1, <1>3, <1>4

LEMMA RemainsJoin ==
  ASSUME NEW S, NEW q \in Seq(S), NEW a \in Seq(S), NEW r \in Seq(S), NEW b \in Seq(S),
         Remains(r, q), Remains(b, a)
  PROVE  Remains(Join(r, b), Join(q, a))
<1>1. PICK w : w = Join(q, a)
  OBVIOUS
<1>2. PICK v : v = Join(r, b)
  OBVIOUS
<1>3. /\ Len(q) \in Nat /\ Len(a) \in Nat /\ Len(w) \in Nat /\ Len(w) - Len(q) = Len(a)
      /\ \A k \in 1..Len(q) : w[k] = q[k]
      /\ \A k \in 1..Len(a) : w[Len(q) + k] = a[k]
  BY <1>1, JoinPlaces
<1>4. /\ Len(r) \in Nat /\ Len(b) \in Nat /\ Len(v) \in Nat /\ Len(v) - Len(r) = Len(b)
      /\ \A k \in 1..Len(r) : v[k] = r[k]
      /\ \A k \in 1..Len(b) : v[Len(r) + k] = b[k]
  BY <1>2, JoinPlaces
<1>5. PICK f \in [1..Len(r) -> 1..Len(q)] :
        /\ \A k \in 1..Len(r) : r[k] = q[f[k]]
        /\ \A j, k \in 1..Len(r) : j < k => f[j] < f[k]
  BY DEF Remains
<1>6. PICK g \in [1..Len(b) -> 1..Len(a)] :
        /\ \A k \in 1..Len(b) : b[k] = a[g[k]]
        /\ \A j, k \in 1..Len(b) : j < k => g[j] < g[k]
  BY DEF Remains
<1> DEFINE at == [k \in 1..Len(v) |-> IF k <= Len(r) THEN f[k] ELSE Len(q) + g[k - Len(r)]]
<1>7. ASSUME NEW k \in 1..Len(v)
      PROVE  \/ k \in 1..Len(r) /\ at[k] = f[k] /\ f[k] \in 1..Len(q)
             \/ /\ k - Len(r) \in 1..Len(b) /\ at[k] = Len(q) + g[k - Len(r)]
                /\ g[k - Len(r)] \in 1..Len(a)
  <2>1. CASE k <= Len(r)
    <3>1. k \in 1..Len(r)
      BY <1>4, <2>1
    <3> QED BY <2>1, <3>1
  <2>2. CASE ~(k <= Len(r))
    <3>1. k - Len(r) \in 1..Len(b)
      BY <1>4, <2>2
    <3> QED BY <2>2, <3>1
  <2> QED BY <2>1, <2>2
<1> HIDE DEF at
<1>8. at \in [1..Len(v) -> 1..Len(w)]
  <2>1. \A k \in 1..Len(v) : at[k] \in 1..Len(w)
    <3> SUFFICES ASSUME NEW k \in 1..Len(v) PROVE at[k] \in 1..Len(w)
      OBVIOUS
    <3>1. CASE at[k] = f[k] /\ f[k] \in 1..Len(q)
      BY <1>3, <3>1
    <3>2. CASE at[k] = Len(q) + g[k - Len(r)] /\ g[k - Len(r)] \in 1..Len(a)
      BY <1>3, <3>2
    <3> QED BY <1>7, <3>1, <3>2
  <2>2. at = [k \in 1..Len(v) |-> at[k]]
    BY DEF at
  <2> QED BY <2>1, <2>2
<1>9. ASSUME NEW k \in 1..Len(v) PROVE v[k] = w[at[k]]
  <2>1. CASE k \in 1..Len(r) /\ at[k] = f[k] /\ f[k] \in 1..Len(q)
    BY <1>3, <1>4, <1>5, <2>1
  <2>2. ASSUME NEW i, i = k - Len(r), i \in 1..Len(b), at[k] = Len(q) + g[i], g[i] \in 1..Len(a)
        PROVE  v[k] = w[at[k]]
    <3>1. k = Len(r) + i
      BY <1>4, <2>2
    <3>2. v[k] = b[i] /\ b[i] = a[g[i]]
      BY <1>4, <1>6, <2>2, <3>1
    <3>3. w[at[k]] = a[g[i]]
      BY <1>3, <2>2
    <3> QED BY <3>2, <3>3
  <2> QED BY <1>7, <2>1, <2>2
<1>10. ASSUME NEW j \in 1..Len(v), NEW k \in 1..Len(v), j < k PROVE at[j] < at[k]
  <2>1. CASE j \in 1..Len(r) /\ at[j] = f[j] /\ f[j] \in 1..Len(q)
             /\ k \in 1..Len(r) /\ at[k] = f[k] /\ f[k] \in 1..Len(q)
    BY <1>5, <1>10, <2>1
  <2>2. ASSUME NEW i, i = k - Len(r), i \in 1..Len(b), at[k] = Len(q) + g[i], g[i] \in 1..Len(a)
        PROVE  at[j] < at[k]
    <3>1. CASE j \in 1..Len(r) /\ at[j] = f[j] /\ f[j] \in 1..Len(q)
      BY <1>3, <2>2, <3>1
    <3>2. ASSUME NEW h, h = j - Len(r), h \in 1..Len(b), at[j] = Len(q) + g[h], g[h] \in 1..Len(a)
          PROVE  at[j] < at[k]
      <4>1. h < i
        BY <1>4, <1>10, <2>2, <3>2
      <4>2. g[h] < g[i]
        BY <1>6, <2>2, <3>2, <4>1
      <4> QED BY <1>3, <2>2, <3>2, <4>2
    <3> QED BY <1>7, <3>1, <3>2
  <2>3. CASE k \in 1..Len(r) /\ j - Len(r) \in 1..Len(b)
    BY <1>4, <1>10, <2>3
  <2> QED BY <1>7, <2>1, <2>2, <2>3
<1>11. Remains(v, w)
  BY <1>8, <1>9, <1>10 DEF Remains
<1> QED BY <1>1, <1>2, <1>11

LEMMA JoinLeavesOut ==
  ASSUME NEW S, NEW q \in Seq(S), NEW a \in Seq(S), NEW r \in Seq(S), NEW f, LeavesOut(r, q, f)
  PROVE  LeavesOut(Join(r, a), Join(q, a), f) /\ Join(q, a)[f] = q[f]
<1>1. PICK w : w = Join(q, a)
  OBVIOUS
<1>2. PICK v : v = Join(r, a)
  OBVIOUS
<1>3. /\ Len(q) \in Nat /\ Len(a) \in Nat /\ Len(w) \in Nat /\ Len(w) - Len(q) = Len(a)
      /\ \A k \in 1..Len(q) : w[k] = q[k]
      /\ \A k \in 1..Len(a) : w[Len(q) + k] = a[k]
  BY <1>1, JoinPlaces
<1>4. /\ Len(r) \in Nat /\ Len(v) \in Nat /\ Len(v) - Len(r) = Len(a)
      /\ \A k \in 1..Len(r) : v[k] = r[k]
      /\ \A k \in 1..Len(a) : v[Len(r) + k] = a[k]
  BY <1>2, JoinPlaces
<1>5. /\ f \in 1..Len(q) /\ Len(r) = Len(q) - 1
      /\ \A k \in 1..Len(r) : r[k] = q[Before(k, f)]
  BY DEF LeavesOut
<1>6. \A k \in 1..Len(r) : Before(k, f) \in 1..Len(q)
  BY <1>3, <1>5, BeforeOnto
<1>7. f \in 1..Len(w) /\ Len(v) = Len(w) - 1 /\ w[f] = q[f]
  BY <1>3, <1>4, <1>5
<1>8. ASSUME NEW k \in 1..Len(v) PROVE v[k] = w[Before(k, f)]
  <2>1. CASE k \in 1..Len(r)
    BY <1>3, <1>4, <1>5, <1>6, <2>1
  <2>2. CASE k \notin 1..Len(r)
    <3>1. k - Len(r) \in 1..Len(a)
      BY <1>4, <2>2
    <3>2. PICK j : j = k - Len(r)
      OBVIOUS
    <3>3. j \in 1..Len(a) /\ k = Len(r) + j
      BY <1>4, <3>1, <3>2
    <3>4. Before(k, f) = Len(q) + j
      BY <1>3, <1>4, <1>5, <3>3 DEF Before
    <3>5. v[k] = a[j] /\ w[Len(q) + j] = a[j]
      BY <1>3, <1>4, <3>3
    <3> QED BY <3>4, <3>5
  <2> QED BY <2>1, <2>2
<1>9. LeavesOut(v, w, f)
  BY <1>7, <1>8 DEF LeavesOut
<1> QED BY <1>1, <1>2, <1>7, <1>9

\* The first message behind q has gone,
LEMMA JoinLeavesOutNext ==
  ASSUME NEW S, NEW q \in Seq(S), NEW a \in Seq(S), NEW b \in Seq(S), LeavesOut(b, a, 1)
  PROVE  /\ LeavesOut(Join(q, b), Join(q, a), Len(q) + 1)
         /\ Join(q, a)[Len(q) + 1] = a[1]
<1>1. PICK w : w = Join(q, a)
  OBVIOUS
<1>2. PICK v : v = Join(q, b)
  OBVIOUS
<1>3. /\ Len(q) \in Nat /\ Len(a) \in Nat /\ Len(w) \in Nat /\ Len(w) - Len(q) = Len(a)
      /\ \A k \in 1..Len(q) : w[k] = q[k]
      /\ \A k \in 1..Len(a) : w[Len(q) + k] = a[k]
  BY <1>1, JoinPlaces
<1>4. /\ Len(b) \in Nat /\ Len(v) \in Nat /\ Len(v) - Len(q) = Len(b)
      /\ \A k \in 1..Len(q) : v[k] = q[k]
      /\ \A k \in 1..Len(b) : v[Len(q) + k] = b[k]
  BY <1>2, JoinPlaces
<1>5. /\ 1 \in 1..Len(a) /\ Len(b) = Len(a) - 1
      /\ \A k \in 1..Len(b) : b[k] = a[k + 1]
  BY DEF LeavesOut, Before
<1>6. Len(q) + 1 \in 1..Len(w) /\ Len(v) = Len(w) - 1 /\ w[Len(q) + 1] = a[1]
  BY <1>3, <1>4, <1>5
<1>7. ASSUME NEW k \in 1..Len(v) PROVE v[k] = w[Before(k, Len(q) + 1)]
  <2>1. CASE k \in 1..Len(q)
    <3>1. Before(k, Len(q) + 1) = k
      BY <1>3, <2>1 DEF Before
    <3> QED BY <1>3, <1>4, <2>1, <3>1
  <2>2. CASE k \notin 1..Len(q)
    <3>1. k - Len(q) \in 1..Len(b)
      BY <1>3, <1>4, <2>2
    <3>2. PICK j \in 1..Len(b) : k = Len(q) + j
      BY <1>3, <3>1
    <3>3. Before(k, Len(q) + 1) = Len(q) + (j + 1) /\ j + 1 \in 1..Len(a)
      BY <1>3, <1>5, <3>2 DEF Before
    <3>4. v[k] = a[j + 1] /\ w[Len(q) + (j + 1)] = a[j + 1]
      BY <1>3, <1>4, <1>5, <3>2, <3>3
    <3> QED BY <3>3, <3>4
  <2> QED BY <2>1, <2>2
<1>8. LeavesOut(v, w, Len(q) + 1)
  BY <1>6, <1>7 DEF LeavesOut
<1> QED BY <1>1, <1>2, <1>6, <1>8

\* or has moved to the end of q.
LEMMA JoinMoves ==
  ASSUME NEW S, NEW q \in Seq(S), NEW a \in Seq(S), NEW b \in Seq(S), LeavesOut(b, a, 1)
  PROVE  Join(Append(q, a[1]), b) = Join(q, a)
<1>1. PICK w : w = Join(q, a)
  OBVIOUS
<1>2. /\ w \in Seq(S)
      /\ Len(q) \in Nat /\ Len(a) \in Nat /\ Len(w) \in Nat /\ Len(w) - Len(q) = Len(a)
      /\ \A k \in 1..Len(q) : w[k] = q[k]
      /\ \A k \in 1..Len(a) : w[Len(q) + k] = a[k]
  BY <1>1, JoinPlaces
<1>3. /\ 1 \in 1..Len(a) /\ Len(b) = Len(a) - 1
      /\ \A k \in 1..Len(b) : b[k] = a[k + 1]
  BY DEF LeavesOut, Before
<1>4. a[1] \in S
  BY <1>3, ElementOfSeq
<1>5. PICK r : r = Append(q, a[1])
  OBVIOUS
<1>6. r \in Seq(S) /\ Len(r) = Len(q) + 1 /\ r[Len(q) + 1] = a[1] /\ \A k \in 1..Len(q) : r[k] = q[k]
  BY <1>2, <1>4, <1>5
<1>7. PICK v : v = Join(r, b)
  OBVIOUS
<1>8. /\ v \in Seq(S)
      /\ Len(r) \in Nat /\ Len(b) \in Nat /\ Len(v) \in Nat /\ Len(v) - Len(r) = Len(b)
      /\ \A k \in 1..Len(r) : v[k] = r[k]
      /\ \A k \in 1..Len(b) : v[Len(r) + k] = b[k]
  <2>1. r \in Seq(S)
    BY <1>6
  <2> QED BY <1>7, <2>1, JoinPlaces
<1>9. Len(v) = Len(w)
  BY <1>2, <1>3, <1>6, <1>8
<1>10. ASSUME NEW k \in 1..Len(w) PROVE v[k] = w[k]
  <2>1. CASE k \in 1..Len(q)
    BY <1>2, <1>6, <1>8, <2>1
  <2>2. CASE k = Len(q) + 1
    <3>1. v[k] = a[1]
      <4>1. k \in 1..Len(r) /\ r[k] = a[1]
        BY <1>2, <1>6, <2>2
      <4> QED BY <1>8, <4>1
    <3>2. w[k] = a[1]
      <4>1. w[Len(q) + 1] = a[1]
        BY <1>2, <1>3
      <4> QED BY <2>2, <4>1
    <3> QED BY <3>1, <3>2
  <2>3. CASE k > Len(q) + 1
    <3>1. k - Len(r) \in 1..Len(b)
      BY <1>2, <1>3, <1>6, <1>8, <2>3
    <3>2. PICK j : j = k - Len(r)
      OBVIOUS
    <3>3. j \in 1..Len(b) /\ k = Len(r) + j
      BY <1>8, <3>1, <3>2
    <3>4. k = Len(q) + (j + 1) /\ j + 1 \in 1..Len(a)
      BY <1>2, <1>3, <1>6, <3>3
    <3>5. v[k] = a[j + 1]
      BY <1>3, <1>8, <3>3
    <3> QED BY <1>2, <3>4, <3>5
  <2> QED BY <1>2, <2>1, <2>2, <2>3
<1>11. v = w
  BY <1>2, <1>8, <1>9, <1>10, SeqEqual
<1> QED BY <1>1, <1>5, <1>7, <1>11
-----------------------------------------------------------------------------
(***************************************************************************)
(* What is on its way to a client.                                         *)
(***************************************************************************)

\* What may be in the mailbox of a client.
Post == Answers \cup {NoMsg}

LEMMA AddressedType ==
  ASSUME NEW c, NEW mail \in Seq(Mail)
  PROVE  /\ Addressed(c, mail) \in Seq(Post)
         /\ Len(Addressed(c, mail)) = Len(mail) /\ Len(mail) \in Nat
         /\ \A k \in 1..Len(mail) : Addressed(c, mail)[k] =
              IF mail[k].to = c THEN mail[k].msg ELSE NoMsg
<1>1. Len(mail) \in Nat
  BY LenProperties
<1>2. \A k \in 1..Len(mail) : mail[k].msg \in Answers
  <2>1. \A k \in 1..Len(mail) : mail[k] \in Mail
    BY <1>1, ElementOfSeq
  <2> QED BY <2>1 DEF Mail
<1>3. \A k \in 1..Len(mail) : (IF mail[k].to = c THEN mail[k].msg ELSE NoMsg) \in Post
  BY <1>2 DEF Post
<1> QED BY <1>1, <1>3 DEF Addressed

\* The server has sent the first of its messages.
LEMMA AddressedTail ==
  ASSUME NEW c, NEW mail \in Seq(Mail), mail # <<>>
  PROVE  /\ Tail(mail) \in Seq(Mail) /\ Head(mail) \in Mail
         /\ LeavesOut(Addressed(c, Tail(mail)), Addressed(c, mail), 1)
         /\ Addressed(c, mail)[1] = IF Head(mail).to = c THEN Head(mail).msg ELSE NoMsg
<1>1. /\ LeavesOut(Tail(mail), mail, 1) /\ Tail(mail) \in Seq(Mail)
      /\ Head(mail) = mail[1] /\ Head(mail) \in Mail
  BY TailLeavesOut
<1>2. PICK rest \in Seq(Mail) : rest = Tail(mail)
  BY <1>1
<1>3. PICK a : a = Addressed(c, mail)
  OBVIOUS
<1>4. PICK b : b = Addressed(c, rest)
  OBVIOUS
<1>5. /\ Len(mail) \in Nat /\ Len(a) = Len(mail)
      /\ \A k \in 1..Len(mail) : a[k] = IF mail[k].to = c THEN mail[k].msg ELSE NoMsg
  BY <1>3, AddressedType
<1>6. /\ Len(rest) \in Nat /\ Len(b) = Len(rest)
      /\ \A k \in 1..Len(rest) : b[k] = IF rest[k].to = c THEN rest[k].msg ELSE NoMsg
  BY <1>4, AddressedType
<1>7. /\ 1 \in 1..Len(mail) /\ Len(rest) = Len(mail) - 1
      /\ \A k \in 1..Len(rest) : Before(k, 1) \in 1..Len(mail) /\ rest[k] = mail[Before(k, 1)]
  <2>1. /\ 1 \in 1..Len(mail) /\ Len(rest) = Len(mail) - 1
        /\ \A k \in 1..Len(rest) : rest[k] = mail[Before(k, 1)]
    BY <1>1, <1>2 DEF LeavesOut
  <2>2. \A k \in 1..Len(rest) : Before(k, 1) \in 1..Len(mail)
    BY <1>5, <2>1 DEF Before
  <2> QED BY <2>1, <2>2
<1>8. \A k \in 1..Len(rest) : b[k] = a[Before(k, 1)]
  BY <1>5, <1>6, <1>7
<1>9. LeavesOut(b, a, 1)
  BY <1>5, <1>6, <1>7, <1>8 DEF LeavesOut
<1>10. a[1] = IF Head(mail).to = c THEN Head(mail).msg ELSE NoMsg
  BY <1>1, <1>5, <1>7
<1> QED BY <1>1, <1>2, <1>3, <1>4, <1>9, <1>10

LEMMA MailboxIs ==
  ASSUME TypeOK, NEW c \in Client
  PROVE  /\ queue[c] \in Seq(Answers) /\ queue[c] \in Seq(Post)
         /\ outbox \in Seq(Mail)
         /\ Addressed(c, outbox) \in Seq(Post)
         /\ Mailbox(c) = Join(queue[c], Addressed(c, outbox))
         /\ Mailbox(c) \in Seq(Post) /\ Len(Mailbox(c)) \in Nat
<1>1. queue[c] \in Seq(Answers) /\ outbox \in Seq(Mail)
  BY TypeParts DEF QueueTypes, OutboxTypes
<1>2. queue[c] \in Seq(Post)
  BY <1>1, SeqMonotonic DEF Post
<1>3. Addressed(c, outbox) \in Seq(Post)
  BY <1>1, AddressedType
<1>4. Mailbox(c) = Join(queue[c], Addressed(c, outbox))
  BY DEF Mailbox, Join
<1>5. Mailbox(c) \in Seq(Post) /\ Len(Mailbox(c)) \in Nat
  BY <1>2, <1>3, <1>4, JoinPlaces
<1> QED BY <1>1, <1>2, <1>3, <1>4, <1>5

LEMMA MailboxIsNext ==
  ASSUME TypeOK', NEW c \in Client
  PROVE  /\ queue'[c] \in Seq(Answers) /\ queue'[c] \in Seq(Post)
         /\ outbox' \in Seq(Mail)
         /\ Addressed(c, outbox') \in Seq(Post)
         /\ Mailbox(c)' = Join(queue'[c], Addressed(c, outbox'))
         /\ Mailbox(c)' \in Seq(Post) /\ Len(Mailbox(c)') \in Nat
<1>1. queue'[c] \in Seq(Answers) /\ outbox' \in Seq(Mail)
  BY TypePartsNext DEF QueueTypes, OutboxTypes
<1>2. queue'[c] \in Seq(Post)
  BY <1>1, SeqMonotonic DEF Post
<1>3. Addressed(c, outbox') \in Seq(Post)
  BY <1>1, AddressedType
<1>4. Mailbox(c)' = Join(queue'[c], Addressed(c, outbox'))
  BY DEF Mailbox, Join
<1>5. Mailbox(c)' \in Seq(Post) /\ Len(Mailbox(c)') \in Nat
  BY <1>2, <1>3, <1>4, JoinPlaces
<1> QED BY <1>1, <1>2, <1>3, <1>4, <1>5

\* The fth of the messages on their way to c has gone.
Drops(c, f) == LeavesOut(Mailbox(c)', Mailbox(c), f)

LEMMA MailboxStays ==
  ASSUME NEW c, UNCHANGED outbox, queue'[c] = queue[c]
  PROVE  Mailbox(c)' = Mailbox(c)
BY DEF Mailbox, Addressed

\* The server has no more use for the first of its messages.
LEMMA MailboxDrops ==
  ASSUME TypeOK, NEW c \in Client, outbox # <<>>, outbox' = Tail(outbox), queue'[c] = queue[c]
  PROVE  \E f : /\ Drops(c, f)
                /\ Mailbox(c)[f] = IF Head(outbox).to = c THEN Head(outbox).msg ELSE NoMsg
<1>1. PICK q \in Seq(Post) : q = queue[c]
  BY MailboxIs
<1>2. PICK a \in Seq(Post) : a = Addressed(c, outbox)
  BY MailboxIs
<1>3. PICK b : b = Addressed(c, outbox')
  OBVIOUS
<1>4. outbox \in Seq(Mail)
  BY MailboxIs
<1>5. /\ LeavesOut(b, a, 1) /\ b \in Seq(Post)
      /\ a[1] = IF Head(outbox).to = c THEN Head(outbox).msg ELSE NoMsg
  BY <1>2, <1>3, <1>4, AddressedTail, AddressedType
<1>6. LeavesOut(Join(q, b), Join(q, a), Len(q) + 1) /\ Join(q, a)[Len(q) + 1] = a[1]
  BY <1>5, JoinLeavesOutNext
<1>7. Mailbox(c) = Join(q, a)
  BY <1>1, <1>2, MailboxIs
<1>8. Mailbox(c)' = Join(q, b)
  BY <1>1, <1>3 DEF Mailbox, Join
<1> QED BY <1>5, <1>6, <1>7, <1>8 DEF Drops

\* What the server sends to c is still on its way to c; what it sends to others,
\* or in vain, has gone.
LEMMA MailboxSends ==
  ASSUME TypeOK, Send, NEW c \in Client
  PROVE  \/ Mailbox(c)' = Mailbox(c)
         \/ \E f : Drops(c, f) /\ (Mailbox(c)[f] = NoMsg \/ pc[c] = "stopped")
<1>1. outbox # <<>> /\ outbox' = Tail(outbox) /\ outbox \in Seq(Mail)
  BY MailboxIs DEF Send
<1>2. PICK h \in Mail : h = Head(outbox)
  BY <1>1, AddressedTail
<1>3. CASE h.to # c
  <2>1. queue'[c] = queue[c]
    BY <1>2, <1>3, TypeParts DEF Send, QueueTypes
  <2> QED BY <1>1, <1>2, <1>3, <2>1, MailboxDrops
<1>4. CASE h.to = c /\ ~QueueExists(c)
  <2>1. queue'[c] = queue[c] /\ pc[c] = "stopped"
    BY <1>2, <1>4, ChatAssumption DEF Send, QueueExists
  <2> QED BY <1>1, <2>1, MailboxDrops
<1>5. CASE h.to = c /\ QueueExists(c)
  <2>1. queue'[c] = Append(queue[c], h.msg)
    BY <1>2, <1>5, TypeParts DEF Send, QueueTypes
  <2>2. PICK q \in Seq(Post) : q = queue[c]
    BY MailboxIs
  <2>3. PICK a \in Seq(Post) : a = Addressed(c, outbox)
    BY MailboxIs
  <2>4. PICK b : b = Addressed(c, outbox')
    OBVIOUS
  <2>5. LeavesOut(b, a, 1) /\ b \in Seq(Post) /\ a[1] = h.msg
    BY <1>1, <1>2, <1>5, <2>3, <2>4, AddressedTail, AddressedType
  <2>6. Join(Append(q, a[1]), b) = Join(q, a)
    BY <2>5, JoinMoves
  <2>7. Mailbox(c) = Join(q, a)
    BY <2>2, <2>3, MailboxIs
  <2>8. Mailbox(c)' = Join(Append(q, a[1]), b)
    BY <2>1, <2>2, <2>4, <2>5 DEF Mailbox, Join
  <2> QED BY <2>6, <2>7, <2>8
<1> QED BY <1>3, <1>4, <1>5

\* The first signal to the server may end its send.
LEMMA MailboxInterrupted ==
  ASSUME TypeOK, InterruptServer, NEW c \in Client
  PROVE  Mailbox(c)' = Mailbox(c) \/ \E f : Drops(c, f)
<1>1. queue' = queue
  BY DEF InterruptServer
<1>2. CASE outbox' = outbox
  BY <1>1, <1>2, MailboxStays
<1>3. CASE outbox # <<>> /\ outbox' = Tail(outbox)
  BY <1>1, <1>3, MailboxDrops
<1> QED BY <1>2, <1>3 DEF InterruptServer

\* A client takes a message of its own and of nobody else.
LEMMA MailboxReceived ==
  ASSUME TypeOK, NEW d \in Client, NEW c \in Client,
         NEW type \in {"INIT", "LIST", "LIST_ENTITY", "TO_ONE", "TO_ALL"}, Receive(d, type)
  PROVE  /\ c # d => Mailbox(c)' = Mailbox(c)
         /\ c = d => \E f : /\ Drops(c, f)
                            /\ Mailbox(c)[f] = Received(c, type)
                            /\ Mailbox(c)[f].type = type
<1>1. Has(queue[d], type) /\ queue' = [queue EXCEPT ![d] = Taken(@, type)] /\ outbox' = outbox
  BY DEF Receive, serverVars
<1>2. queue \in [Client -> Seq(Answers)]
  BY TypeParts DEF QueueTypes
<1>3. CASE c # d
  <2>1. queue'[c] = queue[c]
    BY <1>1, <1>2, <1>3
  <2> QED BY <1>1, <1>3, <2>1, MailboxStays
<1>4. CASE c = d
  <2>1. PICK q \in Seq(Post) : q = queue[c]
    BY MailboxIs
  <2>2. PICK a \in Seq(Post) : a = Addressed(c, outbox)
    BY MailboxIs
  <2>3. PICK f : f = FirstOf(q, type)
    OBVIOUS
  <2>4. PICK r : r = Taken(q, type)
    OBVIOUS
  <2>5. LeavesOut(r, q, f) /\ r \in Seq(Post) /\ q[f].type = type
    BY <1>1, <1>4, <2>1, <2>3, <2>4, TakenLeavesOut
  <2>6. LeavesOut(Join(r, a), Join(q, a), f) /\ Join(q, a)[f] = q[f]
    BY <2>5, JoinLeavesOut
  <2>7. Mailbox(c) = Join(q, a)
    BY <2>1, <2>2, MailboxIs
  <2>8. queue'[c] = r
    BY <1>1, <1>2, <1>4, <2>1, <2>4
  <2>9. Mailbox(c)' = Join(r, a)
    BY <1>1, <2>2, <2>8 DEF Mailbox, Join
  <2>10. Received(c, type) = q[f]
    BY <2>1, <2>3 DEF Received
  <2>11. Drops(c, f) /\ Mailbox(c)[f] = Received(c, type) /\ Mailbox(c)[f].type = type
    BY <2>5, <2>6, <2>7, <2>9, <2>10 DEF Drops
  <2> QED BY <1>4, <2>11
<1> QED BY <1>3, <1>4

\* With its queue a client removes what is in it.
LEMMA MailboxRemoved ==
  ASSUME TypeOK, NEW d \in Client, NEW c \in Client, RemoveQueue(d)
  PROVE  /\ c # d => Mailbox(c)' = Mailbox(c)
         /\ Remains(Mailbox(c)', Mailbox(c))
<1>1. queue' = [queue EXCEPT ![d] = <<>>] /\ outbox' = outbox
  BY DEF RemoveQueue, serverVars
<1>2. queue \in [Client -> Seq(Answers)]
  BY TypeParts DEF QueueTypes
<1>3. CASE c # d
  <2>1. Mailbox(c)' = Mailbox(c)
    BY <1>1, <1>2, <1>3, MailboxStays
  <2> QED BY <1>3, <2>1, RemainsSelf
<1>4. CASE c = d
  <2>1. PICK q \in Seq(Post) : q = queue[c]
    BY MailboxIs
  <2>2. PICK a \in Seq(Post) : a = Addressed(c, outbox)
    BY MailboxIs
  <2>3. PICK e \in Seq(Post) : e = <<>>
    BY EmptySeq
  <2>4. Remains(Join(e, a), Join(q, a))
    BY <2>3, RemainsSelf, NothingRemains, RemainsJoin
  <2>5. Mailbox(c) = Join(q, a)
    BY <2>1, <2>2, MailboxIs
  <2>6. queue'[c] = e
    BY <1>1, <1>2, <1>4, <2>3
  <2>7. Mailbox(c)' = Join(e, a)
    BY <1>1, <2>2, <2>6 DEF Mailbox, Join
  <2> QED BY <1>4, <2>4, <2>5, <2>7
<1> QED BY <1>3, <1>4

\* A handler of the server adds its answers.
LEMMA MailboxAnswered ==
  ASSUME TypeOK, outbox = <<>>, queue' = queue, NEW c \in Client
  PROVE  /\ Mailbox(c) = queue[c]
         /\ Mailbox(c)' = Join(Mailbox(c), Addressed(c, outbox'))
<1>1. PICK q \in Seq(Post) : q = queue[c]
  BY MailboxIs
<1>2. PICK a \in Seq(Post) : a = Addressed(c, outbox)
  BY MailboxIs
<1>3. Len(a) = 0
  <2>1. PICK mail \in Seq(Mail) : mail = outbox
    BY MailboxIs
  <2>2. Len(a) = Len(mail)
    BY <1>2, <2>1, AddressedType
  <2>3. Len(outbox) = 0
    BY EmptySeq
  <2> QED BY <2>1, <2>2, <2>3
<1>4. Join(q, a) = q
  BY <1>3, JoinNothing
<1>5. Mailbox(c) = q
  BY <1>1, <1>2, <1>4, MailboxIs
<1>6. Mailbox(c)' = Join(queue[c], Addressed(c, outbox'))
  BY DEF Mailbox, Join
<1> QED BY <1>1, <1>5, <1>6

\* The steps of the server that answer a request.
Handles ==
  registerNewClients \/ deregisterTerminatedClients \/ handleListing \/ handleToOne \/ handleToAll

\* What a step does to the messages on their way to c.
LEMMA MailboxMoves ==
  ASSUME TypeOK, [Next]_vars, NEW c \in Client
  PROVE  \/ Mailbox(c)' = Mailbox(c)
         \/ \E f : /\ Drops(c, f)
                   /\ \/ Mailbox(c)[f] = NoMsg
                      \/ pc[c] \in {"stopped", "incoming_one", "incoming_all"}
                      \/ server_flag' # server_flag
                      \/ Mailbox(c)[f].type \in {"INIT", "LIST", "LIST_ENTITY"}
         \/ pc[c] = "remove" /\ Remains(Mailbox(c)', Mailbox(c))
         \/ /\ Handles /\ Mailbox(c) = queue[c]
            /\ Mailbox(c)' = Join(Mailbox(c), Addressed(c, outbox'))
<1>1. CASE UNCHANGED <<queue, outbox>>
  BY <1>1, MailboxStays
<1>2. CASE UNCHANGED vars
  BY <1>1, <1>2 DEF vars, serverVars
<1>3. CASE Handles
  <2>1. outbox = <<>> /\ queue' = queue
    BY <1>3 DEF Handles, registerNewClients, deregisterTerminatedClients, handleListing, handleToOne,
                handleToAll, Takes
  <2> QED BY <1>3, <2>1, MailboxAnswered
<1>4. CASE Send
  BY <1>4, MailboxSends
<1>5. CASE NextHandler \/ terminateClients \/ RemoveServerQueue
  BY <1>1, <1>5 DEF NextHandler, terminateClients, RemoveServerQueue
<1>6. CASE InterruptServer
  <2>1. server_flag' # server_flag
    BY <1>6, TypeParts DEF InterruptServer, RegistryTypes
  <2> QED BY <1>6, <2>1, MailboxInterrupted
<1>7. ASSUME NEW d \in Client, User(d) \/ HandleSignal(d)
      PROVE  UNCHANGED <<queue, outbox>>
  BY <1>7 DEF User, Start, list, to_one, to_all, Command, handleIncoming, TypeStop, Interrupt,
              HandleSignal, serverVars
<1>8. ASSUME NEW d \in Client, SendRequest(d) \/ Top(d)
      PROVE  UNCHANGED <<queue, outbox>>
  BY <1>8 DEF SendRequest, Top, serverVars
<1>9. ASSUME NEW d \in Client, ReceiveId(d) \/ ReceiveCount(d) \/ ReceiveEntity(d)
      PROVE  Mailbox(c)' = Mailbox(c)
             \/ \E f : Drops(c, f) /\ Mailbox(c)[f].type \in {"INIT", "LIST", "LIST_ENTITY"}
  <2>1. PICK type \in {"INIT", "LIST", "LIST_ENTITY"} : Receive(d, type)
    BY <1>9 DEF ReceiveId, ReceiveCount, ReceiveEntity
  <2> QED BY <2>1, MailboxReceived
<1>10. ASSUME NEW d \in Client, PrintOne(d) \/ PrintAll(d)
       PROVE  \/ Mailbox(c)' = Mailbox(c)
              \/ pc[c] \in {"incoming_one", "incoming_all"} /\ \E f : Drops(c, f)
  <2>1. PICK type \in {"TO_ONE", "TO_ALL"} : Receive(d, type) \/ UNCHANGED <<queue, outbox>>
    BY <1>10 DEF PrintOne, PrintAll, ShowNext, serverVars
  <2>2. pc[d] \in {"incoming_one", "incoming_all"}
    BY <1>10 DEF PrintOne, PrintAll, ShowNext
  <2> QED BY <1>1, <2>1, <2>2, MailboxReceived, MailboxStays
<1>11. ASSUME NEW d \in Client, RemoveQueue(d)
       PROVE  \/ Mailbox(c)' = Mailbox(c)
              \/ pc[c] = "remove" /\ Remains(Mailbox(c)', Mailbox(c))
  <2>1. pc[d] = "remove"
    BY <1>11 DEF RemoveQueue
  <2> QED BY <1>11, <2>1, MailboxRemoved
<1>12. ASSUME NEW d \in Client, Proceed(d) \/ User(d) \/ HandleSignal(d)
       PROVE  \/ Mailbox(c)' = Mailbox(c)
              \/ \E f : /\ Drops(c, f)
                        /\ \/ pc[c] \in {"incoming_one", "incoming_all"}
                           \/ Mailbox(c)[f].type \in {"INIT", "LIST", "LIST_ENTITY"}
              \/ pc[c] = "remove" /\ Remains(Mailbox(c)', Mailbox(c))
  BY <1>7, <1>8, <1>9, <1>10, <1>11, <1>12, MailboxStays DEF Proceed
<1>13. CASE Server
  BY <1>3, <1>4, <1>5, <1>13 DEF Server, Handles
<1> QED BY <1>2, <1>6, <1>12, <1>13 DEF Next

LEMMA DropsLeaves ==
  ASSUME TypeOK, TypeOK', NEW c \in Client, NEW f, Drops(c, f),
         NEW m \in ToSet(Mailbox(c)), m # Mailbox(c)[f]
  PROVE  m \in ToSet(Mailbox(c)')
<1>1. PICK q \in Seq(Post) : q = Mailbox(c)
  BY MailboxIs
<1>2. PICK r \in Seq(Post) : r = Mailbox(c)'
  BY MailboxIsNext
<1>3. /\ f \in 1..Len(q) /\ Len(r) = Len(q) - 1
      /\ \A k \in 1..Len(r) : r[k] = q[Before(k, f)]
  BY <1>1, <1>2 DEF Drops, LeavesOut
<1>4. PICK i \in 1..Len(q) : m = q[i]
  BY <1>1 DEF ToSet
<1>5. i # f
  BY <1>1, <1>4
<1>6. Len(q) \in Nat
  BY LenProperties
<1>7. PICK k \in 1..Len(r) : Before(k, f) = i
  BY <1>3, <1>5, <1>6, BeforeOnto
<1>8. m = r[k]
  BY <1>3, <1>4, <1>7
<1> QED BY <1>2, <1>8 DEF ToSet

\* What is on its way to a client stays so, unless the client takes it or
\* removes its queue, or a signal ends the send of the server: whatever is full,
\* no text is lost.
THEOREM NoTextLostHolds == Spec => NoTextLost
<1>1. ASSUME TypeOK, TypeOK', [Next]_vars, NEW c \in Client,
             pc[c] \notin {"incoming_one", "incoming_all", "remove", "stopped"},
             server_flag' = server_flag,
             NEW m \in ToSet(Mailbox(c)), IsText(m)
      PROVE  m \in ToSet(Mailbox(c)')
  <2>1. CASE Mailbox(c)' = Mailbox(c)
    BY <2>1
  <2>2. ASSUME NEW f, Drops(c, f),
               \/ Mailbox(c)[f] = NoMsg
               \/ Mailbox(c)[f].type \in {"INIT", "LIST", "LIST_ENTITY"}
        PROVE  m \in ToSet(Mailbox(c)')
    <3>1. m # Mailbox(c)[f]
      BY <1>1, <2>2 DEF NoMsg, IsText
    <3> QED BY <1>1, <2>2, <3>1, DropsLeaves
  <2>3. CASE Mailbox(c)' = Join(Mailbox(c), Addressed(c, outbox'))
    <3>1. PICK q \in Seq(Post) : q = Mailbox(c)
      BY <1>1, MailboxIs
    <3>2. PICK a \in Seq(Post) : a = Addressed(c, outbox')
      BY <1>1, MailboxIsNext
    <3>3. PICK w : w = Join(q, a)
      OBVIOUS
    <3>4. /\ w \in Seq(Post) /\ Len(q) \in Nat /\ Len(a) \in Nat /\ Len(w) \in Nat
          /\ Len(w) - Len(q) = Len(a) /\ \A k \in 1..Len(q) : w[k] = q[k]
      BY <3>3, JoinPlaces
    <3>5. PICK i \in 1..Len(q) : m = q[i]
      BY <1>1, <3>1 DEF ToSet
    <3>6. i \in 1..Len(w) /\ m = w[i]
      BY <3>4, <3>5
    <3>7. m \in ToSet(w)
      BY <3>4, <3>6 DEF ToSet
    <3> QED BY <2>3, <3>1, <3>2, <3>3, <3>7
  <2> QED BY <1>1, <2>1, <2>2, <2>3, MailboxMoves
<1>2. IInv /\ IInv' => TypeOK /\ TypeOK'
  BY DEF IInv
<1>3. ASSUME TypeOK, TypeOK', [Next]_vars
      PROVE  \A c \in Client :
               pc[c] \notin {"incoming_one", "incoming_all", "remove", "stopped"} /\ server_flag' = server_flag =>
                 \A m \in ToSet(Mailbox(c)) : IsText(m) => m \in ToSet(Mailbox(c)')
  BY <1>1, <1>3
<1> QED BY <1>2, <1>3, InductiveInvariant, PTL DEF Spec, NoTextLost
-----------------------------------------------------------------------------
(***************************************************************************)
(* Texts: the inductive invariant.                                         *)
(***************************************************************************)

\* The texts of one author and one kind are in the order they were written.
Ordered(q) == \A i, j \in 1..Len(q) : i < j => Older(q[i], q[j])

\* What reaches d or may still be sent to it, in its order.
Way(d) == Join(Mailbox(d), server_queue)

\* What the author of a text that is on its way writes next is younger.
Written(m) ==
  IsText(m) =>
    /\ m.text[2] < typed[m.text[1]]
    /\ pc[m.text[1]] = "send" /\ IsText(request[m.text[1]]) =>
         m.text[2] < request[m.text[1]].text[2]

\* A client sends its own latest text.
OwnText ==
  \A c \in Client : pc[c] = "send" /\ IsText(request[c]) =>
    /\ request[c].text[1] = c
    /\ request[c].text[2] < typed[c]

TextInv ==
  /\ OwnText
  /\ \A d \in Client :
       /\ Ordered(Way(d))
       /\ \A m \in ToSet(Way(d)) : Written(m)

Message == Answers \cup Requests \cup {NoMsg}

\* A text has an author and a number.
LEMMA TextFields ==
  ASSUME NEW m \in Message, IsText(m)
  PROVE  m.text[1] \in Client /\ m.text[2] \in 0..MaxCommands /\ m.text = <<m.text[1], m.text[2]>>
<1>1. m.text \in Texts
  BY DEF Message, Answers, Requests, NoMsg, IsText
<1> QED BY <1>1 DEF Texts

LEMMA WayIs ==
  ASSUME TypeOK, NEW d \in Client
  PROVE  /\ Mailbox(d) \in Seq(Message) /\ server_queue \in Seq(Message)
         /\ Way(d) \in Seq(Message) /\ Len(Way(d)) \in Nat
<1>1. server_queue \in Seq(Requests)
  BY TypeParts DEF ServerQueueTypes
<1>2. Mailbox(d) \in Seq(Post)
  BY MailboxIs
<1>3. Mailbox(d) \in Seq(Message) /\ server_queue \in Seq(Message)
  BY <1>1, <1>2, SeqMonotonic DEF Message, Post
<1>4. PICK w : w = Way(d)
  OBVIOUS
<1>5. w \in Seq(Message) /\ Len(w) \in Nat
  BY <1>3, <1>4, JoinPlaces DEF Way
<1> QED BY <1>3, <1>4, <1>5

LEMMA WayIsNext ==
  ASSUME TypeOK', NEW d \in Client
  PROVE  /\ Mailbox(d)' \in Seq(Message) /\ server_queue' \in Seq(Message)
         /\ Way(d)' \in Seq(Message) /\ Len(Way(d)') \in Nat
         /\ Way(d)' = Join(Mailbox(d)', server_queue')
<1>1. server_queue' \in Seq(Requests)
  BY TypePartsNext DEF ServerQueueTypes
<1>2. Mailbox(d)' \in Seq(Post)
  BY MailboxIsNext
<1>3. Mailbox(d)' \in Seq(Message) /\ server_queue' \in Seq(Message)
  BY <1>1, <1>2, SeqMonotonic DEF Message, Post
<1>4. Way(d)' = Join(Mailbox(d)', server_queue')
  BY DEF Way
<1>5. PICK w : w = Way(d)'
  OBVIOUS
<1>6. w \in Seq(Message) /\ Len(w) \in Nat
  BY <1>3, <1>4, <1>5, JoinPlaces
<1> QED BY <1>3, <1>4, <1>5, <1>6

\* Authors go on to younger texts.
Onward ==
  \A a \in Client :
    /\ typed[a] <= typed'[a]
    /\ pc'[a] = "send" /\ IsText(request'[a]) =>
         \/ pc[a] = "send" /\ request'[a] = request[a]
         \/ request'[a].text = <<a, typed[a]>> /\ typed'[a] = typed[a] + 1

LEMMA OwnTextKept ==
  ASSUME TypeOK, TypeOK', Sending, OwnText, Onward
  PROVE  OwnText'
<1> SUFFICES ASSUME NEW c \in Client, pc'[c] = "send", IsText(request'[c])
             PROVE  request'[c].text[1] = c /\ request'[c].text[2] < typed'[c]
  BY DEF OwnText, IsText
<1>1. typed[c] \in Nat /\ typed'[c] \in Nat /\ typed[c] <= typed'[c]
  BY TypeParts, TypePartsNext DEF LocalTypes, Onward
<1>2. CASE pc[c] = "send" /\ request'[c] = request[c]
  <2>1. IsText(request[c])
    BY <1>2
  <2>2. request[c].text[1] = c /\ request[c].text[2] < typed[c]
    BY <1>2, <2>1 DEF OwnText
  <2>3. request[c].text[2] \in 0..MaxCommands
    <3>1. request[c] \in Message
      BY <1>2 DEF Sending, Message
    <3> QED BY <2>1, <3>1, TextFields
  <2>4. MaxCommands \in Nat
    BY ChatAssumption
  <2> QED BY <1>1, <1>2, <2>2, <2>3, <2>4
<1>3. CASE request'[c].text = <<c, typed[c]>> /\ typed'[c] = typed[c] + 1
  BY <1>1, <1>3
<1> QED BY <1>2, <1>3 DEF Onward

LEMMA WrittenKept ==
  ASSUME TypeOK, TypeOK', Onward, NEW m \in Message, Written(m)
  PROVE  Written(m)'
<1> SUFFICES ASSUME IsText(m) PROVE Written(m)'
  BY DEF Written, IsText
<1>1. PICK a \in Client : a = m.text[1]
  BY TextFields
<1>2. PICK n \in Nat : n = m.text[2]
  <2>1. m.text[2] \in 0..MaxCommands /\ MaxCommands \in Nat
    BY TextFields, ChatAssumption
  <2> QED BY <2>1
<1>3. typed[a] \in Nat /\ typed'[a] \in Nat /\ typed[a] <= typed'[a]
  BY TypeParts, TypePartsNext DEF LocalTypes, Onward
<1>4. n < typed[a]
  BY <1>1, <1>2 DEF Written
<1>5. ASSUME pc'[a] = "send", IsText(request'[a]) PROVE n < request'[a].text[2]
  <2>1. CASE pc[a] = "send" /\ request'[a] = request[a]
    <3>1. IsText(request[a])
      BY <1>5, <2>1
    <3>2. n < request[a].text[2]
      BY <1>1, <1>2, <2>1, <3>1 DEF Written
    <3> QED BY <2>1, <3>2
  <2>2. CASE request'[a].text = <<a, typed[a]>>
    BY <1>4, <2>2
  <2> QED BY <1>5, <2>1, <2>2 DEF Onward
<1>6. n < typed'[a]
  BY <1>3, <1>4
<1> QED BY <1>1, <1>2, <1>5, <1>6 DEF Written, IsText

LEMMA OrderedRemains ==
  ASSUME NEW S, NEW q \in Seq(S), NEW r \in Seq(S), Ordered(q), Remains(r, q)
  PROVE  Ordered(r) /\ ToSet(r) \subseteq ToSet(q)
<1>1. PICK at \in [1..Len(r) -> 1..Len(q)] :
        /\ \A k \in 1..Len(r) : r[k] = q[at[k]]
        /\ \A j, k \in 1..Len(r) : j < k => at[j] < at[k]
  BY DEF Remains
<1>2. \A k \in 1..Len(r) : at[k] \in 1..Len(q) /\ r[k] = q[at[k]]
  BY <1>1
<1>3. ASSUME NEW j \in 1..Len(r), NEW k \in 1..Len(r), j < k
      PROVE  Older(r[j], r[k])
  <2>1. at[j] < at[k]
    BY <1>1, <1>3
  <2>2. Older(q[at[j]], q[at[k]])
    BY <1>2, <2>1 DEF Ordered
  <2> QED BY <1>2, <2>2
<1>4. \A k \in 1..Len(r) : r[k] \in ToSet(q)
  BY <1>2 DEF ToSet
<1> QED BY <1>3, <1>4 DEF Ordered, ToSet

\* The invariant is kept when nothing new is on the way, and nothing changes its
\* place.
LEMMA TextsRemain ==
  ASSUME TypeOK, TypeOK', Sending, TextInv, Onward,
         \A d \in Client : Remains(Way(d)', Way(d))
  PROVE  TextInv'
<1>1. OwnText'
  BY OwnTextKept DEF TextInv
<1>2. ASSUME NEW d \in Client
      PROVE  Ordered(Way(d)') /\ \A m \in ToSet(Way(d)') : Written(m)'
  <2>1. PICK q \in Seq(Message) : q = Way(d)
    BY WayIs
  <2>2. PICK r \in Seq(Message) : r = Way(d)'
    BY WayIsNext
  <2>3. Ordered(q) /\ \A m \in ToSet(q) : Written(m)
    BY <2>1 DEF TextInv
  <2>4. Ordered(r) /\ ToSet(r) \subseteq ToSet(q)
    BY <2>1, <2>2, <2>3, OrderedRemains
  <2>5. ASSUME NEW m \in ToSet(r) PROVE Written(m)'
    <3>1. m \in Message
      BY ElementOfSeq DEF ToSet
    <3>2. Written(m)
      BY <2>3, <2>4
    <3> QED BY <3>1, <3>2, WrittenKept
  <2> QED BY <2>2, <2>4, <2>5
<1>3. ASSUME NEW d \in Client
      PROVE  Ordered(Way(d))' /\ \A m \in ToSet(Way(d))' : Written(m)'
  <2>1. Ordered(Way(d))'
    BY <1>2 DEF Ordered, Older, IsText
  <2>2. \A m \in ToSet(Way(d))' : Written(m)'
    BY <1>2 DEF ToSet
  <2> QED BY <2>1, <2>2
<1> QED BY <1>1, <1>3 DEF TextInv

\* A client that does not begin a send writes nothing.
LEMMA GoOnward ==
  ASSUME TypeOK, NEW c \in Client, NEW l, Goto(c, l), l # "send", UNCHANGED <<request, typed>>
  PROVE  Onward
<1>1. pc \in [Client -> Places] /\ \A a \in Client : typed[a] \in Nat
  BY TypeParts DEF LocalTypes
<1>2. pc'[c] = l /\ \A a \in Client : a # c => pc'[a] = pc[a]
  BY <1>1 DEF Goto
<1> QED BY <1>1, <1>2 DEF Onward

LEMMA StayOnward ==
  ASSUME TypeOK, UNCHANGED <<pc, request, typed>>
  PROVE  Onward
<1>1. \A a \in Client : typed[a] \in Nat
  BY TypeParts DEF LocalTypes
<1> QED BY <1>1 DEF Onward

\* A text that a client begins to send is the next one it has written.
LEMMA AskOnward ==
  ASSUME TypeOK, Sending, NEW c \in Client, NEW m, Ask(c, m),
         \/ typed' = typed /\ ~IsText(m)
         \/ typed' = [typed EXCEPT ![c] = @ + 1] /\ (IsText(m) => m.text = <<c, typed[c]>>)
  PROVE  Onward
<1>1. pc \in [Client -> Places] /\ typed \in [Client -> 0..MaxCommands]
      /\ \A a \in Client : typed[a] \in Nat
  BY TypeParts, ChatAssumption DEF LocalTypes
<1>2. DOMAIN request = Client
  BY DEF Sending
<1>3. /\ request'[c] = m
      /\ \A a \in Client : a # c => pc'[a] = pc[a] /\ request'[a] = request[a]
  BY <1>1, <1>2 DEF Ask, Goto
<1>4. \A a \in Client : a # c => typed'[a] = typed[a]
  BY <1>1
<1>5. typed'[c] = typed[c] \/ typed'[c] = typed[c] + 1
  BY <1>1
<1>6. ASSUME NEW a \in Client PROVE typed[a] <= typed'[a]
  BY <1>1, <1>4, <1>5
<1>7. ASSUME IsText(request'[c])
      PROVE  request'[c].text = <<c, typed[c]>> /\ typed'[c] = typed[c] + 1
  BY <1>1, <1>3, <1>7
<1> QED BY <1>3, <1>6, <1>7 DEF Onward

LEMMA ExpectOnward ==
  ASSUME TypeOK, NEW c \in Client, NEW n, Expect(c, n), UNCHANGED <<request, typed>>
  PROVE  Onward
<1>1. PICK l \in {"await_entity", "top"} : Goto(c, l)
  BY DEF Expect
<1> QED BY <1>1, GoOnward

LEMMA StepsOnward ==
  ASSUME TypeOK, Sending, [Next]_vars
  PROVE  Onward
<1>1. CASE UNCHANGED <<pc, request, typed>>
  BY <1>1, StayOnward
<1>2. CASE UNCHANGED vars
  BY <1>1, <1>2 DEF vars, clientVars, localVars
<1>3. CASE Server \/ InterruptServer
  BY <1>1, <1>3 DEF Server, registerNewClients, deregisterTerminatedClients, handleListing,
     handleToOne, handleToAll, Takes, Send, NextHandler, terminateClients, RemoveServerQueue,
     InterruptServer, clientVars, localVars
<1>4. ASSUME NEW c \in Client, SendRequest(c) PROVE Onward
  <2>1. request[c] \in Requests
    BY <1>4 DEF SendRequest, Sending
  <2>2. AfterSend(request[c].type) # "send"
    BY <2>1, RequestFields, AfterSendIs
  <2> QED BY <1>4, <2>2, GoOnward DEF SendRequest, localVars
<1>5. ASSUME NEW c \in Client, ReceiveId(c) PROVE Onward
  BY <1>5, GoOnward DEF ReceiveId, Receive
<1>6. ASSUME NEW c \in Client, Top(c) PROVE Onward
  <2>1. CASE Goto(c, "reading") /\ UNCHANGED <<request, typed>>
    BY <2>1, GoOnward
  <2>2. CASE Ask(c, [type |-> "STOP", id |-> this_id[c]]) /\ typed' = typed
    <3>1. ~IsText([type |-> "STOP", id |-> this_id[c]])
      BY DEF IsText
    <3> QED BY <2>2, <3>1, AskOnward
  <2> QED BY <1>6, <2>1, <2>2 DEF Top
<1>7. ASSUME NEW c \in Client, ReceiveCount(c) \/ ReceiveEntity(c) PROVE Onward
  BY <1>7, ExpectOnward DEF ReceiveCount, ReceiveEntity, Receive
<1>8. ASSUME NEW c \in Client, PrintOne(c) \/ PrintAll(c) PROVE Onward
  <2>1. UNCHANGED <<request, typed>>
    BY <1>8 DEF PrintOne, PrintAll, ShowNext, Receive
  <2>2. CASE UNCHANGED pc
    BY <1>1, <2>1, <2>2
  <2>3. CASE Goto(c, "incoming_all") \/ Goto(c, "top")
    BY <2>1, <2>3, GoOnward
  <2> QED BY <1>8, <2>2, <2>3 DEF PrintOne, PrintAll, ShowNext
<1>9. ASSUME NEW c \in Client, RemoveQueue(c) \/ handleIncoming(c) \/ TypeStop(c) PROVE Onward
  BY <1>9, GoOnward DEF RemoveQueue, handleIncoming, TypeStop, localVars
<1>10. ASSUME NEW c \in Client, Start(c) PROVE Onward
  <2>1. CASE Goto(c, "crashed") /\ UNCHANGED <<request, typed>>
    BY <2>1, GoOnward
  <2>2. CASE Ask(c, [type |-> "INIT", from |-> c]) /\ typed' = typed
    <3>1. ~IsText([type |-> "INIT", from |-> c])
      BY DEF IsText
    <3> QED BY <2>2, <3>1, AskOnward
  <2> QED BY <1>10, <2>1, <2>2 DEF Start
<1>11. ASSUME NEW c \in Client, list(c) \/ to_one(c) \/ to_all(c) PROVE Onward
  <2>1. ASSUME NEW m, Command(c, m), IsText(m) => m.text = <<c, typed[c]>> PROVE Onward
    BY <2>1, AskOnward DEF Command
  <2>2. CASE list(c)
    <3>1. ~IsText([type |-> "LIST", id |-> this_id[c]])
      BY DEF IsText
    <3> QED BY <2>1, <2>2, <3>1 DEF list
  <2>3. CASE to_one(c)
    BY <2>1, <2>3 DEF to_one, Text
  <2>4. CASE to_all(c)
    BY <2>1, <2>4 DEF to_all, Text
  <2> QED BY <1>11, <2>2, <2>3, <2>4
<1>12. ASSUME NEW c \in Client, Interrupt(c) PROVE Onward
  BY <1>1, <1>12 DEF Interrupt, localVars
<1>13. ASSUME NEW c \in Client, HandleSignal(c) PROVE Onward
  <2>1. UNCHANGED <<request, typed>>
    BY <1>13 DEF HandleSignal
  <2>2. CASE UNCHANGED pc
    BY <1>1, <2>1, <2>2
  <2>3. CASE Goto(c, "crashed")
    BY <2>1, <2>3, GoOnward
  <2>4. CASE Interrupted(c)
    <3>1. CASE pc[c] = "send" /\ Goto(c, AfterSend(request[c].type))
      <4>1. request[c] \in Requests
        BY <3>1 DEF Sending
      <4>2. AfterSend(request[c].type) # "send"
        BY <4>1, RequestFields, AfterSendIs
      <4> QED BY <2>1, <3>1, <4>2, GoOnward
    <3>2. CASE Goto(c, "crashed") \/ Goto(c, "top")
      BY <2>1, <3>2, GoOnward
    <3>3. CASE Expect(c, num_clients[c]) \/ Expect(c, num_clients[c] - 1)
      BY <2>1, <3>3, ExpectOnward
    <3> QED BY <2>4, <3>1, <3>2, <3>3 DEF Interrupted
  <2> QED BY <1>13, <2>2, <2>3, <2>4 DEF HandleSignal
<1> QED BY <1>2, <1>3, <1>4, <1>5, <1>6, <1>7, <1>8, <1>9, <1>10, <1>11, <1>12, <1>13
        DEF Next, Proceed, User

\* A message behind two sequences.
LEMMA JoinAppend ==
  ASSUME NEW S, NEW q \in Seq(S), NEW s \in Seq(S), NEW m \in S
  PROVE  Join(q, Append(s, m)) = Append(Join(q, s), m)
<1>1. PICK w : w = Join(q, s)
  OBVIOUS
<1>2. /\ w \in Seq(S)
      /\ Len(q) \in Nat /\ Len(s) \in Nat /\ Len(w) \in Nat /\ Len(w) - Len(q) = Len(s)
      /\ \A k \in 1..Len(q) : w[k] = q[k]
      /\ \A k \in 1..Len(s) : w[Len(q) + k] = s[k]
  BY <1>1, JoinPlaces
<1>3. PICK t : t = Append(s, m)
  OBVIOUS
<1>4. t \in Seq(S) /\ Len(t) = Len(s) + 1 /\ t[Len(s) + 1] = m /\ \A k \in 1..Len(s) : t[k] = s[k]
  BY <1>2, <1>3
<1>5. PICK v : v = Join(q, t)
  OBVIOUS
<1>6. /\ v \in Seq(S)
      /\ Len(t) \in Nat /\ Len(v) \in Nat /\ Len(v) - Len(q) = Len(t)
      /\ \A k \in 1..Len(q) : v[k] = q[k]
      /\ \A k \in 1..Len(t) : v[Len(q) + k] = t[k]
  BY <1>4, <1>5, JoinPlaces
<1>7. PICK u : u = Append(w, m)
  OBVIOUS
<1>8. u \in Seq(S) /\ Len(u) = Len(w) + 1 /\ u[Len(w) + 1] = m /\ \A k \in 1..Len(w) : u[k] = w[k]
  BY <1>2, <1>7
<1>9. Len(v) = Len(u)
  BY <1>2, <1>4, <1>6, <1>8
<1>10. ASSUME NEW k \in 1..Len(v) PROVE v[k] = u[k]
  <2>1. CASE k \in 1..Len(q)
    BY <1>2, <1>6, <1>8, <2>1
  <2>2. CASE k \notin 1..Len(q)
    <3>1. PICK j : j = k - Len(q)
      OBVIOUS
    <3>2. j \in 1..Len(t) /\ k = Len(q) + j
      BY <1>2, <1>6, <2>2, <3>1
    <3>3. v[k] = t[j]
      BY <1>6, <3>2
    <3>4. CASE j \in 1..Len(s)
      <4>1. v[k] = s[j] /\ w[k] = s[j]
        BY <1>2, <1>4, <3>2, <3>3, <3>4
      <4>2. k \in 1..Len(w)
        BY <1>2, <3>2, <3>4
      <4> QED BY <1>8, <4>1, <4>2
    <3>5. CASE j = Len(s) + 1
      <4>1. v[k] = m
        BY <1>4, <3>3, <3>5
      <4>2. k = Len(w) + 1
        BY <1>2, <3>2, <3>5
      <4> QED BY <1>8, <4>1, <4>2
    <3>6. j \in 1..Len(s) \/ j = Len(s) + 1
      BY <1>2, <1>4, <3>2
    <3> QED BY <3>4, <3>5, <3>6
  <2> QED BY <2>1, <2>2
<1>11. v = u
  BY <1>6, <1>8, <1>9, <1>10, SeqEqual
<1> QED BY <1>1, <1>3, <1>5, <1>7, <1>11

\* A client's request comes behind all that is on the way.
LEMMA WayGrows ==
  ASSUME TypeOK, NEW d \in Client, NEW m \in Message,
         UNCHANGED <<queue, outbox>>, server_queue' = Append(server_queue, m)
  PROVE  Way(d)' = Append(Way(d), m)
<1>1. PICK q \in Seq(Message) : q = Mailbox(d)
  BY WayIs
<1>2. PICK s \in Seq(Message) : s = server_queue
  BY WayIs
<1>3. Mailbox(d)' = q
  BY <1>1, MailboxStays
<1>4. Way(d)' = Join(q, Append(s, m)) /\ Way(d) = Join(q, s)
  BY <1>1, <1>2, <1>3 DEF Way
<1> QED BY <1>4, JoinAppend

LEMMA TextsGrow ==
  ASSUME TypeOK, TypeOK', Sending, TextInv, Onward,
         NEW c \in Client, pc[c] = "send", pc'[c] # "send", typed' = typed,
         UNCHANGED <<queue, outbox>>, server_queue' = Append(server_queue, request[c])
  PROVE  TextInv'
<1>1. OwnText'
  BY OwnTextKept DEF TextInv
<1>2. PICK m \in Message : m = request[c]
  BY DEF Sending, Message
<1>3. IsText(m) => m.text[1] = c /\ m.text[2] < typed[c]
  BY <1>2 DEF TextInv, OwnText
<1>4. Written(m)'
  BY <1>3 DEF Written, IsText
<1>5. ASSUME NEW d \in Client
      PROVE  Ordered(Way(d)') /\ \A n \in ToSet(Way(d)') : Written(n)'
  <2>1. PICK q \in Seq(Message) : q = Way(d)
    BY WayIs
  <2>2. PICK r : r = Append(q, m)
    OBVIOUS
  <2>3. Way(d)' = r
    BY <1>2, <2>1, <2>2, WayGrows
  <2>4. /\ Len(q) \in Nat /\ r \in Seq(Message) /\ Len(r) = Len(q) + 1 /\ r[Len(q) + 1] = m
        /\ \A k \in 1..Len(q) : r[k] = q[k]
    BY <2>2, LenProperties
  <2>5. Ordered(q) /\ \A n \in ToSet(q) : Written(n)
    BY <2>1 DEF TextInv
  <2>6. \A k \in 1..Len(q) : q[k] \in ToSet(q) /\ q[k] \in Message
    BY ElementOfSeq DEF ToSet
  <2>7. ASSUME NEW n \in ToSet(q) PROVE Older(n, m) /\ Written(n)'
    <3>1. n \in Message
      BY ElementOfSeq DEF ToSet
    <3>2. Written(n)
      BY <2>5
    <3>3. Older(n, m)
      <4> SUFFICES ASSUME IsText(n), n.type = m.type, n.text[1] = m.text[1]
                   PROVE  n.text[2] < m.text[2]
        BY DEF Older
      <4>1. IsText(m) /\ IsText(request[c])
        BY <1>2 DEF IsText
      <4>2. n.text[1] = c
        BY <1>3, <4>1
      <4> QED BY <1>2, <3>2, <4>1, <4>2 DEF Written
    <3> QED BY <3>1, <3>2, <3>3, WrittenKept
  <2>8. ASSUME NEW i \in 1..Len(r), NEW j \in 1..Len(r), i < j
        PROVE  Older(r[i], r[j])
    <3>1. i \in 1..Len(q)
      BY <2>4, <2>8
    <3>2. CASE j \in 1..Len(q)
      BY <2>4, <2>5, <2>8, <3>1, <3>2 DEF Ordered
    <3>3. CASE j = Len(q) + 1
      BY <2>4, <2>6, <2>7, <3>1, <3>3
    <3> QED BY <2>4, <3>2, <3>3
  <2>9. ASSUME NEW n \in ToSet(r) PROVE Written(n)'
    <3>1. PICK i \in 1..Len(r) : n = r[i]
      BY <2>4 DEF ToSet
    <3>2. CASE i \in 1..Len(q)
      BY <2>4, <2>6, <2>7, <3>1, <3>2
    <3>3. CASE i = Len(q) + 1
      BY <1>4, <2>4, <3>1, <3>3
    <3> QED BY <2>4, <3>2, <3>3
  <2> QED BY <2>3, <2>8, <2>9 DEF Ordered
<1>6. ASSUME NEW d \in Client
      PROVE  Ordered(Way(d))' /\ \A n \in ToSet(Way(d))' : Written(n)'
  <2>1. Ordered(Way(d))'
    BY <1>5 DEF Ordered, Older, IsText
  <2>2. \A n \in ToSet(Way(d))' : Written(n)'
    BY <1>5 DEF ToSet
  <2> QED BY <2>1, <2>2
<1> QED BY <1>1, <1>6 DEF TextInv

\* msgrcv takes the first message of a type.
LEMMA FirstOfIsFirst ==
  ASSUME NEW q, NEW type, Len(q) \in Nat, Has(q, type),
         NEW k \in 1..Len(q), q[k].type = type
  PROVE  FirstOf(q, type) <= k
<1> DEFINE I == {i \in 1..Len(q) : q[i].type = type}
<1>1. FirstOf(q, type) = IF I # {} THEN Min(I) ELSE 0
  BY DEF FirstOf, SelectInSeq
<1>2. k \in I /\ I \subseteq Nat
  OBVIOUS
<1>3. FirstOf(q, type) = Min(I)
  BY <1>1, <1>2
<1> HIDE DEF I
<1> QED BY <1>2, <1>3, MinIsLeast

\* Where a message of q, then a, then t was in q, then s, before the fth message
\* of s was answered with a.
Came(q, a, f, i) ==
  IF i <= Len(q) THEN i
  ELSE IF i <= Len(q) + Len(a) THEN Len(q) + f
  ELSE Len(q) + Before(i - Len(q) - Len(a), f)

\* The server moves the first text of a type from its queue to its mail.
LEMMA AnsweredInOrder ==
  ASSUME NEW S, NEW q \in Seq(S), NEW a \in Seq(S), NEW s \in Seq(S), NEW t \in Seq(S),
         NEW f, LeavesOut(t, s, f),
         \A k \in 1..Len(s) : s[k].type = s[f].type => f <= k,
         \A k \in 1..Len(a) : IsText(a[k]) => a[k] = s[f],
         \A j, k \in 1..Len(a) : IsText(a[j]) /\ IsText(a[k]) => j = k,
         Ordered(Join(q, s))
  PROVE  /\ Ordered(Join(Join(q, a), t))
         /\ \A m \in ToSet(Join(Join(q, a), t)) : IsText(m) => m \in ToSet(Join(q, s))
<1>1. PICK w : w = Join(q, s)
  OBVIOUS
<1>2. PICK p : p = Join(q, a)
  OBVIOUS
<1>3. PICK v : v = Join(p, t)
  OBVIOUS
<1>4. /\ w \in Seq(S)
      /\ Len(q) \in Nat /\ Len(s) \in Nat /\ Len(w) \in Nat /\ Len(w) - Len(q) = Len(s)
      /\ \A k \in 1..Len(q) : w[k] = q[k]
      /\ \A k \in 1..Len(s) : w[Len(q) + k] = s[k]
  BY <1>1, JoinPlaces
<1>5. /\ p \in Seq(S)
      /\ Len(a) \in Nat /\ Len(p) \in Nat /\ Len(p) - Len(q) = Len(a)
      /\ \A k \in 1..Len(q) : p[k] = q[k]
      /\ \A k \in 1..Len(a) : p[Len(q) + k] = a[k]
  BY <1>2, JoinPlaces
<1>6. /\ v \in Seq(S)
      /\ Len(t) \in Nat /\ Len(v) \in Nat /\ Len(v) - Len(p) = Len(t)
      /\ \A k \in 1..Len(p) : v[k] = p[k]
      /\ \A k \in 1..Len(t) : v[Len(p) + k] = t[k]
  BY <1>3, <1>5, JoinPlaces
<1>7. /\ f \in 1..Len(s) /\ Len(t) = Len(s) - 1
      /\ \A k \in 1..Len(t) : t[k] = s[Before(k, f)]
      /\ \A k \in 1..Len(t) : Before(k, f) \in 1..Len(s) \ {f}
      /\ \A j, k \in 1..Len(t) : j < k => Before(j, f) < Before(k, f)
  <2>1. /\ f \in 1..Len(s) /\ Len(t) = Len(s) - 1
        /\ \A k \in 1..Len(t) : t[k] = s[Before(k, f)]
    BY DEF LeavesOut
  <2>2. /\ \A k \in 1..(Len(s) - 1) : Before(k, f) \in 1..Len(s) \ {f}
        /\ \A j, k \in 1..(Len(s) - 1) : j < k => Before(j, f) < Before(k, f)
    BY <1>4, <2>1, BeforeOnto
  <2> QED BY <2>1, <2>2
<1> DEFINE o(i) == Came(q, a, f, i)
           InQ(i) == i \in 1..Len(q) /\ o(i) = i /\ v[i] = q[i]
           InA(i) == i \notin 1..Len(q) /\ i - Len(q) \in 1..Len(a) /\ o(i) = Len(q) + f
                     /\ v[i] = a[i - Len(q)]
           InT(i) == /\ i \notin 1..Len(q) /\ i > Len(q) + Len(a)
                     /\ i - Len(q) - Len(a) \in 1..Len(t)
                     /\ o(i) = Len(q) + Before(i - Len(q) - Len(a), f)
                     /\ v[i] = t[i - Len(q) - Len(a)]
<1>8. ASSUME NEW i \in 1..Len(v) PROVE InQ(i) \/ InA(i) \/ InT(i)
  <2>1. CASE i <= Len(q)
    <3>1. i \in 1..Len(q) /\ i \in 1..Len(p)
      BY <1>4, <1>5, <2>1
    <3> QED BY <1>5, <1>6, <2>1, <3>1 DEF Came
  <2>2. CASE ~(i <= Len(q)) /\ i <= Len(q) + Len(a)
    <3>1. PICK k : k = i - Len(q)
      OBVIOUS
    <3>2. k \in 1..Len(a) /\ i \notin 1..Len(q) /\ i \in 1..Len(p) /\ i = Len(q) + k
      BY <1>4, <1>5, <2>2, <3>1
    <3>3. v[i] = a[k]
      BY <1>5, <1>6, <3>2
    <3> QED BY <2>2, <3>1, <3>2, <3>3 DEF Came
  <2>3. CASE ~(i <= Len(q)) /\ ~(i <= Len(q) + Len(a))
    <3>1. PICK k : k = i - Len(q) - Len(a)
      OBVIOUS
    <3>2. k \in 1..Len(t) /\ i \notin 1..Len(q) /\ i > Len(q) + Len(a) /\ i = Len(p) + k
      <4>1. i \in Nat /\ k \in Int /\ i > Len(q) + Len(a) /\ i <= Len(v)
        <5>1. i \in Nat /\ i <= Len(v)
          BY <1>6
        <5>2. k \in Int
          BY <1>4, <1>5, <3>1, <5>1
        <5>3. i > Len(q) + Len(a)
          BY <1>4, <1>5, <2>3, <5>1
        <5> QED BY <5>1, <5>2, <5>3
      <4>2. k >= 1 /\ i = Len(p) + k
        <5>1. Len(p) = Len(q) + Len(a)
          BY <1>4, <1>5
        <5>2. i = Len(q) + Len(a) + k
          BY <1>4, <1>5, <3>1, <4>1
        <5> QED BY <1>4, <1>5, <4>1, <5>1, <5>2
      <4>3. k <= Len(t)
        BY <1>5, <1>6, <4>1, <4>2
      <4> QED BY <1>4, <1>5, <1>6, <4>1, <4>2, <4>3
    <3>3. v[i] = t[k]
      BY <1>6, <3>2
    <3> QED BY <2>3, <3>1, <3>2, <3>3 DEF Came
  <2> QED BY <2>1, <2>2, <2>3
<1> HIDE DEF o
<1>9. ASSUME NEW i \in 1..Len(v), IsText(v[i])
      PROVE  o(i) \in 1..Len(w) /\ w[o(i)] = v[i]
  <2>1. CASE InQ(i)
    <3>1. i \in 1..Len(w) /\ w[i] = q[i]
      BY <1>4, <2>1
    <3> QED BY <2>1, <3>1
  <2>2. CASE InA(i)
    <3>1. v[i] = s[f]
      BY <1>9, <2>2
    <3>2. Len(q) + f \in 1..Len(w) /\ w[Len(q) + f] = s[f]
      BY <1>4, <1>7
    <3> QED BY <2>2, <3>1, <3>2
  <2>3. CASE InT(i)
    <3>1. PICK k \in 1..Len(t) : k = i - Len(q) - Len(a)
      BY <2>3
    <3>2. Before(k, f) \in 1..Len(s) /\ v[i] = s[Before(k, f)] /\ o(i) = Len(q) + Before(k, f)
      BY <1>7, <2>3, <3>1
    <3>3. PICK h : h = Before(k, f)
      OBVIOUS
    <3>4. Len(q) + h \in 1..Len(w) /\ w[Len(q) + h] = s[h]
      BY <1>4, <3>2, <3>3
    <3> QED BY <3>2, <3>3, <3>4
  <2> QED BY <1>8, <2>1, <2>2, <2>3
<1>10. ASSUME NEW i \in 1..Len(v), NEW j \in 1..Len(v), i < j,
              IsText(v[i]), IsText(v[j]), v[i].type = v[j].type
       PROVE  o(i) < o(j)
  <2>1. CASE InQ(i) /\ InQ(j)
    BY <1>10, <2>1
  <2>2. CASE InQ(i) /\ InA(j)
    <3>1. o(i) <= Len(q) /\ o(i) \in Nat /\ o(j) = Len(q) + f
      BY <1>4, <2>2
    <3> QED BY <1>4, <1>7, <3>1
  <2>3. CASE InQ(i) /\ InT(j)
    <3>1. PICK k \in 1..Len(t) : k = j - Len(q) - Len(a)
      BY <2>3
    <3>2. o(j) = Len(q) + Before(k, f) /\ Before(k, f) \in 1..Len(s)
      BY <1>7, <2>3, <3>1
    <3>3. o(i) <= Len(q) /\ o(i) \in Nat
      BY <1>4, <2>3
    <3> QED BY <1>4, <3>2, <3>3
  <2>4. CASE InA(i) /\ InA(j)
    <3>1. i - Len(q) = j - Len(q)
      BY <1>10, <2>4
    <3> QED BY <1>4, <1>10, <3>1
  <2>5. CASE InA(i) /\ InT(j)
    <3>1. PICK k \in 1..Len(t) : k = j - Len(q) - Len(a)
      BY <2>5
    <3>2. Before(k, f) \in 1..Len(s) /\ Before(k, f) # f /\ v[j] = s[Before(k, f)] /\ o(j) = Len(q) + Before(k, f)
      BY <1>7, <2>5, <3>1
    <3>3. v[i] = s[f]
      BY <1>10, <2>5
    <3>4. f <= Before(k, f)
      BY <1>10, <3>2, <3>3
    <3>5. f < Before(k, f)
      BY <1>4, <1>7, <3>2, <3>4
    <3>6. o(i) = Len(q) + f
      BY <2>5
    <3>7. PICK g : g = Before(k, f)
      OBVIOUS
    <3>8. Len(q) \in Nat /\ f \in Nat /\ g \in Nat /\ f < g
      BY <1>4, <1>7, <3>2, <3>5, <3>7
    <3>9. o(j) = Len(q) + g
      BY <3>2, <3>7
    <3> QED BY <3>6, <3>8, <3>9
  <2>6. CASE InT(i) /\ InT(j)
    <3>1. PICK h \in 1..Len(t) : h = i - Len(q) - Len(a)
      BY <2>6
    <3>2. PICK k \in 1..Len(t) : k = j - Len(q) - Len(a)
      BY <2>6
    <3>3. h < k
      BY <1>4, <1>5, <1>10, <3>1, <3>2
    <3>4. Before(h, f) < Before(k, f) /\ Before(h, f) \in 1..Len(s) /\ Before(k, f) \in 1..Len(s)
      BY <1>7, <3>3
    <3>5. o(i) = Len(q) + Before(h, f) /\ o(j) = Len(q) + Before(k, f)
      BY <2>6, <3>1, <3>2
    <3> QED BY <1>4, <3>4, <3>5
  <2>7. CASE i \notin 1..Len(q) /\ InQ(j)
    BY <1>4, <1>10, <2>7
  <2>8. CASE InT(i) /\ InA(j)
    BY <1>4, <1>5, <1>10, <2>8
  <2> QED BY <1>8, <2>1, <2>2, <2>3, <2>4, <2>5, <2>6, <2>7, <2>8
<1> HIDE DEF InQ, InA, InT
<1>11. ASSUME NEW i \in 1..Len(v), NEW j \in 1..Len(v), i < j
       PROVE  Older(v[i], v[j])
  <2> SUFFICES ASSUME IsText(v[i]), v[i].type = v[j].type PROVE Older(v[i], v[j])
    BY DEF Older
  <2>1. IsText(v[j])
    BY DEF IsText
  <2>2. o(i) < o(j) /\ o(i) \in 1..Len(w) /\ o(j) \in 1..Len(w) /\ w[o(i)] = v[i] /\ w[o(j)] = v[j]
    BY <1>9, <1>10, <1>11, <2>1
  <2>3. Ordered(w)
    BY <1>1
  <2> QED BY <2>2, <2>3 DEF Ordered
<1>12. ASSUME NEW m \in ToSet(v), IsText(m) PROVE m \in ToSet(w)
  <2>1. PICK i \in 1..Len(v) : m = v[i]
    BY <1>6 DEF ToSet
  <2>2. o(i) \in 1..Len(w) /\ w[o(i)] = m
    BY <1>9, <1>12, <2>1
  <2> QED BY <1>4, <2>2 DEF ToSet
<1> QED BY <1>1, <1>2, <1>3, <1>11, <1>12 DEF Ordered
-----------------------------------------------------------------------------
(***************************************************************************)
(* What the handlers send.                                                 *)
(***************************************************************************)

\* The answer to LIST, message by message.
LEMMA ListingPlaces ==
  ASSUME NEW id, NEW data, DOMAIN data \subseteq Ids,
         NEW n \in Nat, n = Cardinality(DOMAIN data), NEW mail, mail = Listing(id, data)
  PROVE  /\ Len(mail) \in Nat /\ Len(mail) - 1 = n
         /\ mail[1] = To(data[id], [type |-> "LIST", num |-> Cardinality(Known)])
         /\ \A k \in 2..(n + 1) :
              mail[k] = To(data[id], [type |-> "LIST_ENTITY", id |-> InOrder(data)[k - 1]])
<1> DEFINE ids == InOrder(data)
           first == To(data[id], [type |-> "LIST", num |-> Cardinality(Known)])
           rest == [k \in 1..Len(ids) |-> To(data[id], [type |-> "LIST_ENTITY", id |-> ids[k]])]
           S == {first} \cup {rest[k] : k \in 1..n}
<1>1. Len(ids) = n
  BY IdsBounded, InOrderIsSequence DEF Ids
<1>2. rest = [k \in 1..n |-> To(data[id], [type |-> "LIST_ENTITY", id |-> ids[k]])]
  BY <1>1
<1>3. \A k \in 1..n : rest[k] = To(data[id], [type |-> "LIST_ENTITY", id |-> ids[k]])
  BY <1>2
<1>4. DOMAIN rest = 1..n /\ rest = [k \in 1..n |-> rest[k]]
  BY <1>2
<1>5. mail = Join(<<first>>, rest)
  BY DEF Listing, Join
<1> HIDE DEF first, rest
<1>6. rest \in Seq(S) /\ Len(rest) = n
  <2>1. \A k \in 1..n : rest[k] \in S
    OBVIOUS
  <2> HIDE DEF S
  <2> QED BY <1>1, <1>4, <2>1
<1>7. PICK s : s = <<first>>
  OBVIOUS
<1>8. s \in Seq(S)
  BY <1>7
<1> HIDE DEF S
<1>9. /\ Len(mail) \in Nat /\ Len(mail) - Len(s) = Len(rest)
      /\ \A k \in 1..Len(s) : mail[k] = s[k]
      /\ \A k \in 1..Len(rest) : mail[Len(s) + k] = rest[k]
  <2>1. rest \in Seq(S) /\ mail = Join(s, rest)
    BY <1>5, <1>6, <1>7
  <2> QED BY <1>8, <2>1, JoinPlaces
<1>10. Len(s) = 1 /\ s[1] = first
  BY <1>7
<1>11. Len(mail) = n + 1 /\ mail[1] = first
  BY <1>6, <1>9, <1>10
<1>12. \A k \in 2..(n + 1) : k - 1 \in 1..n /\ mail[k] = rest[k - 1]
  <2> SUFFICES ASSUME NEW k \in 2..(n + 1) PROVE k - 1 \in 1..n /\ mail[k] = rest[k - 1]
    OBVIOUS
  <2>1. PICK j : j = k - 1
    OBVIOUS
  <2>2. j \in 1..n /\ k = 1 + j
    BY <2>1
  <2>3. mail[Len(s) + j] = rest[j]
    BY <1>6, <1>9, <2>2
  <2>4. mail[1 + j] = rest[j]
    BY <1>10, <2>3
  <2> QED BY <2>1, <2>2, <2>4
<1>13. \A k \in 2..(n + 1) :
         mail[k] = To(data[id], [type |-> "LIST_ENTITY", id |-> InOrder(data)[k - 1]])
  <2> SUFFICES ASSUME NEW k \in 2..(n + 1)
               PROVE  mail[k] = To(data[id], [type |-> "LIST_ENTITY", id |-> InOrder(data)[k - 1]])
    OBVIOUS
  <2>1. k - 1 \in 1..n /\ mail[k] = rest[k - 1]
    BY <1>12
  <2> QED BY <1>3, <2>1
<1>14. Len(mail) \in Nat /\ Len(mail) - 1 = n
  BY <1>11
<1>15. mail[1] = To(data[id], [type |-> "LIST", num |-> Cardinality(Known)])
  BY <1>11 DEF first
<1> QED BY <1>13, <1>14, <1>15

\* No id of a registry is twice in its order.
LEMMA InOrderOnce ==
  ASSUME NEW data, NEW b \in Nat, DOMAIN data \subseteq 0..b,
         NEW j \in 1..Cardinality(DOMAIN data), NEW k \in 1..Cardinality(DOMAIN data),
         InOrder(data)[j] = InOrder(data)[k]
  PROVE  j = k
<1>1. /\ Cardinality({i \in DOMAIN data : i < InOrder(data)[j]}) = j - 1
      /\ Cardinality({i \in DOMAIN data : i < InOrder(data)[k]}) = k - 1
  BY InOrderIs
<1>2. j - 1 = k - 1
  BY <1>1
<1> QED BY <1>2

\* A text to all, message by message.
LEMMA BroadcastPlaces ==
  ASSUME NEW m, Known \subseteq Ids, NEW mail, mail = Broadcast(m)
  PROVE  /\ Cardinality(Known) \in Nat /\ Len(mail) = Cardinality(Known)
         /\ \A k \in 1..Len(mail) :
              /\ InOrder(client_data)[k] \in Known
              /\ mail[k] = To(client_data[InOrder(client_data)[k]], m)
         /\ \A j, k \in 1..Len(mail) : InOrder(client_data)[j] = InOrder(client_data)[k] => j = k
<1> DEFINE ids == InOrder(client_data)
           n == Cardinality(Known)
<1>1. /\ MaxId + Cardinality(Client) \in Nat
      /\ DOMAIN client_data \subseteq 0..(MaxId + Cardinality(Client))
  BY IdsBounded DEF Ids, Known
<1>2. n \in Nat /\ Len(ids) = n /\ \A k \in 1..n : ids[k] \in Known
  BY <1>1, InOrderInDomain, InOrderIsSequence DEF Known
<1>3. \A j, k \in 1..n : ids[j] = ids[k] => j = k
  BY <1>1, InOrderOnce DEF Known
<1>4. mail = [k \in 1..n |-> To(client_data[ids[k]], m)]
  BY <1>2 DEF Broadcast
<1> HIDE DEF n, ids
<1>5. Len(mail) = n /\ \A k \in 1..n : mail[k] = To(client_data[ids[k]], m)
  BY <1>2, <1>4
<1> QED BY <1>2, <1>3, <1>5 DEF n, ids

\* There is no text in the answer to LIST.
LEMMA ListingHasNoText ==
  ASSUME NEW id, NEW data, DOMAIN data \subseteq Ids,
         NEW n \in Nat, n = Cardinality(DOMAIN data), NEW mail, mail = Listing(id, data)
  PROVE  \A k \in 1..Len(mail) : mail[k].msg.type \in {"LIST", "LIST_ENTITY"}
<1>1. Len(mail) \in Nat /\ Len(mail) - 1 = n
  BY ListingPlaces
<1>2. mail[1].msg.type = "LIST"
  <2>1. mail[1] = To(data[id], [type |-> "LIST", num |-> Cardinality(Known)])
    BY ListingPlaces
  <2> QED BY <2>1 DEF To
<1>3. ASSUME NEW k \in 2..(n + 1) PROVE mail[k].msg.type = "LIST_ENTITY"
  <2>1. mail[k] = To(data[id], [type |-> "LIST_ENTITY", id |-> InOrder(data)[k - 1]])
    BY ListingPlaces
  <2> QED BY <2>1 DEF To
<1>4. \A k \in 1..Len(mail) : k = 1 \/ k \in 2..(n + 1)
  BY <1>1
<1> QED BY <1>2, <1>3, <1>4

\* What a handler sends that is a text is the request it has taken, and it sends
\* it to a client at most once.
LEMMA TextAnswered ==
  ASSUME IInv, IInv', Handles, NEW d \in Client, NEW a, a = Addressed(d, outbox')
  PROVE  /\ \A k \in 1..Len(a) : IsText(a[k]) => a[k] = Request
         /\ \A j, k \in 1..Len(a) : IsText(a[j]) /\ IsText(a[k]) => j = k
<1>1. /\ TypeOK /\ TypeOK' /\ OneId /\ Known \subseteq Ids
  <2>1. TypeOK /\ TypeOK' /\ OneId
    BY DEF IInv, Registry
  <2> QED BY <2>1, TypeParts DEF RegistryTypes
<1>2. PICK mail \in Seq(Mail) : mail = outbox'
  BY <1>1, MailboxIsNext
<1>3. /\ Len(a) = Len(mail) /\ Len(mail) \in Nat
      /\ \A k \in 1..Len(mail) : a[k] = IF mail[k].to = d THEN mail[k].msg ELSE NoMsg
  BY <1>2, AddressedType
<1>4. \A k \in 1..Len(mail) : IsText(a[k]) => mail[k].to = d /\ a[k] = mail[k].msg /\ IsText(mail[k].msg)
  BY <1>3 DEF IsText, NoMsg
<1>5. CASE registerNewClients
  <2>1. mail = <<To(Request.from, [type |-> "INIT", id |-> NewId])>>
    BY <1>2, <1>5 DEF registerNewClients
  <2>2. PICK x : x = To(Request.from, [type |-> "INIT", id |-> NewId])
    OBVIOUS
  <2>3. Len(mail) = 1 /\ mail[1] = x /\ x.msg.type = "INIT"
    BY <2>1, <2>2 DEF To
  <2>4. \A k \in 1..Len(mail) : ~IsText(mail[k].msg)
    BY <2>3 DEF IsText
  <2> QED BY <1>3, <1>4, <2>4
<1>6. CASE deregisterTerminatedClients
  <2>1. mail = <<>>
    BY <1>2, <1>6 DEF deregisterTerminatedClients, Takes
  <2>2. Len(mail) = 0
    BY <2>1, EmptySeq
  <2> QED BY <1>3, <2>2
<1>7. CASE handleListing
  <2>1. PICK id : id = Request.id
    OBVIOUS
  <2>2. PICK data : data = client_data'
    OBVIOUS
  <2>3. mail = Listing(id, data)
    BY <1>2, <1>7, <2>1, <2>2 DEF handleListing
  <2>4. DOMAIN data \subseteq Ids
    BY <1>1, <2>2, TypePartsNext DEF RegistryTypes, Known
  <2>5. \A k \in 1..Len(mail) : mail[k].msg.type \in {"LIST", "LIST_ENTITY"}
    <3>1. PICK n \in Nat : n = Cardinality(DOMAIN data)
      BY <2>4, IdsBounded, InOrderInDomain DEF Ids
    <3> QED BY <2>3, <2>4, <3>1, ListingHasNoText
  <2>6. \A k \in 1..Len(mail) : ~IsText(mail[k].msg)
    BY <2>5 DEF IsText
  <2> QED BY <1>3, <1>4, <2>6
<1>8. CASE handleToOne
  <2>1. PICK m : m = Request
    OBVIOUS
  <2>2. PICK c : c = client_data'[m.target]
    OBVIOUS
  <2>3. mail = <<To(c, m)>>
    BY <1>2, <1>8, <2>1, <2>2 DEF handleToOne
  <2>4. PICK x : x = To(c, m)
    OBVIOUS
  <2>5. Len(mail) = 1 /\ mail[1] = x /\ x.msg = m
    BY <2>3, <2>4 DEF To
  <2>6. \A k \in 1..Len(mail) : k = 1 /\ mail[k].msg = m
    BY <2>5
  <2> QED BY <1>3, <1>4, <2>1, <2>6
<1>9. CASE handleToAll
  <2>1. PICK m : m = Request
    OBVIOUS
  <2>2. mail = Broadcast(m)
    BY <1>2, <1>9, <2>1 DEF handleToAll
  <2>3. /\ Cardinality(Known) \in Nat /\ Len(mail) = Cardinality(Known)
        /\ \A k \in 1..Len(mail) :
              /\ InOrder(client_data)[k] \in Known
              /\ mail[k] = To(client_data[InOrder(client_data)[k]], m)
        /\ \A j, k \in 1..Len(mail) : InOrder(client_data)[j] = InOrder(client_data)[k] => j = k
    BY <1>1, <2>2, BroadcastPlaces
  <2>4. \A k \in 1..Len(mail) : mail[k].msg = m /\ mail[k].to = client_data[InOrder(client_data)[k]]
    BY <2>3 DEF To
  <2>5. ASSUME NEW j \in 1..Len(mail), NEW k \in 1..Len(mail), mail[j].to = d, mail[k].to = d
        PROVE  j = k
    <3>1. PICK x \in Known : x = InOrder(client_data)[j]
      BY <2>3
    <3>2. PICK y \in Known : y = InOrder(client_data)[k]
      BY <2>3
    <3>3. client_data[x] = d /\ client_data[y] = d
      BY <2>4, <2>5, <3>1, <3>2
    <3>4. d # Nobody
      BY ChatAssumption
    <3>5. x = y
      BY <1>1, <3>3, <3>4 DEF OneId
    <3> QED BY <2>3, <3>1, <3>2, <3>5
  <2> QED BY <1>3, <1>4, <2>1, <2>4, <2>5
<1> QED BY <1>5, <1>6, <1>7, <1>8, <1>9 DEF Handles

LEMMA HandlesTakes ==
  ASSUME TypeOK, Handles
  PROVE  /\ outbox = <<>> /\ queue' = queue /\ UNCHANGED <<pc, request, typed, phase, server_flag>>
         /\ Has(server_queue, phase) /\ server_queue' = Taken(server_queue, phase)
         /\ phase \in {"INIT", "STOP", "LIST", "TO_ONE", "TO_ALL"}
<1>1. PICK type \in {"INIT", "STOP", "LIST", "TO_ONE", "TO_ALL"} : Takes(type)
  BY DEF Handles, registerNewClients, deregisterTerminatedClients, handleListing, handleToOne,
         handleToAll
<1> QED BY <1>1 DEF Takes, clientVars, localVars

LEMMA TextsAnswered ==
  ASSUME IInv, IInv', TextInv, Onward, Handles
  PROVE  TextInv'
<1>1. TypeOK /\ TypeOK' /\ Sending
  BY DEF IInv
<1>2. OwnText'
  BY <1>1, OwnTextKept DEF TextInv
<1>3. /\ outbox = <<>> /\ queue' = queue
      /\ Has(server_queue, phase) /\ server_queue' = Taken(server_queue, phase)
  BY <1>1, HandlesTakes
<1>4. ASSUME NEW d \in Client
      PROVE  Ordered(Way(d)') /\ \A n \in ToSet(Way(d)') : Written(n)'
  <2>1. PICK q \in Seq(Message) : q = Mailbox(d)
    BY <1>1, WayIs
  <2>2. PICK s \in Seq(Message) : s = server_queue
    BY <1>1, WayIs
  <2>3. PICK f : f = FirstOf(s, phase)
    OBVIOUS
  <2>4. PICK t : t = Taken(s, phase)
    OBVIOUS
  <2>5. Has(s, phase) /\ server_queue' = t /\ s[f] = Request
    BY <1>3, <2>2, <2>3, <2>4 DEF Request
  <2>6. LeavesOut(t, s, f) /\ t \in Seq(Message) /\ Len(s) \in Nat /\ s[f].type = phase
    BY <2>3, <2>4, <2>5, TakenLeavesOut
  <2>7. \A k \in 1..Len(s) : s[k].type = s[f].type => f <= k
    BY <2>3, <2>5, <2>6, FirstOfIsFirst
  <2>8. PICK a : a = Addressed(d, outbox')
    OBVIOUS
  <2>9. a \in Seq(Message)
    <3>1. a \in Seq(Post)
      BY <1>1, <2>8, MailboxIsNext
    <3> QED BY <3>1, SeqMonotonic DEF Message, Post
  <2>10. /\ \A k \in 1..Len(a) : IsText(a[k]) => a[k] = s[f]
         /\ \A j, k \in 1..Len(a) : IsText(a[j]) /\ IsText(a[k]) => j = k
    BY <2>5, <2>8, TextAnswered
  <2>11. Way(d) = Join(q, s)
    BY <2>1, <2>2 DEF Way
  <2>12. Mailbox(d)' = Join(q, a)
    BY <1>1, <1>3, <2>1, <2>8, MailboxAnswered
  <2>13. Way(d)' = Join(Join(q, a), t)
    BY <1>1, <2>5, <2>12, WayIsNext
  <2>14. Ordered(Join(q, s)) /\ \A n \in ToSet(Join(q, s)) : Written(n)
    BY <2>11 DEF TextInv
  <2>15. PICK v : v = Way(d)'
    OBVIOUS
  <2>16. PICK w : w = Way(d)
    OBVIOUS
  <2>17. /\ Ordered(v)
         /\ \A m \in ToSet(v) : IsText(m) => m \in ToSet(w)
    <3>1. Ordered(Join(Join(q, a), t))
      BY <2>6, <2>7, <2>9, <2>10, <2>14, AnsweredInOrder
    <3>2. \A m \in ToSet(Join(Join(q, a), t)) : IsText(m) => m \in ToSet(Join(q, s))
      BY <2>6, <2>7, <2>9, <2>10, <2>14, AnsweredInOrder
    <3> QED BY <2>11, <2>13, <2>15, <2>16, <3>1, <3>2
  <2>18. ASSUME NEW n \in ToSet(v) PROVE Written(n)'
    <3>1. n \in Message
      <4>1. v \in Seq(Message)
        BY <1>1, <2>15, WayIsNext
      <4> QED BY <4>1, ElementOfSeq DEF ToSet
    <3>2. CASE IsText(n)
      <4>1. n \in ToSet(w)
        BY <2>17, <3>2
      <4>2. Written(n)
        BY <2>11, <2>14, <2>16, <4>1
      <4> QED BY <1>1, <3>1, <4>2, WrittenKept
    <3>3. CASE ~IsText(n)
      BY <3>3 DEF Written, IsText
    <3> QED BY <3>2, <3>3
  <2> QED BY <2>15, <2>17, <2>18
<1>5. ASSUME NEW d \in Client
      PROVE  Ordered(Way(d))' /\ \A n \in ToSet(Way(d))' : Written(n)'
  <2>1. Ordered(Way(d))'
    BY <1>4 DEF Ordered, Older, IsText
  <2>2. \A n \in ToSet(Way(d))' : Written(n)'
    BY <1>4 DEF ToSet
  <2> QED BY <2>1, <2>2
<1> QED BY <1>2, <1>5 DEF TextInv

\* A step of anybody but a handler of the server adds nothing.
LEMMA WayRemains ==
  ASSUME TypeOK, TypeOK', [Next]_vars, ~Handles,
         server_queue' = server_queue \/ server_queue' = <<>>, NEW d \in Client
  PROVE  Remains(Way(d)', Way(d))
<1>1. PICK q \in Seq(Message) : q = Mailbox(d)
  BY WayIs
<1>2. PICK r \in Seq(Message) : r = Mailbox(d)'
  BY WayIsNext
<1>3. PICK s \in Seq(Message) : s = server_queue
  BY WayIs
<1>4. PICK t \in Seq(Message) : t = server_queue'
  BY WayIsNext
<1>5. Remains(r, q)
  <2>1. CASE Mailbox(d)' = Mailbox(d)
    BY <1>1, <1>2, <2>1, RemainsSelf
  <2>2. ASSUME NEW f, Drops(d, f) PROVE Remains(r, q)
    <3>1. Len(q) \in Nat /\ LeavesOut(r, q, f)
      BY <1>1, <1>2, <2>2, LenProperties DEF Drops
    <3> QED BY <3>1, LeavesOutRemains
  <2> QED BY <1>1, <1>2, <2>1, <2>2, MailboxMoves
<1>6. Remains(t, s)
  BY <1>3, <1>4, RemainsSelf, NothingRemains
<1>7. Remains(Join(r, t), Join(q, s))
  BY <1>5, <1>6, RemainsJoin
<1>8. Way(d) = Join(q, s)
  BY <1>1, <1>3 DEF Way
<1>9. Way(d)' = Join(r, t)
  BY <1>2, <1>4, WayIsNext
<1> QED BY <1>7, <1>8, <1>9

\* Only a handler takes a request, and only a client brings one.
LEMMA ServerQueueMoves ==
  ASSUME [Next]_vars
  PROVE  \/ Handles
         \/ server_queue' = server_queue \/ server_queue' = <<>>
         \/ \E c \in Client : SendRequest(c) /\ phase # "down"
<1>1. CASE UNCHANGED server_queue
  BY <1>1
<1>2. CASE UNCHANGED vars
  BY <1>1, <1>2 DEF vars
<1>3. CASE Server \/ InterruptServer
  BY <1>3 DEF Server, Handles, Send, NextHandler, terminateClients, RemoveServerQueue,
              InterruptServer
<1>4. ASSUME NEW c \in Client, User(c) \/ HandleSignal(c) PROVE UNCHANGED server_queue
  BY <1>4 DEF User, Start, list, to_one, to_all, Command, handleIncoming, TypeStop, Interrupt,
              HandleSignal
<1>5. ASSUME NEW c \in Client, Proceed(c), ~SendRequest(c) PROVE UNCHANGED server_queue
  BY <1>5 DEF Proceed, ReceiveId, Top, ReceiveCount, ReceiveEntity, PrintOne, PrintAll, ShowNext,
              Receive, RemoveQueue
<1>6. ASSUME NEW c \in Client, SendRequest(c), phase = "down" PROVE UNCHANGED server_queue
  BY <1>6 DEF SendRequest
<1> QED BY <1>2, <1>3, <1>4, <1>5, <1>6 DEF Next

LEMMA TextsKept ==
  ASSUME IInv, IInv', TextInv, [Next]_vars
  PROVE  TextInv'
<1>1. TypeOK /\ TypeOK' /\ Sending /\ Onward
  BY StepsOnward DEF IInv
<1>2. CASE Handles
  BY <1>1, <1>2, TextsAnswered
<1>3. ASSUME NEW c \in Client, SendRequest(c), phase # "down" PROVE TextInv'
  <2>1. /\ pc[c] = "send" /\ Goto(c, AfterSend(request[c].type))
        /\ UNCHANGED <<queue, outbox>> /\ typed' = typed
        /\ server_queue' = Append(server_queue, request[c])
    BY <1>3 DEF SendRequest, serverVars, localVars
  <2>2. request[c] \in Requests
    BY <1>1, <2>1 DEF Sending
  <2>3. AfterSend(request[c].type) # "send"
    BY <2>2, RequestFields, AfterSendIs
  <2>4. pc \in [Client -> Places]
    BY <1>1, TypeParts DEF LocalTypes
  <2>5. pc'[c] # "send"
    BY <2>1, <2>3, <2>4 DEF Goto
  <2> QED BY <1>1, <2>1, <2>5, TextsGrow
<1>4. CASE ~Handles /\ (server_queue' = server_queue \/ server_queue' = <<>>)
  <2>1. \A d \in Client : Remains(Way(d)', Way(d))
    BY <1>1, <1>4, WayRemains
  <2> QED BY <1>1, <2>1, TextsRemain
<1> QED BY <1>2, <1>3, <1>4, ServerQueueMoves

LEMMA TextsAtFirst ==
  ASSUME Init
  PROVE  TextInv
<1>1. TypeOK
  BY InitKeeps DEF IInv
<1>2. OwnText
  BY DEF Init, OwnText
<1>3. ASSUME NEW d \in Client PROVE Ordered(Way(d)) /\ \A m \in ToSet(Way(d)) : Written(m)
  <2>1. Mailbox(d) = queue[d] \o Addressed(d, <<>>) /\ queue[d] = <<>> /\ server_queue = <<>>
    BY DEF Init, Mailbox
  <2>2. PICK w : w = Way(d)
    OBVIOUS
  <2>3. Len(w) = 0
    <3>1. PICK q \in Seq(Message) : q = Mailbox(d)
      BY <1>1, WayIs
    <3>2. PICK s \in Seq(Message) : s = server_queue
      BY <1>1, WayIs
    <3>3. PICK a \in Seq(Post) : a = Addressed(d, outbox)
      BY <1>1, MailboxIs
    <3>4. PICK p \in Seq(Post) : p = queue[d]
      BY <1>1, MailboxIs
    <3>5. PICK mail \in Seq(Mail) : mail = outbox
      BY <1>1, MailboxIs
    <3>6. Len(mail) = 0 /\ Len(s) = 0 /\ Len(p) = 0
      BY <2>1, <3>2, <3>4, <3>5, EmptySeq DEF Init
    <3>7. Len(a) = Len(mail)
      BY <3>3, <3>5, AddressedType
    <3>8. q = Join(p, a)
      BY <1>1, <3>1, <3>3, <3>4, MailboxIs
    <3>9. Join(p, a) = p
      BY <3>6, <3>7, JoinNothing
    <3>10. w = Join(q, s)
      BY <2>2, <3>1, <3>2 DEF Way
    <3>11. Join(q, s) = q
      BY <3>6, JoinNothing
    <3> QED BY <3>6, <3>8, <3>9, <3>10, <3>11
  <2>4. Ordered(w) /\ \A m \in ToSet(w) : Written(m)
    BY <2>3 DEF Ordered, ToSet
  <2> QED BY <2>2, <2>4
<1> QED BY <1>2, <1>3 DEF TextInv

\* What is on its way is older than what its author writes next.
THEOREM TextInvariant == Spec => [](IInv /\ TextInv)
<1>1. Init => TextInv
  BY TextsAtFirst
<1>2. IInv /\ IInv' /\ TextInv /\ [Next]_vars => TextInv'
  BY TextsKept
<1> QED BY <1>1, <1>2, InductiveInvariant, PTL DEF Spec

\* The texts of one author come in the order they were written, each once,
\* however many clients write and read and however full their queues are.
THEOREM TextsInOrderHolds == Spec => []TextsInOrder
<1>1. TextInv => TextsInOrder
  <2> SUFFICES ASSUME TextInv, NEW d \in Client, NEW m, m = Mailbox(d) \o server_queue,
                      NEW i \in 1..Len(m), NEW j \in 1..Len(m), i < j
               PROVE  Older(m[i], m[j])
    BY DEF TextsInOrder
  <2>1. Ordered(m)
    BY DEF TextInv, Way, Join
  <2> QED BY <2>1 DEF Ordered
<1> QED BY <1>1, TextInvariant, PTL
-----------------------------------------------------------------------------
(***************************************************************************)
(* LIST: requests and answers in the queues.                               *)
(***************************************************************************)

\* The kth request in q is a LIST of the client with this id.
Lists(q, id, k) == q[k].type = "LIST" /\ q[k].id = id

NotAsked(q, id) == \A k \in 1..Len(q) : ~Lists(q, id, k)

AskedOnce(q, id) ==
  \E k \in 1..Len(q) : Lists(q, id, k) /\ \A j \in 1..Len(q) : Lists(q, id, j) => j = k

LEMMA OthersTaken ==
  ASSUME NEW q, NEW r, NEW f, NEW id, Len(q) \in Nat, LeavesOut(r, q, f), ~Lists(q, id, f)
  PROVE  /\ NotAsked(q, id) => NotAsked(r, id)
         /\ AskedOnce(q, id) => AskedOnce(r, id)
<1>1. f \in 1..Len(q) /\ Len(r) = Len(q) - 1 /\ \A k \in 1..Len(r) : r[k] = q[Before(k, f)]
  BY DEF LeavesOut
<1>2. /\ \A k \in 1..Len(r) : Before(k, f) \in 1..Len(q) \ {f}
      /\ \A j, k \in 1..Len(r) : j < k => Before(j, f) < Before(k, f)
      /\ \A i \in 1..Len(q) \ {f} : \E k \in 1..Len(r) : Before(k, f) = i
  <2>1. /\ \A k \in 1..(Len(q) - 1) : Before(k, f) \in 1..Len(q) \ {f}
        /\ \A j, k \in 1..(Len(q) - 1) : j < k => Before(j, f) < Before(k, f)
        /\ \A i \in 1..Len(q) \ {f} : \E k \in 1..(Len(q) - 1) : Before(k, f) = i
    BY <1>1, BeforeOnto
  <2> QED BY <1>1, <2>1
<1>3. \A k \in 1..Len(r) : Lists(r, id, k) <=> Lists(q, id, Before(k, f))
  BY <1>1 DEF Lists
<1>4. NotAsked(q, id) => NotAsked(r, id)
  BY <1>2, <1>3 DEF NotAsked
<1>5. ASSUME AskedOnce(q, id) PROVE AskedOnce(r, id)
  <2>1. PICK i \in 1..Len(q) : Lists(q, id, i) /\ \A j \in 1..Len(q) : Lists(q, id, j) => j = i
    BY <1>5 DEF AskedOnce
  <2>2. i # f
    BY <2>1
  <2>3. PICK k \in 1..Len(r) : Before(k, f) = i
    BY <1>2, <2>2
  <2>4. Lists(r, id, k)
    BY <1>3, <2>1, <2>3
  <2>5. ASSUME NEW j \in 1..Len(r), Lists(r, id, j) PROVE j = k
    <3>1. Before(j, f) = i
      BY <1>2, <1>3, <2>1, <2>5
    <3>2. f \in Nat /\ j \in Nat /\ k \in Nat
      BY <1>1
    <3> QED BY <2>3, <3>1, <3>2 DEF Before
  <2> QED BY <2>4, <2>5 DEF AskedOnce
<1> QED BY <1>4, <1>5

LEMMA OwnTaken ==
  ASSUME NEW q, NEW r, NEW f, NEW id, Len(q) \in Nat, LeavesOut(r, q, f), Lists(q, id, f),
         AskedOnce(q, id)
  PROVE  NotAsked(r, id)
<1>1. f \in 1..Len(q) /\ Len(r) = Len(q) - 1 /\ \A k \in 1..Len(r) : r[k] = q[Before(k, f)]
  BY DEF LeavesOut
<1>2. \A k \in 1..Len(r) : Before(k, f) \in 1..Len(q) \ {f}
  BY <1>1, BeforeOnto
<1>3. \A j \in 1..Len(q) : Lists(q, id, j) => j = f
  BY <1>1 DEF AskedOnce
<1> QED BY <1>1, <1>2, <1>3 DEF NotAsked, Lists

LEMMA Asked ==
  ASSUME NEW S, NEW q \in Seq(S), NEW m \in S, NEW r, r = Append(q, m), NEW id
  PROVE  /\ ~(m.type = "LIST" /\ m.id = id) /\ NotAsked(q, id) => NotAsked(r, id)
         /\ ~(m.type = "LIST" /\ m.id = id) /\ AskedOnce(q, id) => AskedOnce(r, id)
         /\ m.type = "LIST" /\ m.id = id /\ NotAsked(q, id) => AskedOnce(r, id)
<1>1. /\ Len(q) \in Nat /\ Len(r) = Len(q) + 1 /\ r[Len(q) + 1] = m
      /\ \A k \in 1..Len(q) : r[k] = q[k]
  BY LenProperties
<1>2. PICK n \in Nat : n = Len(q) + 1
  BY <1>1
<1>3. \A k \in 1..Len(r) : k \in 1..Len(q) \/ k = n
  BY <1>1, <1>2
<1>4. n \in 1..Len(r) /\ \A k \in 1..Len(q) : k \in 1..Len(r) /\ k # n
  BY <1>1, <1>2
<1>5. /\ \A k \in 1..Len(q) : Lists(r, id, k) <=> Lists(q, id, k)
      /\ Lists(r, id, n) <=> m.type = "LIST" /\ m.id = id
  BY <1>1, <1>2 DEF Lists
<1> QED BY <1>3, <1>4, <1>5 DEF NotAsked, AskedOnce

\* Nothing of an answer to LIST is in m.
Silent(m) == Count(m, "LIST") = 0 /\ Count(m, "LIST_ENTITY") = 0

\* One answer to LIST is in m, with all its entries.
WholeListing(m) ==
  /\ Count(m, "LIST") = 1
  /\ [type |-> "LIST", num |-> Count(m, "LIST_ENTITY")] \in ToSet(m)

\* The answers to LIST are in n as they were in m.
SameNews(n, m) ==
  /\ Count(n, "LIST") = Count(m, "LIST")
  /\ Count(n, "LIST_ENTITY") = Count(m, "LIST_ENTITY")
  /\ \A x \in ToSet(m) : x.type = "LIST" => x \in ToSet(n)

LEMMA SameNewsSelf == \A m : SameNews(m, m)
BY DEF SameNews

LEMMA NewsKept ==
  ASSUME NEW m, NEW n, SameNews(n, m)
  PROVE  (Silent(m) => Silent(n)) /\ (WholeListing(m) => WholeListing(n))
<1> DEFINE x == [type |-> "LIST", num |-> Count(m, "LIST_ENTITY")]
<1>1. x.type = "LIST"
  OBVIOUS
<1>2. Silent(m) => Silent(n)
  BY DEF SameNews, Silent
<1>3. WholeListing(m) => WholeListing(n)
  BY <1>1 DEF SameNews, WholeListing
<1> QED BY <1>2, <1>3

\* Where there is none of a type, there is no place of one.
LEMMA CountNone ==
  ASSUME NEW q, NEW type, Len(q) \in Nat
  PROVE  Count(q, type) = 0 <=> \A k \in 1..Len(q) : q[k].type # type
<1> DEFINE P == {k \in 1..Len(q) : q[k].type = type}
<1>1. IsFiniteSet(P) /\ Count(q, type) = Cardinality(P)
  BY CountType DEF Count
<1>2. P = {} <=> \A k \in 1..Len(q) : q[k].type # type
  OBVIOUS
<1> HIDE DEF P
<1>3. Cardinality(P) = 0 <=> P = {}
  BY <1>1, FS_EmptySet
<1> QED BY <1>1, <1>2, <1>3

\* What stays of a message's company when it goes.
LEMMA RestLeavesOut ==
  ASSUME NEW S, NEW q \in Seq(S), NEW r \in Seq(S), NEW f, LeavesOut(r, q, f),
         NEW x \in ToSet(q), x # q[f]
  PROVE  x \in ToSet(r)
<1>1. /\ Len(q) \in Nat /\ f \in 1..Len(q) /\ Len(r) = Len(q) - 1
      /\ \A k \in 1..Len(r) : r[k] = q[Before(k, f)]
  BY LenProperties DEF LeavesOut
<1>2. PICK i \in 1..Len(q) : x = q[i]
  BY DEF ToSet
<1>3. i \in 1..Len(q) \ {f}
  BY <1>2
<1>4. \E k \in 1..(Len(q) - 1) : Before(k, f) = i
  BY <1>1, <1>3, BeforeOnto
<1>5. PICK k \in 1..Len(r) : Before(k, f) = i
  BY <1>1, <1>4
<1>6. x = r[k]
  BY <1>1, <1>2, <1>5
<1> QED BY <1>6 DEF ToSet

\* A message of another type goes,
LEMMA NewsLeavesOut ==
  ASSUME NEW S, NEW q \in Seq(S), NEW r \in Seq(S), NEW f, LeavesOut(r, q, f),
         q[f].type \notin {"LIST", "LIST_ENTITY"}
  PROVE  SameNews(r, q)
<1>1. Count(r, "LIST") = Count(q, "LIST")
  <2>1. /\ Count(r, "LIST") \in Nat
        /\ Count(q, "LIST") = Count(r, "LIST") + (IF q[f].type = "LIST" THEN 1 ELSE 0)
    BY LenProperties, CountLeavesOut
  <2> QED BY <2>1
<1>2. Count(r, "LIST_ENTITY") = Count(q, "LIST_ENTITY")
  <2>1. /\ Count(r, "LIST_ENTITY") \in Nat
        /\ Count(q, "LIST_ENTITY") =
             Count(r, "LIST_ENTITY") + (IF q[f].type = "LIST_ENTITY" THEN 1 ELSE 0)
    BY LenProperties, CountLeavesOut
  <2> QED BY <2>1
<1>3. \A x \in ToSet(q) : x.type = "LIST" => x \in ToSet(r)
  BY RestLeavesOut
<1> QED BY <1>1, <1>2, <1>3 DEF SameNews

LEMMA SilentLeavesOut ==
  ASSUME NEW q, NEW r, NEW f, Len(q) \in Nat, LeavesOut(r, q, f), Silent(q)
  PROVE  Silent(r)
<1>1. /\ Count(r, "LIST") \in Nat
      /\ Count(q, "LIST") = Count(r, "LIST") + (IF q[f].type = "LIST" THEN 1 ELSE 0)
  BY CountLeavesOut
<1>2. /\ Count(r, "LIST_ENTITY") \in Nat
      /\ Count(q, "LIST_ENTITY") =
           Count(r, "LIST_ENTITY") + (IF q[f].type = "LIST_ENTITY" THEN 1 ELSE 0)
  BY CountLeavesOut
<1> QED BY <1>1, <1>2 DEF Silent

LEMMA SilentRemains ==
  ASSUME NEW q, NEW r, Len(q) \in Nat, Len(r) \in Nat, Remains(r, q), Silent(q)
  PROVE  Silent(r)
<1>1. PICK at \in [1..Len(r) -> 1..Len(q)] : \A k \in 1..Len(r) : r[k] = q[at[k]]
  BY DEF Remains
<1>2. \A k \in 1..Len(q) : q[k].type # "LIST" /\ q[k].type # "LIST_ENTITY"
  BY CountNone DEF Silent
<1>3. \A k \in 1..Len(r) : r[k].type # "LIST" /\ r[k].type # "LIST_ENTITY"
  <2> SUFFICES ASSUME NEW k \in 1..Len(r) PROVE r[k].type # "LIST" /\ r[k].type # "LIST_ENTITY"
    OBVIOUS
  <2>1. at[k] \in 1..Len(q) /\ r[k] = q[at[k]]
    BY <1>1
  <2> QED BY <1>2, <2>1
<1>4. Count(r, "LIST") = 0 /\ Count(r, "LIST_ENTITY") = 0
  BY <1>3, CountNone
<1> QED BY <1>4 DEF Silent

\* or messages of other types come.
LEMMA NewsJoin ==
  ASSUME NEW S, NEW q \in Seq(S), NEW a \in Seq(S), NEW w, w = Join(q, a),
         \A k \in 1..Len(a) : a[k].type \notin {"LIST", "LIST_ENTITY"}
  PROVE  SameNews(w, q)
<1>1. /\ w \in Seq(S)
      /\ Len(q) \in Nat /\ Len(a) \in Nat /\ Len(w) \in Nat /\ Len(w) - Len(q) = Len(a)
      /\ \A k \in 1..Len(q) : w[k] = q[k]
      /\ \A k \in 1..Len(a) : w[Len(q) + k] = a[k]
  BY JoinPlaces
<1>2. ASSUME NEW k \in 1..Len(w), k \notin 1..Len(q)
      PROVE  w[k].type \notin {"LIST", "LIST_ENTITY"}
  <2>1. PICK j : j = k - Len(q)
    OBVIOUS
  <2>2. j \in 1..Len(a) /\ k = Len(q) + j
    BY <1>1, <1>2, <2>1
  <2>3. w[k] = a[j]
    BY <1>1, <2>2
  <2> QED BY <2>2, <2>3
<1>3. 1..Len(q) \subseteq 1..Len(w)
  BY <1>1
<1>4. ASSUME NEW type \in {"LIST", "LIST_ENTITY"} PROVE Count(w, type) = Count(q, type)
  <2>1. {k \in 1..Len(w) : w[k].type = type} = {k \in 1..Len(q) : q[k].type = type}
    BY <1>1, <1>2, <1>3
  <2> QED BY <2>1 DEF Count
<1>5. ASSUME NEW x \in ToSet(q) PROVE x \in ToSet(w)
  <2>1. PICK k \in 1..Len(q) : x = q[k]
    BY DEF ToSet
  <2>2. k \in 1..Len(w) /\ x = w[k]
    BY <1>1, <1>3, <2>1
  <2>3. DOMAIN w = 1..Len(w)
    BY <1>1, LenProperties
  <2> QED BY <2>2, <2>3 DEF ToSet
<1>6. \A x \in ToSet(q) : x.type = "LIST" => x \in ToSet(w)
  BY <1>5
<1>7. Count(w, "LIST") = Count(q, "LIST") /\ Count(w, "LIST_ENTITY") = Count(q, "LIST_ENTITY")
  BY <1>4
<1> QED BY <1>6, <1>7 DEF SameNews

\* The answer to LIST comes where none is.
LEMMA ListingComes ==
  ASSUME NEW S, NEW q \in Seq(S), NEW a \in Seq(S), NEW w, w = Join(q, a), Silent(q),
         NEW n \in Nat, Len(a) - 1 = n,
         a[1] = [type |-> "LIST", num |-> n],
         \A k \in 2..(n + 1) : a[k].type = "LIST_ENTITY"
  PROVE  WholeListing(w)
<1>1. /\ w \in Seq(S)
      /\ Len(q) \in Nat /\ Len(a) \in Nat /\ Len(w) \in Nat /\ Len(w) - Len(q) = Len(a)
      /\ \A k \in 1..Len(q) : w[k] = q[k]
      /\ \A k \in 1..Len(a) : w[Len(q) + k] = a[k]
  <2>1. w \in Seq(S)
    BY JoinPlaces
  <2>2. Len(q) \in Nat /\ Len(a) \in Nat /\ Len(w) \in Nat
    BY <2>1, LenProperties
  <2>3. Len(w) - Len(q) = Len(a)
    BY JoinPlaces
  <2>4. \A k \in 1..Len(q) : w[k] = q[k]
    BY JoinPlaces
  <2>5. \A k \in 1..Len(a) : w[Len(q) + k] = a[k]
    BY JoinPlaces
  <2> QED BY <2>1, <2>2, <2>3, <2>4, <2>5
<1>2. PICK p \in Nat : p = Len(q)
  BY <1>1
<1>3. Len(a) = n + 1 /\ Len(w) = p + 1 + n
  <2>1. Len(a) = n + 1
    BY <1>1
  <2>2. Len(w) = p + Len(a)
    BY <1>1, <1>2
  <2> QED BY <2>1, <2>2
<1>4. \A k \in 1..Len(q) : q[k].type # "LIST" /\ q[k].type # "LIST_ENTITY"
  BY <1>1, CountNone DEF Silent
<1>5. ASSUME NEW k \in 1..Len(w), k <= p PROVE w[k].type \notin {"LIST", "LIST_ENTITY"}
  BY <1>1, <1>2, <1>4, <1>5
<1>6. w[p + 1] = [type |-> "LIST", num |-> n]
  <2>1. 1 \in 1..Len(a)
    BY <1>3
  <2> QED BY <1>1, <1>2, <2>1
<1>7. ASSUME NEW k \in 1..Len(w), k > p + 1 PROVE w[k].type = "LIST_ENTITY"
  <2>1. PICK j : j = k - p
    OBVIOUS
  <2>2. j \in 2..(n + 1) /\ j \in 1..Len(a) /\ k = Len(q) + j
    BY <1>2, <1>3, <1>7, <2>1
  <2>3. w[k] = a[j]
    BY <1>1, <2>2
  <2> QED BY <2>2, <2>3
<1>8. Count(w, "LIST") = 1
  <2>1. p + 1 \in 1..Len(w)
    BY <1>3
  <2>2. \A k \in 1..Len(w) : k <= p \/ k = p + 1 \/ k > p + 1
    BY <1>2
  <2>3. \A k \in 1..Len(w) : w[k].type = "LIST" <=> k = p + 1
    BY <1>5, <1>6, <1>7, <2>2
  <2>4. {k \in 1..Len(w) : w[k].type = "LIST"} = {p + 1}
    BY <2>1, <2>3
  <2> QED BY <2>4, FS_Singleton DEF Count
<1>9. Count(w, "LIST_ENTITY") = n
  <2>1. \A k \in 1..Len(w) : k <= p \/ k = p + 1 \/ k > p + 1
    BY <1>2
  <2>2. \A k \in 1..Len(w) : w[k].type = "LIST_ENTITY" <=> k > p + 1
    <3> SUFFICES ASSUME NEW k \in 1..Len(w) PROVE w[k].type = "LIST_ENTITY" <=> k > p + 1
      OBVIOUS
    <3>1. CASE k <= p
      BY <1>2, <1>5, <3>1
    <3>2. CASE k = p + 1
      BY <1>2, <1>6, <3>2
    <3>3. CASE k > p + 1
      BY <1>7, <3>3
    <3> QED BY <2>1, <3>1, <3>2, <3>3
  <2>3. {k \in 1..Len(w) : w[k].type = "LIST_ENTITY"} = (p + 2)..(p + 1 + n)
    BY <1>3, <2>2
  <2>4. Cardinality((p + 2)..(p + 1 + n)) = n
    <3>1. PICK b \in Int : b = p + 1 + n
      OBVIOUS
    <3>2. PICK c \in Int : c = p + 2
      OBVIOUS
    <3>3. Cardinality(c..b) = IF c > b THEN 0 ELSE b - c + 1
      BY FS_Interval
    <3>4. (IF c > b THEN 0 ELSE b - c + 1) = n
      BY <3>1, <3>2
    <3> QED BY <3>1, <3>2, <3>3, <3>4
  <2> QED BY <2>3, <2>4 DEF Count
<1>10. [type |-> "LIST", num |-> n] \in ToSet(w)
  <2>1. p + 1 \in 1..Len(w)
    BY <1>3
  <2>2. DOMAIN w = 1..Len(w)
    BY <1>1, LenProperties
  <2> QED BY <1>6, <2>1, <2>2 DEF ToSet
<1>11. [type |-> "LIST", num |-> Count(w, "LIST_ENTITY")] \in ToSet(w)
  BY <1>9, <1>10
<1> QED BY <1>8, <1>11 DEF WholeListing

\* The client takes the number of entries: it is the number of those to come.
LEMMA CountTaken ==
  ASSUME NEW S, NEW q \in Seq(S), NEW r \in Seq(S), NEW f, LeavesOut(r, q, f), q[f].type = "LIST"
  PROVE  /\ ~Silent(q)
         /\ WholeListing(q) =>
              /\ q[f].num = Count(r, "LIST_ENTITY")
              /\ Count(r, "LIST") = 0
<1>1. /\ Count(r, "LIST") \in Nat
      /\ Count(q, "LIST") = Count(r, "LIST") + (IF q[f].type = "LIST" THEN 1 ELSE 0)
  BY LenProperties, CountLeavesOut
<1>2. /\ Count(r, "LIST_ENTITY") \in Nat
      /\ Count(q, "LIST_ENTITY") =
           Count(r, "LIST_ENTITY") + (IF q[f].type = "LIST_ENTITY" THEN 1 ELSE 0)
  BY LenProperties, CountLeavesOut
<1>3. ~Silent(q)
  BY <1>1 DEF Silent
<1>4. ASSUME WholeListing(q) PROVE q[f].num = Count(r, "LIST_ENTITY") /\ Count(r, "LIST") = 0
  <2>1. Count(r, "LIST") = 0 /\ Count(q, "LIST_ENTITY") = Count(r, "LIST_ENTITY")
    BY <1>1, <1>2, <1>4 DEF WholeListing
  <2>2. PICK x \in ToSet(q) : x = [type |-> "LIST", num |-> Count(q, "LIST_ENTITY")]
    BY <1>4 DEF WholeListing
  <2>3. x.type = "LIST" /\ x.num = Count(q, "LIST_ENTITY")
    BY <2>2
  <2>4. x = q[f]
    <3> SUFFICES ASSUME x # q[f] PROVE FALSE
      OBVIOUS
    <3>1. x \in ToSet(r)
      BY RestLeavesOut
    <3>2. PICK k \in 1..Len(r) : x = r[k]
      BY <3>1 DEF ToSet
    <3>3. Len(r) \in Nat
      BY LenProperties
    <3>4. \A i \in 1..Len(r) : r[i].type # "LIST"
      BY <2>1, <3>3, CountNone
    <3> QED BY <2>3, <3>2, <3>4
  <2> QED BY <2>1, <2>3, <2>4
<1> QED BY <1>3, <1>4

\* The client takes an entry.
LEMMA EntryTaken ==
  ASSUME NEW q, NEW r, NEW f, Len(q) \in Nat, LeavesOut(r, q, f), q[f].type = "LIST_ENTITY"
  PROVE  /\ Count(r, "LIST") = Count(q, "LIST")
         /\ Count(r, "LIST_ENTITY") \in Nat
         /\ Count(q, "LIST_ENTITY") = Count(r, "LIST_ENTITY") + 1
<1>1. /\ Count(r, "LIST") \in Nat
      /\ Count(q, "LIST") = Count(r, "LIST") + (IF q[f].type = "LIST" THEN 1 ELSE 0)
  BY CountLeavesOut
<1>2. /\ Count(r, "LIST_ENTITY") \in Nat
      /\ Count(q, "LIST_ENTITY") =
           Count(r, "LIST_ENTITY") + (IF q[f].type = "LIST_ENTITY" THEN 1 ELSE 0)
  BY CountLeavesOut
<1> QED BY <1>1, <1>2
-----------------------------------------------------------------------------
(***************************************************************************)
(* LIST: the inductive invariant.                                          *)
(***************************************************************************)

\* The server goes down when it has had its signal.
DownBySignal == phase \in {"terminate", "remove", "down"} => server_flag

\* A LIST in the server's queue may come from a client that the server does not
\* know any more only between the server's look at STOP and its look at LIST.
KnownAskers ==
  phase \notin {"STOP", "LIST"} =>
    \A k \in 1..Len(server_queue) : server_queue[k].type = "LIST" => server_queue[k].id \in Known

\* So the id of a new client is in no LIST of an older one,
NewcomersSilent ==
  \A c \in Client : this_id[c] = -1 =>
    /\ Silent(Mailbox(c))
    /\ \A id \in Known : client_data[id] = c => NotAsked(server_queue, id)

\* and what is on its way to a client at p is what it has asked for.
Accounts(p, n, id, mail, asked) ==
  /\ p = "await_entity" =>
       Count(mail, "LIST") = 0 /\ Count(mail, "LIST_ENTITY") = n /\ NotAsked(asked, id)
  /\ p = "await_list" =>
       \/ WholeListing(mail) /\ NotAsked(asked, id)
       \/ Silent(mail) /\ AskedOnce(asked, id)
  /\ p \notin {"await_entity", "await_list"} =>
       Silent(mail) /\ NotAsked(asked, id)

Answered(c) == Accounts(pc[c], num_clients[c], this_id[c], Mailbox(c), server_queue)

\* No signal has come between the client and the answers.
Undisturbed(c) == Registered(c) /\ ~interrupt_flag[c] /\ ~server_flag

ListInv ==
  /\ DownBySignal
  /\ KnownAskers
  /\ NewcomersSilent
  /\ \A c \in Client : Undisturbed(c) => Answered(c)

LEMMA AccountsKept ==
  ASSUME NEW p, NEW n, NEW id, NEW mail, NEW asked, Accounts(p, n, id, mail, asked),
         NEW mail2, NEW asked2, SameNews(mail2, mail),
         NotAsked(asked, id) => NotAsked(asked2, id),
         AskedOnce(asked, id) => AskedOnce(asked2, id)
  PROVE  Accounts(p, n, id, mail2, asked2)
<1>1. (Silent(mail) => Silent(mail2)) /\ (WholeListing(mail) => WholeListing(mail2))
  BY NewsKept
<1>2. p = "await_entity" =>
        Count(mail2, "LIST") = 0 /\ Count(mail2, "LIST_ENTITY") = n /\ NotAsked(asked2, id)
  BY DEF Accounts, SameNews
<1>3. p = "await_list" =>
        \/ WholeListing(mail2) /\ NotAsked(asked2, id)
        \/ Silent(mail2) /\ AskedOnce(asked2, id)
  BY <1>1 DEF Accounts
<1>4. p \notin {"await_entity", "await_list"} => Silent(mail2) /\ NotAsked(asked2, id)
  BY <1>1 DEF Accounts
<1> QED BY <1>2, <1>3, <1>4 DEF Accounts

\* The client does not move.
Still(c) ==
  /\ pc'[c] = pc[c] /\ this_id'[c] = this_id[c] /\ interrupt_flag'[c] = interrupt_flag[c]
  /\ num_clients'[c] = num_clients[c] /\ request'[c] = request[c]

LEMMA ServerStill ==
  ASSUME Server \/ InterruptServer \/ UNCHANGED vars, NEW c \in Client
  PROVE  Still(c)
<1>1. UNCHANGED <<pc, this_id, interrupt_flag, num_clients, request>>
  BY DEF Server, registerNewClients, deregisterTerminatedClients, handleListing,
     handleToOne, handleToAll, Takes, Send, NextHandler, terminateClients, RemoveServerQueue,
     InterruptServer, vars, clientVars, localVars, signalVars
<1> QED BY <1>1 DEF Still

LEMMA OthersStill ==
  ASSUME TypeOK, Sending, NEW d \in Client, Proceed(d) \/ User(d) \/ HandleSignal(d),
         NEW c \in Client, c # d
  PROVE  Still(c)
<1>1. /\ pc \in [Client -> Places] /\ DOMAIN this_id = Client /\ DOMAIN interrupt_flag = Client
      /\ DOMAIN num_clients = Client /\ DOMAIN request = Client
  BY TypeParts DEF LocalTypes, SignalTypes, Sending
<1>2. CASE SendRequest(d)
  BY <1>1, <1>2 DEF SendRequest, Goto, localVars, signalVars, Still
<1>3. CASE ReceiveId(d)
  BY <1>1, <1>3 DEF ReceiveId, Receive, Goto, signalVars, Still
<1>4. CASE Top(d)
  BY <1>1, <1>4 DEF Top, Ask, Goto, signalVars, Still
<1>5. CASE ReceiveCount(d) \/ ReceiveEntity(d)
  BY <1>1, <1>5 DEF ReceiveCount, ReceiveEntity, Receive, Expect, Goto, signalVars, Still
<1>6. CASE PrintOne(d) \/ PrintAll(d)
  BY <1>1, <1>6 DEF PrintOne, PrintAll, ShowNext, Receive, Goto, signalVars, Still
<1>7. CASE RemoveQueue(d)
  BY <1>1, <1>7 DEF RemoveQueue, Goto, localVars, signalVars, Still
<1>8. CASE Start(d)
  BY <1>1, <1>8 DEF Start, Ask, Goto, signalVars, Still
<1>9. CASE list(d) \/ to_one(d) \/ to_all(d)
  BY <1>1, <1>9 DEF list, to_one, to_all, Command, Ask, Goto, signalVars, Still
<1>10. CASE handleIncoming(d) \/ TypeStop(d) \/ Interrupt(d)
  BY <1>1, <1>10 DEF handleIncoming, TypeStop, Interrupt, Goto, localVars, signalVars, Still
<1>11. CASE HandleSignal(d)
  <2>1. /\ \/ UNCHANGED <<pc, num_clients>>
           \/ Interrupted(d)
           \/ Goto(d, "crashed") /\ UNCHANGED num_clients
        /\ interrupt_flag' = [interrupt_flag EXCEPT ![d] = TRUE]
        /\ UNCHANGED <<this_id, request>>
    BY <1>11 DEF HandleSignal
  <2>2. pc'[c] = pc[c] /\ num_clients'[c] = num_clients[c]
    BY <1>1, <2>1 DEF Interrupted, Expect, Goto
  <2> QED BY <1>1, <2>1, <2>2 DEF Still
<1> QED BY <1>2, <1>3, <1>4, <1>5, <1>6, <1>7, <1>8, <1>9, <1>10, <1>11 DEF Proceed, User

\* A registered client owns its id, and nobody else asks with it.
LEMMA OwnId ==
  ASSUME IInv, NEW c \in Client, Registered(c)
  PROVE  Owns(c, this_id[c])
<1>1. ~Fresh(c)
  BY DEF IInv, Registry, FreshOnes, Unregistered, Registered
<1>2. Holds(c)
  BY <1>1 DEF Registered, Fresh, Holds
<1> QED BY <1>2 DEF IInv, Registry, Holders

LEMMA AskerOwns ==
  ASSUME IInv, NEW d \in Client, pc[d] = "send", request[d].type \in {"STOP", "LIST"}
  PROVE  Owns(d, request[d].id) /\ request[d].id = this_id[d] /\ this_id[d] # -1
<1>1. request[d].id = this_id[d]
  BY DEF IInv, Sending
<1>2. Owns(d, this_id[d])
  BY DEF IInv, Registry, Holders, Holds
<1>3. Known \subseteq Ids
  BY TypeParts DEF IInv, RegistryTypes
<1>4. this_id[d] \in Ids
  BY <1>2, <1>3 DEF Owns
<1>5. -1 \notin Ids
  BY IdsBounded DEF Ids
<1> QED BY <1>1, <1>2, <1>4, <1>5

LEMMA OwnerOfOne ==
  ASSUME IInv, NEW c \in Client, NEW i, NEW j, Owns(c, i), Owns(c, j)
  PROVE  i = j
<1>1. c # Nobody
  BY ChatAssumption
<1> QED BY <1>1 DEF IInv, Registry, OneId, Owns
-----------------------------------------------------------------------------
(***************************************************************************)
(* LIST: the handlers of the server.                                       *)
(***************************************************************************)

\* The request that a handler takes is of its type.
LEMMA HandledRequest ==
  ASSUME TypeOK, Handles
  PROVE  /\ Request \in Requests /\ Request.type = phase
         /\ LeavesOut(server_queue', server_queue, FirstOf(server_queue, phase))
         /\ Request = server_queue[FirstOf(server_queue, phase)]
         /\ Len(server_queue) \in Nat
         /\ FirstOf(server_queue, phase) \in 1..Len(server_queue)
<1>1. server_queue \in Seq(Requests)
  BY TypeParts DEF ServerQueueTypes
<1>2. Has(server_queue, phase) /\ server_queue' = Taken(server_queue, phase)
  BY HandlesTakes
<1>3. /\ LeavesOut(server_queue', server_queue, FirstOf(server_queue, phase))
      /\ Len(server_queue) \in Nat
      /\ server_queue[FirstOf(server_queue, phase)].type = phase
      /\ server_queue[FirstOf(server_queue, phase)] \in Requests
  BY <1>1, <1>2, TakenLeavesOut
<1>4. FirstOf(server_queue, phase) \in 1..Len(server_queue)
  BY <1>3 DEF LeavesOut
<1>5. Request = server_queue[FirstOf(server_queue, phase)]
  BY DEF Request
<1> QED BY <1>3, <1>4, <1>5

LEMMA PhaseOfHandler ==
  ASSUME Handles
  PROVE  /\ registerNewClients <=> phase = "INIT"
         /\ deregisterTerminatedClients <=> phase = "STOP"
         /\ handleListing <=> phase = "LIST"
         /\ handleToOne <=> phase = "TO_ONE"
         /\ handleToAll <=> phase = "TO_ALL"
<1>1. /\ registerNewClients => phase = "INIT"
      /\ deregisterTerminatedClients => phase = "STOP"
      /\ handleListing => phase = "LIST"
      /\ handleToOne => phase = "TO_ONE"
      /\ handleToAll => phase = "TO_ALL"
  BY DEF registerNewClients, deregisterTerminatedClients, handleListing, handleToOne, handleToAll,
         Takes
<1> QED BY <1>1 DEF Handles

\* Only the client that asks is told of the others.
LEMMA AnswersToOthers ==
  ASSUME IInv, IInv', Handles, NEW c \in Client,
         ~(phase = "LIST" /\ Owns(c, Request.id)),
         NEW a, a = Addressed(c, outbox')
  PROVE  \A k \in 1..Len(a) : a[k].type \notin {"LIST", "LIST_ENTITY"}
<1>1. TypeOK /\ TypeOK' /\ Known \subseteq Ids
  BY TypeParts DEF IInv, RegistryTypes
<1>2. PICK mail \in Seq(Mail) : mail = outbox'
  BY <1>1, MailboxIsNext
<1>3. /\ Len(a) = Len(mail) /\ Len(mail) \in Nat
      /\ \A k \in 1..Len(mail) : a[k] = IF mail[k].to = c THEN mail[k].msg ELSE NoMsg
  BY <1>2, AddressedType
<1> DEFINE Quiet(m) == m.type \notin {"LIST", "LIST_ENTITY"}
<1>4. Quiet(NoMsg)
  BY DEF NoMsg
<1>5. Request.type = phase
  BY <1>1, HandledRequest
<1>6. ASSUME NEW k \in 1..Len(mail)
      PROVE  mail[k].to = c => Quiet(mail[k].msg)
  <2>1. CASE registerNewClients
    <3>1. mail = <<To(Request.from, [type |-> "INIT", id |-> NewId])>>
      BY <1>2, <2>1 DEF registerNewClients
    <3>2. PICK x : x = To(Request.from, [type |-> "INIT", id |-> NewId])
      OBVIOUS
    <3>3. mail[k] = x /\ x.msg.type = "INIT"
      BY <1>6, <3>1, <3>2 DEF To
    <3> QED BY <3>3
  <2>2. CASE deregisterTerminatedClients
    <3>1. mail = <<>>
      BY <1>2, <2>2 DEF deregisterTerminatedClients, Takes
    <3>2. Len(mail) = 0
      BY <3>1, EmptySeq
    <3> QED BY <3>2
  <2>3. CASE handleListing
    <3>1. PICK id : id = Request.id
      OBVIOUS
    <3>2. PICK data : data = client_data'
      OBVIOUS
    <3>3. mail = Listing(id, data) /\ data = Touched(id)
      BY <1>2, <2>3, <3>1, <3>2 DEF handleListing
    <3>4. data[id] # c
      <4>1. ~Owns(c, id)
        BY <2>3, <3>1, PhaseOfHandler
      <4>2. c # Nobody
        BY ChatAssumption
      <4> QED BY <3>3, <4>1, <4>2 DEF Touched, Owns
    <3>5. DOMAIN data \subseteq Ids
      BY <1>1, <3>2, TypePartsNext DEF RegistryTypes, Known
    <3>6. PICK n \in Nat : n = Cardinality(DOMAIN data)
      BY <3>5, IdsBounded, InOrderInDomain DEF Ids
    <3>7. Len(mail) - 1 = n
      BY <3>3, <3>5, <3>6, ListingPlaces
    <3>8. mail[1].to = data[id]
      <4>1. mail[1] = To(data[id], [type |-> "LIST", num |-> Cardinality(Known)])
        BY <3>3, <3>5, <3>6, ListingPlaces
      <4> QED BY <4>1 DEF To
    <3>9. ASSUME k \in 2..(n + 1) PROVE mail[k].to = data[id]
      <4>1. \A i \in 2..(n + 1) :
              mail[i] = To(data[id], [type |-> "LIST_ENTITY", id |-> InOrder(data)[i - 1]])
        BY <3>3, <3>5, <3>6, ListingPlaces
      <4>2. mail[k] = To(data[id], [type |-> "LIST_ENTITY", id |-> InOrder(data)[k - 1]])
        BY <3>9, <4>1
      <4> QED BY <4>2 DEF To
    <3>10. k = 1 \/ k \in 2..(n + 1)
      BY <1>3, <3>7
    <3> QED BY <3>4, <3>8, <3>9, <3>10
  <2>4. CASE handleToOne
    <3>1. PICK m : m = Request
      OBVIOUS
    <3>2. PICK d : d = client_data'[m.target]
      OBVIOUS
    <3>3. mail = <<To(d, m)>>
      BY <1>2, <2>4, <3>1, <3>2 DEF handleToOne
    <3>4. PICK x : x = To(d, m)
      OBVIOUS
    <3>5. mail[k] = x /\ x.msg = m
      BY <1>6, <3>3, <3>4 DEF To
    <3>6. m.type = "TO_ONE"
      BY <1>5, <2>4, <3>1, PhaseOfHandler
    <3> QED BY <3>5, <3>6
  <2>5. CASE handleToAll
    <3>1. PICK m : m = Request
      OBVIOUS
    <3>2. mail = Broadcast(m)
      BY <1>2, <2>5, <3>1 DEF handleToAll
    <3>3. mail[k] = To(client_data[InOrder(client_data)[k]], m)
      BY <1>1, <1>6, <3>2, BroadcastPlaces
    <3>4. m.type = "TO_ALL"
      BY <1>5, <2>5, <3>1, PhaseOfHandler
    <3> QED BY <3>3, <3>4 DEF To
  <2> QED BY <2>1, <2>2, <2>3, <2>4, <2>5 DEF Handles
<1> HIDE DEF Quiet
<1>7. \A k \in 1..Len(a) : Quiet(a[k])
  BY <1>3, <1>4, <1>6
<1> QED BY <1>7 DEF Quiet

\* To the client that asks the server sends the number of all entries, and the entries.
LEMMA AnswerToAsker ==
  ASSUME IInv, IInv', Handles, NEW c \in Client, phase = "LIST", Owns(c, Request.id),
         NEW a, a = Addressed(c, outbox')
  PROVE  \E n \in Nat :
           /\ Len(a) - 1 = n
           /\ a[1] = [type |-> "LIST", num |-> n]
           /\ \A k \in 2..(n + 1) : a[k].type = "LIST_ENTITY"
<1>1. TypeOK /\ TypeOK'
  BY DEF IInv
<1>2. PICK mail \in Seq(Mail) : mail = outbox'
  BY <1>1, MailboxIsNext
<1>3. /\ Len(a) = Len(mail) /\ Len(mail) \in Nat
      /\ \A k \in 1..Len(mail) : a[k] = IF mail[k].to = c THEN mail[k].msg ELSE NoMsg
  BY <1>2, AddressedType
<1>4. PICK id : id = Request.id
  OBVIOUS
<1>5. PICK data : data = client_data'
  OBVIOUS
<1>6. mail = Listing(id, data) /\ data = Touched(id)
  <2>1. handleListing
    BY PhaseOfHandler
  <2> QED BY <1>2, <1>4, <1>5, <2>1 DEF handleListing
<1>7. DOMAIN data = Known /\ data[id] = c
  BY <1>4, <1>6 DEF Touched, Owns
<1>8. DOMAIN data \subseteq Ids
  BY <1>1, <1>5, TypePartsNext DEF RegistryTypes, Known
<1>9. PICK n \in Nat : n = Cardinality(DOMAIN data)
  BY <1>8, IdsBounded, InOrderInDomain DEF Ids
<1>10. Len(mail) - 1 = n
  BY <1>6, <1>8, <1>9, ListingPlaces
<1>11. a[1] = [type |-> "LIST", num |-> n]
  <2>1. mail[1] = To(data[id], [type |-> "LIST", num |-> Cardinality(Known)])
    BY <1>6, <1>8, <1>9, ListingPlaces
  <2>2. mail[1].to = c /\ mail[1].msg = [type |-> "LIST", num |-> n]
    BY <1>7, <1>9, <2>1 DEF To
  <2>3. 1 \in 1..Len(mail)
    BY <1>3, <1>10
  <2> QED BY <1>3, <2>2, <2>3
<1>12. ASSUME NEW k \in 2..(n + 1) PROVE a[k].type = "LIST_ENTITY"
  <2>1. mail[k] = To(data[id], [type |-> "LIST_ENTITY", id |-> InOrder(data)[k - 1]])
    BY <1>6, <1>8, <1>9, ListingPlaces
  <2>2. mail[k].to = c /\ mail[k].msg.type = "LIST_ENTITY"
    BY <1>7, <2>1 DEF To
  <2>3. k \in 1..Len(mail)
    BY <1>3, <1>10
  <2> QED BY <1>3, <2>2, <2>3
<1> QED BY <1>3, <1>10, <1>11, <1>12

LEMMA AnsweredStill ==
  ASSUME ListInv, NEW c \in Client, Still(c), server_flag' = server_flag,
         SameNews(Mailbox(c)', Mailbox(c)),
         Registered(c) /\ NotAsked(server_queue, this_id[c]) => NotAsked(server_queue', this_id[c]),
         Registered(c) /\ AskedOnce(server_queue, this_id[c]) => AskedOnce(server_queue', this_id[c])
  PROVE  Undisturbed(c)' => Answered(c)'
<1> SUFFICES ASSUME Undisturbed(c)' PROVE Answered(c)'
  OBVIOUS
<1>1. Undisturbed(c)
  BY DEF Undisturbed, Registered, Still
<1>2. Registered(c) /\ Answered(c)
  BY <1>1 DEF ListInv, Undisturbed
<1>3. Accounts(pc[c], num_clients[c], this_id[c], Mailbox(c), server_queue)
  BY <1>2 DEF Answered
<1>4. Accounts(pc[c], num_clients[c], this_id[c], Mailbox(c)', server_queue')
  BY <1>2, <1>3, AccountsKept
<1> QED BY <1>4 DEF Answered, Still

\* A handler answers the LIST it takes, and nothing else.
LEMMA HandlersAccount ==
  ASSUME IInv, IInv', ListInv, Handles, NEW c \in Client
  PROVE  Undisturbed(c)' => Answered(c)'
<1> DEFINE f == FirstOf(server_queue, phase)
           id == this_id[c]
<1>1. TypeOK /\ TypeOK'
  BY DEF IInv
<1>2. /\ outbox = <<>> /\ queue' = queue /\ server_flag' = server_flag
  BY <1>1, HandlesTakes
<1>3. Still(c)
  BY ServerStill DEF Handles, Server
<1>4. /\ Request.type = phase /\ Request = server_queue[f]
      /\ LeavesOut(server_queue', server_queue, f) /\ Len(server_queue) \in Nat
  BY <1>1, HandledRequest
<1>5. PICK q \in Seq(Post) : q = Mailbox(c)
  BY <1>1, MailboxIs
<1>6. PICK a \in Seq(Post) : a = Addressed(c, outbox')
  BY <1>1, MailboxIsNext
<1>7. PICK w : w = Mailbox(c)'
  OBVIOUS
<1>8. w = Join(q, a)
  BY <1>1, <1>2, <1>5, <1>6, <1>7, MailboxAnswered
<1> HIDE DEF f
<1>9. CASE phase = "LIST" /\ Owns(c, Request.id)
  <2> SUFFICES ASSUME Undisturbed(c)' PROVE Answered(c)'
    OBVIOUS
  <2>1. Undisturbed(c)
    BY <1>2, <1>3 DEF Undisturbed, Registered, Still
  <2>2. Registered(c) /\ Accounts(pc[c], num_clients[c], id, q, server_queue)
    BY <1>5, <2>1 DEF ListInv, Undisturbed, Answered
  <2>3. Request.id = id
    BY <1>9, <2>2, OwnId, OwnerOfOne
  <2>4. Lists(server_queue, id, f)
    BY <1>4, <1>9, <2>3 DEF Lists
  <2>5. ~NotAsked(server_queue, id)
    BY <1>4, <2>4 DEF NotAsked, LeavesOut
  <2>6. pc[c] = "await_list" /\ Silent(q) /\ AskedOnce(server_queue, id)
    BY <2>2, <2>5 DEF Accounts
  <2>7. NotAsked(server_queue', id)
    BY <1>4, <2>4, <2>6, OwnTaken
  <2>8. WholeListing(w)
    <3>1. PICK n \in Nat : /\ Len(a) - 1 = n
                           /\ a[1] = [type |-> "LIST", num |-> n]
                           /\ \A k \in 2..(n + 1) : a[k].type = "LIST_ENTITY"
      BY <1>6, <1>9, AnswerToAsker
    <3> QED BY <1>8, <2>6, <3>1, ListingComes
  <2>9. Accounts("await_list", num_clients[c], id, w, server_queue')
    BY <2>7, <2>8 DEF Accounts
  <2> QED BY <1>3, <1>7, <2>6, <2>9 DEF Answered, Still
<1>10. CASE ~(phase = "LIST" /\ Owns(c, Request.id))
  <2>1. \A k \in 1..Len(a) : a[k].type \notin {"LIST", "LIST_ENTITY"}
    BY <1>6, <1>10, AnswersToOthers
  <2>2. SameNews(w, q)
    BY <1>8, <2>1, NewsJoin
  <2>3. ASSUME Registered(c)
        PROVE  /\ NotAsked(server_queue, id) => NotAsked(server_queue', id)
               /\ AskedOnce(server_queue, id) => AskedOnce(server_queue', id)
    <3>1. ~Lists(server_queue, id, f)
      BY <1>4, <1>10, <2>3, OwnId DEF Lists
    <3> QED BY <1>4, <3>1, OthersTaken
  <2>4. SameNews(Mailbox(c)', Mailbox(c))
    BY <1>5, <1>7, <2>2
  <2> QED BY <1>2, <1>3, <2>3, <2>4, AnsweredStill
<1> QED BY <1>9, <1>10

\* A handler makes an entry only for a client whose id nobody has asked with.
LEMMA HandlersNewcomers ==
  ASSUME IInv, IInv', ListInv, Handles
  PROVE  NewcomersSilent'
<1> DEFINE f == FirstOf(server_queue, phase)
<1>1. TypeOK /\ TypeOK'
  BY DEF IInv
<1>2. outbox = <<>> /\ queue' = queue
  BY <1>1, HandlesTakes
<1>3. /\ Request.type = phase /\ Request = server_queue[f] /\ f \in 1..Len(server_queue)
      /\ LeavesOut(server_queue', server_queue, f) /\ Len(server_queue) \in Nat
  BY <1>1, HandledRequest
<1> HIDE DEF f
<1>4. ASSUME NEW c \in Client, this_id'[c] = -1
      PROVE  /\ Silent(Mailbox(c)')
             /\ \A id \in Known' : client_data'[id] = c => NotAsked(server_queue', id)
  <2>1. this_id[c] = -1
    BY <1>4, ServerStill DEF Handles, Server, Still
  <2>2. /\ Silent(Mailbox(c))
        /\ \A id \in Known : client_data[id] = c => NotAsked(server_queue, id)
    BY <2>1 DEF ListInv, NewcomersSilent
  <2>3. ~(phase = "LIST" /\ Owns(c, Request.id))
    BY <1>3, <2>2 DEF Owns, NotAsked, Lists
  <2>4. Silent(Mailbox(c)')
    <3>1. PICK q \in Seq(Post) : q = Mailbox(c)
      BY <1>1, MailboxIs
    <3>2. PICK a \in Seq(Post) : a = Addressed(c, outbox')
      BY <1>1, MailboxIsNext
    <3>3. PICK w : w = Mailbox(c)'
      OBVIOUS
    <3>4. w = Join(q, a)
      BY <1>1, <1>2, <3>1, <3>2, <3>3, MailboxAnswered
    <3>5. \A k \in 1..Len(a) : a[k].type \notin {"LIST", "LIST_ENTITY"}
      BY <2>3, <3>2, AnswersToOthers
    <3>6. SameNews(w, q)
      BY <3>4, <3>5, NewsJoin
    <3>7. Silent(w)
      BY <2>2, <3>1, <3>6, NewsKept
    <3> QED BY <3>3, <3>7
  <2>5. ASSUME NEW id \in Known', client_data'[id] = c
        PROVE  NotAsked(server_queue, id)
    <3>1. c # Nobody
      BY ChatAssumption
    <3>2. CASE registerNewClients /\ id = NewId
      <4>1. phase = "INIT"
        BY <3>2, PhaseOfHandler
      <4>2. NewId \notin Known
        BY <1>1, IdsBounded, NewIdIsNew, TypeParts DEF RegistryTypes, Ids
      <4>3. \A k \in 1..Len(server_queue) :
              server_queue[k].type = "LIST" => server_queue[k].id \in Known
        BY <4>1 DEF ListInv, KnownAskers
      <4> QED BY <3>2, <4>2, <4>3 DEF NotAsked, Lists
    <3>3. CASE ~(registerNewClients /\ id = NewId)
      <4>1. id \in Known /\ client_data[id] = c
        <5>1. CASE registerNewClients
          BY <2>5, <3>3, <5>1 DEF registerNewClients, Known
        <5>2. CASE deregisterTerminatedClients
          BY <2>5, <5>2 DEF deregisterTerminatedClients, Without, Known
        <5>3. CASE handleListing
          BY <2>5, <3>1, <5>3, TouchedAdds DEF handleListing
        <5>4. CASE handleToOne
          BY <2>5, <3>1, <5>4, TouchedAdds DEF handleToOne
        <5>5. CASE handleToAll
          BY <2>5, <5>5 DEF handleToAll, Known
        <5> QED BY <5>1, <5>2, <5>3, <5>4, <5>5 DEF Handles
      <4> QED BY <2>2, <4>1
    <3> QED BY <3>2, <3>3
  <2>6. ASSUME NEW id \in Known', client_data'[id] = c
        PROVE  NotAsked(server_queue', id)
    <3>1. NotAsked(server_queue, id)
      BY <2>5, <2>6
    <3>2. ~Lists(server_queue, id, f)
      BY <1>3, <3>1 DEF NotAsked
    <3> QED BY <1>3, <3>1, <3>2, OthersTaken
  <2> QED BY <2>4, <2>6
<1>5. ASSUME NEW c \in Client, this_id'[c] = -1
      PROVE  /\ Silent(Mailbox(c))'
             /\ \A id \in Known' : client_data'[id] = c => NotAsked(server_queue, id)'
  <2>1. Silent(Mailbox(c))'
    BY <1>4, <1>5 DEF Silent, Count
  <2>2. \A id \in Known' : client_data'[id] = c => NotAsked(server_queue, id)'
    BY <1>4, <1>5 DEF NotAsked, Lists
  <2> QED BY <2>1, <2>2
<1> QED BY <1>5 DEF NewcomersSilent

\* The registry only grows while the server answers.
LEMMA HandlersKnown ==
  ASSUME IInv, ListInv, Handles
  PROVE  DownBySignal' /\ KnownAskers'
<1>1. TypeOK
  BY DEF IInv
<1>2. phase' = phase /\ server_flag' = server_flag
  BY <1>1, HandlesTakes
<1>3. LeavesOut(server_queue', server_queue, FirstOf(server_queue, phase)) /\ Len(server_queue) \in Nat
  BY <1>1, HandledRequest
<1>4. DownBySignal'
  BY <1>2 DEF ListInv, DownBySignal
<1>5. ASSUME phase \notin {"STOP", "LIST"}, NEW k \in 1..Len(server_queue'),
             server_queue'[k].type = "LIST"
      PROVE  server_queue'[k].id \in Known'
  <2>1. PICK i \in 1..Len(server_queue) : server_queue'[k] = server_queue[i]
    <3>1. PICK f \in 1..Len(server_queue) : LeavesOut(server_queue', server_queue, f)
      BY <1>3 DEF LeavesOut
    <3>2. Len(server_queue') = Len(server_queue) - 1 /\ server_queue'[k] = server_queue[Before(k, f)]
      BY <3>1 DEF LeavesOut
    <3>3. Before(k, f) \in 1..Len(server_queue)
      BY <1>3, <3>1, <3>2, BeforeOnto
    <3> QED BY <3>2, <3>3
  <2>2. server_queue'[k].id \in Known
    BY <1>5, <2>1 DEF ListInv, KnownAskers
  <2>3. Known \subseteq Known'
    <3>1. registerNewClients \/ handleToOne \/ handleToAll
      BY <1>5, PhaseOfHandler DEF Handles
    <3>2. CASE registerNewClients
      BY <3>2 DEF registerNewClients, Known
    <3>3. CASE handleToOne
      BY <3>3, TouchedAdds DEF handleToOne
    <3>4. CASE handleToAll
      BY <3>4 DEF handleToAll, Known
    <3> QED BY <3>1, <3>2, <3>3, <3>4
  <2> QED BY <2>2, <2>3
<1>6. KnownAskers'
  BY <1>2, <1>5 DEF KnownAskers
<1> QED BY <1>4, <1>6
-----------------------------------------------------------------------------
(***************************************************************************)
(* LIST: the other steps.                                                  *)
(***************************************************************************)

\* Only a handler answers.
LEMMA SilentStays ==
  ASSUME TypeOK, TypeOK', [Next]_vars, ~Handles, NEW c \in Client, Silent(Mailbox(c))
  PROVE  Silent(Mailbox(c)')
<1>1. PICK q \in Seq(Post) : q = Mailbox(c)
  BY MailboxIs
<1>2. PICK r \in Seq(Post) : r = Mailbox(c)'
  BY MailboxIsNext
<1>3. Len(q) \in Nat /\ Len(r) \in Nat
  BY LenProperties
<1>4. CASE Mailbox(c)' = Mailbox(c)
  BY <1>4
<1>5. ASSUME NEW f, Drops(c, f) PROVE Silent(r)
  <2>1. LeavesOut(r, q, f) /\ Silent(q)
    BY <1>1, <1>2, <1>5 DEF Drops
  <2> QED BY <1>3, <2>1, SilentLeavesOut
<1>6. ASSUME Remains(Mailbox(c)', Mailbox(c)) PROVE Silent(r)
  BY <1>1, <1>2, <1>3, <1>6, SilentRemains
<1> QED BY <1>2, <1>4, <1>5, <1>6, MailboxMoves

LEMMA NewcomersKept ==
  ASSUME IInv, IInv', ListInv, [Next]_vars, ~Handles, client_data' = client_data,
         \A c \in Client : this_id'[c] = -1 => this_id[c] = -1,
         \A c \in Client : \A id \in Known :
           this_id[c] = -1 /\ client_data[id] = c /\ NotAsked(server_queue, id) =>
             NotAsked(server_queue', id)
  PROVE  NewcomersSilent'
<1>1. TypeOK /\ TypeOK' /\ Known' = Known
  BY DEF IInv, Known
<1>2. ASSUME NEW c \in Client, this_id'[c] = -1
      PROVE  /\ Silent(Mailbox(c))'
             /\ \A id \in Known' : client_data'[id] = c => NotAsked(server_queue, id)'
  <2>1. this_id[c] = -1
    BY <1>2
  <2>2. /\ Silent(Mailbox(c))
        /\ \A id \in Known : client_data[id] = c => NotAsked(server_queue, id)
    BY <2>1 DEF ListInv, NewcomersSilent
  <2>3. Silent(Mailbox(c)')
    BY <1>1, <2>2, SilentStays
  <2>4. Silent(Mailbox(c))'
    BY <2>3 DEF Silent, Count
  <2>5. \A id \in Known' : client_data'[id] = c => NotAsked(server_queue', id)
    BY <1>1, <2>1, <2>2
  <2>6. \A id \in Known' : client_data'[id] = c => NotAsked(server_queue, id)'
    BY <2>5 DEF NotAsked, Lists
  <2> QED BY <2>4, <2>6
<1> QED BY <1>2 DEF NewcomersSilent

\* The server sends what it has, or goes on.
LEMMA ServerElse ==
  ASSUME IInv, IInv', ListInv,
         \/ Send \/ NextHandler \/ terminateClients \/ RemoveServerQueue
         \/ InterruptServer \/ UNCHANGED vars
  PROVE  ListInv'
<1>1. TypeOK /\ TypeOK' /\ [Next]_vars /\ client_data' = client_data /\ Known' = Known
  BY DEF IInv, Next, Server, Send, NextHandler, terminateClients, RemoveServerQueue,
         InterruptServer, vars, serverVars, Known
<1>2. Len(<<>>) = 0 /\ \A id : NotAsked(<<>>, id)
  BY EmptySeq DEF NotAsked
<1>3. \/ server_queue' = server_queue
      \/ RemoveServerQueue /\ phase = "remove" /\ server_queue' = <<>>
  BY DEF Send, NextHandler, terminateClients, RemoveServerQueue, InterruptServer, vars
<1>4. \A c \in Client : Still(c)
  BY ServerStill DEF Server
<1>5. DownBySignal' /\ (server_flag => server_flag')
  <2>1. CASE NextHandler
    <3>1. phase' = After(phase) /\ server_flag' = server_flag
      BY <2>1 DEF NextHandler
    <3>2. phase \in {"top", "INIT", "STOP", "LIST", "TO_ONE", "TO_ALL"}
      BY <1>1, <2>1, TypeParts DEF NextHandler, RegistryTypes
    <3>3. phase' \in {"terminate", "remove", "down"} => server_flag
      BY <3>1, <3>2 DEF After
    <3> QED BY <3>1, <3>3 DEF DownBySignal
  <2>2. CASE ~NextHandler
    BY <2>2 DEF ListInv, DownBySignal, Send, terminateClients, RemoveServerQueue,
                InterruptServer, vars, serverVars
  <2> QED BY <2>1, <2>2
<1>6. KnownAskers'
  <2> SUFFICES ASSUME phase' \notin {"STOP", "LIST"}, NEW k \in 1..Len(server_queue'),
                      server_queue'[k].type = "LIST"
               PROVE  server_queue'[k].id \in Known
    BY <1>1 DEF KnownAskers
  <2>1. server_queue' = server_queue
    BY <1>2, <1>3
  <2>2. phase \notin {"STOP", "LIST"}
    <3>1. CASE NextHandler
      <4>1. phase' = After(phase) /\ ~Has(server_queue, phase)
        BY <3>1 DEF NextHandler
      <4>2. phase # "STOP"
        BY <4>1 DEF After
      <4>3. phase # "LIST"
        <5> SUFFICES ASSUME phase = "LIST" PROVE FALSE
          OBVIOUS
        <5> DEFINE I == {i \in 1..Len(server_queue) : server_queue[i].type = "LIST"}
        <5>1. k \in I /\ I \subseteq Nat
          BY <2>1
        <5>2. FirstOf(server_queue, "LIST") = IF I # {} THEN Min(I) ELSE 0
          BY DEF FirstOf, SelectInSeq
        <5> HIDE DEF I
        <5>3. Min(I) \in I
          BY <5>1, MinIsLeast
        <5>4. Min(I) # 0
          BY <5>3 DEF I
        <5> QED BY <4>1, <5>1, <5>2, <5>4 DEF Has
      <4> QED BY <4>2, <4>3
    <3>2. CASE ~NextHandler
      BY <3>2 DEF Send, terminateClients, RemoveServerQueue, InterruptServer, vars, serverVars
    <3> QED BY <3>1, <3>2
  <2> QED BY <2>1, <2>2 DEF ListInv, KnownAskers
<1>7. \A id : NotAsked(server_queue, id) => NotAsked(server_queue', id)
  BY <1>2, <1>3
<1>8. CASE Handles
  <2>1. /\ phase \in {"INIT", "STOP", "LIST", "TO_ONE", "TO_ALL"} /\ outbox = <<>>
        /\ Has(server_queue, phase) /\ server_queue' = Taken(server_queue, phase)
    BY <1>1, <1>8, HandlesTakes
  <2>2. LeavesOut(server_queue', server_queue, FirstOf(server_queue, phase)) /\ Len(server_queue) \in Nat
    BY <1>1, <1>8, HandledRequest
  <2>3. server_queue' # server_queue
    BY <2>2 DEF LeavesOut
  <2> QED BY <1>3, <2>1, <2>3
<1>9. CASE ~Handles
  <2>1. NewcomersSilent'
    BY <1>1, <1>4, <1>7, <1>9, NewcomersKept DEF Still
  <2>2. ASSUME NEW c \in Client PROVE Undisturbed(c)' => Answered(c)'
    <3>1. CASE InterruptServer
      BY <3>1 DEF InterruptServer, Undisturbed
    <3>2. CASE RemoveServerQueue
      <4>1. server_flag'
        BY <1>5, <3>2 DEF RemoveServerQueue, DownBySignal
      <4> QED BY <4>1 DEF Undisturbed
    <3>3. CASE ~RemoveServerQueue /\ ~InterruptServer
      <4>1. server_queue' = server_queue /\ server_flag' = server_flag
        BY <1>3, <3>3 DEF Send, NextHandler, terminateClients, vars, serverVars
      <4>2. CASE pc[c] = "stopped"
        BY <1>4, <4>2 DEF Undisturbed, Registered, Still
      <4>3. CASE pc[c] # "stopped"
        <5>1. SameNews(Mailbox(c)', Mailbox(c))
          <6>1. CASE Mailbox(c)' = Mailbox(c)
            BY <6>1, SameNewsSelf
          <6>2. ASSUME NEW f, Drops(c, f), Mailbox(c)[f] = NoMsg
                PROVE  SameNews(Mailbox(c)', Mailbox(c))
            <7>1. Mailbox(c)[f].type \notin {"LIST", "LIST_ENTITY"}
              BY <6>2 DEF NoMsg
            <7> QED BY <1>1, <6>2, <7>1, MailboxIs, MailboxIsNext, NewsLeavesOut DEF Drops
          <6>3. CASE Send
            BY <1>1, <4>3, <6>1, <6>2, <6>3, MailboxSends
          <6>4. CASE ~Send
            <7>1. UNCHANGED <<queue, outbox>>
              BY <3>3, <6>4 DEF NextHandler, terminateClients, vars, serverVars
            <7> QED BY <6>1, <7>1, MailboxStays
          <6> QED BY <6>3, <6>4
        <5> QED BY <1>4, <4>1, <5>1, AnsweredStill
      <4> QED BY <4>2, <4>3
    <3> QED BY <3>1, <3>2, <3>3
  <2> QED BY <1>5, <1>6, <2>1, <2>2 DEF ListInv
<1> QED BY <1>8, <1>9

LEMMA ClientSteps ==
  ASSUME TypeOK, NEW d \in Client, Proceed(d) \/ User(d) \/ HandleSignal(d)
  PROVE  /\ [Next]_vars /\ ~Handles
         /\ UNCHANGED <<phase, server_flag, client_data, outbox>> /\ Known' = Known
         /\ \/ server_queue' = server_queue
            \/ SendRequest(d) /\ phase # "down" /\ server_queue' = Append(server_queue, request[d])
<1>1. [Next]_vars
  BY DEF Next
<1>2. UNCHANGED serverVars
  BY DEF Proceed, User, HandleSignal, SendRequest, ReceiveId, Top, ReceiveCount, ReceiveEntity,
         PrintOne, PrintAll, ShowNext, Receive, RemoveQueue, Start, list, to_one, to_all, Command,
         handleIncoming, TypeStop, Interrupt
<1>3. \/ server_queue' = server_queue
      \/ SendRequest(d) /\ phase # "down" /\ server_queue' = Append(server_queue, request[d])
  BY DEF Proceed, User, HandleSignal, SendRequest, ReceiveId, Top, ReceiveCount, ReceiveEntity,
         PrintOne, PrintAll, ShowNext, Receive, RemoveQueue, Start, list, to_one, to_all, Command,
         handleIncoming, TypeStop, Interrupt
<1>4. ~Handles
  <2> SUFFICES ASSUME Handles PROVE FALSE
    OBVIOUS
  <2>1. Len(server_queue) \in Nat /\ Len(server_queue') = Len(server_queue) - 1
    BY HandledRequest DEF LeavesOut
  <2>2. server_queue \in Seq(Requests)
    BY TypeParts DEF ServerQueueTypes
  <2>3. \A m : Len(Append(server_queue, m)) = Len(server_queue) + 1
    BY <2>2
  <2> QED BY <1>3, <2>1, <2>3
<1> QED BY <1>1, <1>2, <1>3, <1>4 DEF serverVars, Known

LEMMA ClientMail ==
  ASSUME TypeOK, NEW d \in Client, Proceed(d) \/ User(d) \/ HandleSignal(d),
         NEW c \in Client, c # d
  PROVE  Mailbox(c)' = Mailbox(c)
<1>1. outbox' = outbox /\ queue \in [Client -> Seq(Answers)]
  BY ClientSteps, TypeParts DEF QueueTypes
<1>2. queue'[c] = queue[c]
  BY <1>1 DEF Proceed, User, HandleSignal, SendRequest, ReceiveId, Top, ReceiveCount, ReceiveEntity,
         PrintOne, PrintAll, ShowNext, Receive, RemoveQueue, Start, list, to_one, to_all, Command,
         handleIncoming, TypeStop, Interrupt
<1> QED BY <1>1, <1>2, MailboxStays

\* A client's request is another's LIST for nobody.
LEMMA ClientAsks ==
  ASSUME IInv, NEW d \in Client, Proceed(d) \/ User(d) \/ HandleSignal(d), NEW id,
         ~(SendRequest(d) /\ request[d].type = "LIST" /\ request[d].id = id)
  PROVE  /\ NotAsked(server_queue, id) => NotAsked(server_queue', id)
         /\ AskedOnce(server_queue, id) => AskedOnce(server_queue', id)
<1>1. TypeOK
  BY DEF IInv
<1>2. CASE server_queue' = server_queue
  BY <1>2
<1>3. CASE SendRequest(d) /\ server_queue' = Append(server_queue, request[d])
  <2>1. PICK m \in Requests : m = request[d]
    BY <1>3 DEF IInv, Sending, SendRequest
  <2>2. PICK q \in Seq(Requests) : q = server_queue
    BY <1>1, TypeParts DEF ServerQueueTypes
  <2>3. PICK r : r = server_queue'
    OBVIOUS
  <2>4. r = Append(q, m) /\ ~(m.type = "LIST" /\ m.id = id)
    BY <1>3, <2>1, <2>2, <2>3
  <2>5. /\ NotAsked(q, id) => NotAsked(r, id)
        /\ AskedOnce(q, id) => AskedOnce(r, id)
    BY <2>4, Asked
  <2> QED BY <2>2, <2>3, <2>5
<1> QED BY <1>1, <1>2, <1>3, ClientSteps

\* What a client does leaves the others' accounts as they are.
LEMMA ClientOthers ==
  ASSUME IInv, ListInv, NEW d \in Client, Proceed(d) \/ User(d) \/ HandleSignal(d),
         NEW c \in Client, c # d
  PROVE  Undisturbed(c)' => Answered(c)'
<1>1. TypeOK /\ Sending
  BY DEF IInv
<1>2. Still(c) /\ server_flag' = server_flag
  BY <1>1, OthersStill, ClientSteps
<1>3. SameNews(Mailbox(c)', Mailbox(c))
  BY <1>1, ClientMail, SameNewsSelf
<1>4. ASSUME Registered(c)
      PROVE  /\ NotAsked(server_queue, this_id[c]) => NotAsked(server_queue', this_id[c])
             /\ AskedOnce(server_queue, this_id[c]) => AskedOnce(server_queue', this_id[c])
  <2>1. Owns(c, this_id[c])
    BY <1>4, OwnId
  <2>2. ASSUME SendRequest(d), request[d].type = "LIST" PROVE request[d].id # this_id[c]
    <3>1. Owns(d, request[d].id)
      BY <2>2, AskerOwns DEF SendRequest
    <3> QED BY <2>1, <3>1 DEF Owns
  <2> QED BY <2>2, ClientAsks
<1> QED BY <1>2, <1>3, <1>4, AnsweredStill

LEMMA ClientKnown ==
  ASSUME IInv, IInv', ListInv, NEW d \in Client, Proceed(d) \/ User(d) \/ HandleSignal(d)
  PROVE  DownBySignal' /\ KnownAskers' /\ NewcomersSilent'
<1>1. TypeOK /\ TypeOK' /\ Sending
  BY DEF IInv
<1>2. /\ [Next]_vars /\ ~Handles
      /\ UNCHANGED <<phase, server_flag, client_data>> /\ Known' = Known
      /\ \/ server_queue' = server_queue
         \/ SendRequest(d) /\ server_queue' = Append(server_queue, request[d])
  BY <1>1, ClientSteps
<1>3. DownBySignal'
  BY <1>2 DEF ListInv, DownBySignal
<1>4. KnownAskers'
  <2> SUFFICES ASSUME phase \notin {"STOP", "LIST"}, NEW k \in 1..Len(server_queue'),
                      server_queue'[k].type = "LIST"
               PROVE  server_queue'[k].id \in Known
    BY <1>2 DEF KnownAskers
  <2>1. \A i \in 1..Len(server_queue) :
          server_queue[i].type = "LIST" => server_queue[i].id \in Known
    BY DEF ListInv, KnownAskers
  <2>2. CASE server_queue' = server_queue
    BY <2>1, <2>2
  <2>3. CASE SendRequest(d) /\ server_queue' = Append(server_queue, request[d])
    <3>1. server_queue \in Seq(Requests) /\ Len(server_queue) \in Nat
      BY <1>1, TypeParts, LenProperties DEF ServerQueueTypes
    <3>2. CASE k \in 1..Len(server_queue)
      BY <2>1, <2>3, <3>1, <3>2
    <3>3. CASE k \notin 1..Len(server_queue)
      <4>1. server_queue'[k] = request[d]
        BY <2>3, <3>1, <3>3
      <4>2. pc[d] = "send" /\ request[d].type = "LIST"
        BY <2>3, <4>1 DEF SendRequest
      <4> QED BY <4>1, <4>2, AskerOwns DEF Owns
    <3> QED BY <3>2, <3>3
  <2> QED BY <1>2, <2>2, <2>3
<1>5. ASSUME NEW c \in Client, this_id'[c] = -1 PROVE this_id[c] = -1
  <2>1. CASE c # d
    BY <1>1, <1>5, <2>1, OthersStill DEF Still
  <2>2. CASE ReceiveId(c)
    <3>1. PICK q \in Seq(Answers) : q = queue[c]
      BY <1>1, TypeParts DEF QueueTypes
    <3>2. Has(q, "INIT") /\ Received(c, "INIT") = q[FirstOf(q, "INIT")]
      BY <2>2, <3>1 DEF ReceiveId, Receive, Received
    <3>3. Received(c, "INIT") \in Answers /\ Received(c, "INIT").type = "INIT"
      BY <3>1, <3>2, TakenLeavesOut
    <3>4. Received(c, "INIT").id \in Ids
      BY <3>3, AnswerFields
    <3>5. this_id'[c] = Received(c, "INIT").id
      BY <1>1, <2>2, TypeParts DEF ReceiveId, LocalTypes
    <3>6. -1 \notin Ids
      BY IdsBounded DEF Ids
    <3> QED BY <1>5, <3>4, <3>5, <3>6
  <2>3. CASE c = d /\ ~ReceiveId(c)
    <3>1. this_id' = this_id
      BY <2>3 DEF Proceed, User, HandleSignal, SendRequest, Top, ReceiveCount, ReceiveEntity,
         PrintOne, PrintAll, ShowNext, RemoveQueue, Start, list, to_one, to_all, Command,
         handleIncoming, TypeStop, Interrupt, localVars
    <3> QED BY <1>5, <3>1
  <2> QED BY <2>1, <2>2, <2>3
<1>6. ASSUME NEW c \in Client, NEW id \in Known, this_id[c] = -1, client_data[id] = c,
             NotAsked(server_queue, id)
      PROVE  NotAsked(server_queue', id)
  <2>1. ASSUME SendRequest(d), request[d].type = "LIST" PROVE request[d].id # id
    <3>1. Owns(d, request[d].id) /\ this_id[d] # -1
      BY <2>1, AskerOwns DEF SendRequest
    <3> QED BY <1>6, <3>1 DEF Owns
  <2> QED BY <1>6, <2>1, ClientAsks
<1>7. NewcomersSilent'
  BY <1>2, <1>5, <1>6, NewcomersKept
<1> QED BY <1>3, <1>4, <1>7
-----------------------------------------------------------------------------
(***************************************************************************)
(* LIST: the steps of the client that waits.                               *)
(***************************************************************************)

\* A client that is in no list() goes on to another place that is in none.
LEMMA IdleStays ==
  ASSUME ListInv, NEW d \in Client, Undisturbed(d),
         {pc[d], pc'[d]} \cap {"await_entity", "await_list"} = {},
         this_id'[d] = this_id[d], server_queue' = server_queue,
         Silent(Mailbox(d)) => Silent(Mailbox(d)')
  PROVE  Answered(d)'
<1>1. Accounts(pc[d], num_clients[d], this_id[d], Mailbox(d), server_queue)
  BY DEF ListInv, Answered
<1>2. Silent(Mailbox(d)) /\ NotAsked(server_queue, this_id[d])
  BY <1>1 DEF Accounts
<1>3. Accounts(pc'[d], num_clients'[d], this_id'[d], Mailbox(d)', server_queue')
  BY <1>2 DEF Accounts
<1> QED BY <1>3 DEF Answered

LEMMA SendRequestAccounts ==
  ASSUME IInv, ListInv, NEW d \in Client, SendRequest(d), Undisturbed(d)'
  PROVE  Answered(d)'
<1>1. TypeOK
  BY DEF IInv
<1>2. /\ pc[d] = "send" /\ Goto(d, AfterSend(request[d].type))
      /\ UNCHANGED <<queue, outbox, this_id, interrupt_flag, server_flag>>
  BY DEF SendRequest, serverVars, localVars, signalVars
<1>3. PICK m \in Requests : m = request[d]
  BY <1>2 DEF IInv, Sending
<1>4. pc'[d] = AfterSend(m.type)
  BY <1>1, <1>2, <1>3, TypeParts DEF Goto, LocalTypes
<1>5. m.type \notin {"INIT", "STOP"}
  <2>1. ASSUME m.type = "INIT" PROVE FALSE
    <3>1. this_id[d] = -1
      BY <1>2, <1>3, <2>1 DEF IInv, Registry, FreshOnes, Fresh, Unregistered
    <3> QED BY <1>2, <3>1 DEF Undisturbed, Registered
  <2>2. ASSUME m.type = "STOP" PROVE FALSE
    <3>1. pc'[d] = "remove"
      BY <1>4, <2>2 DEF AfterSend
    <3> QED BY <3>1 DEF Undisturbed, Registered
  <2> QED BY <2>1, <2>2
<1>6. Undisturbed(d)
  BY <1>2, <1>3, <1>5 DEF Undisturbed, Registered
<1>7. Accounts(pc[d], num_clients[d], this_id[d], Mailbox(d), server_queue)
  BY <1>6 DEF ListInv, Answered
<1>8. Silent(Mailbox(d)) /\ NotAsked(server_queue, this_id[d])
  BY <1>2, <1>7 DEF Accounts
<1>9. Silent(Mailbox(d)')
  BY <1>2, <1>8, MailboxStays
<1>10. server_queue' = Append(server_queue, m)
  BY <1>3, <1>6 DEF SendRequest, ListInv, DownBySignal, Undisturbed
<1>11. PICK q \in Seq(Requests) : q = server_queue
  BY <1>1, TypeParts DEF ServerQueueTypes
<1>12. PICK r : r = server_queue'
  OBVIOUS
<1>13. PICK id : id = this_id[d]
  OBVIOUS
<1>14. r = Append(q, m) /\ NotAsked(q, id)
  BY <1>8, <1>10, <1>11, <1>12, <1>13
<1>15. CASE m.type = "LIST"
  <2>1. m.id = id
    BY <1>2, <1>3, <1>13, <1>15 DEF IInv, Sending
  <2>2. AskedOnce(r, id)
    BY <1>14, <1>15, <2>1, Asked
  <2>3. pc'[d] = "await_list"
    BY <1>4, <1>15 DEF AfterSend
  <2>4. Accounts(pc'[d], num_clients'[d], id, Mailbox(d)', r)
    BY <1>9, <2>2, <2>3 DEF Accounts
  <2> QED BY <1>2, <1>12, <1>13, <2>4 DEF Answered
<1>16. CASE m.type \in {"TO_ONE", "TO_ALL"}
  <2>1. NotAsked(r, id)
    BY <1>14, <1>16, Asked
  <2>2. pc'[d] = "top"
    BY <1>4, <1>16 DEF AfterSend
  <2>3. Accounts(pc'[d], num_clients'[d], id, Mailbox(d)', r)
    BY <1>9, <2>1, <2>2 DEF Accounts
  <2> QED BY <1>2, <1>12, <1>13, <2>3 DEF Answered
<1> QED BY <1>5, <1>15, <1>16, RequestFields

\* Nobody has asked with the id that a new client gets.
LEMMA ReceiveIdAccounts ==
  ASSUME IInv, ListInv, NEW d \in Client, ReceiveId(d),
         Silent(Mailbox(d)) => Silent(Mailbox(d)')
  PROVE  Answered(d)'
<1>1. TypeOK
  BY DEF IInv
<1>2. /\ pc'[d] = "top" /\ this_id'[d] = Received(d, "INIT").id
      /\ server_queue' = server_queue
  BY <1>1, TypeParts DEF ReceiveId, Receive, Goto, LocalTypes
<1>3. PICK q \in Seq(Answers) : q = queue[d]
  BY <1>1, TypeParts DEF QueueTypes
<1>4. PICK f \in 1..Len(q) : q[f] = Received(d, "INIT") /\ q[f].type = "INIT"
  <2>1. Has(q, "INIT") /\ Received(d, "INIT") = q[FirstOf(q, "INIT")]
    BY <1>3 DEF ReceiveId, Receive, Received
  <2>2. LeavesOut(Taken(q, "INIT"), q, FirstOf(q, "INIT")) /\ q[FirstOf(q, "INIT")].type = "INIT"
    BY <2>1, TakenLeavesOut
  <2> QED BY <2>1, <2>2 DEF LeavesOut
<1>5. Newcomer(d, Received(d, "INIT").id)
  BY <1>3, <1>4 DEF IInv, Registry, Welcomed
<1>6. this_id[d] = -1 /\ Owns(d, this_id'[d])
  BY <1>2, <1>5 DEF Newcomer
<1>7. Silent(Mailbox(d)) /\ NotAsked(server_queue, this_id'[d])
  BY <1>6 DEF ListInv, NewcomersSilent, Owns
<1>8. Accounts("top", num_clients'[d], this_id'[d], Mailbox(d)', server_queue')
  BY <1>2, <1>7 DEF Accounts
<1> QED BY <1>2, <1>8 DEF Answered

\* A client that waits for n entries, n of which are on their way.
LEMMA ExpectAccounts ==
  ASSUME TypeOK, NEW d \in Client, NEW n \in Nat, Expect(d, n),
         UNCHANGED <<this_id, server_queue>>, NotAsked(server_queue, this_id[d]),
         Count(Mailbox(d)', "LIST") = 0, Count(Mailbox(d)', "LIST_ENTITY") = n
  PROVE  Answered(d)'
<1>1. /\ num_clients'[d] = n
      /\ pc'[d] = IF n > 0 THEN "await_entity" ELSE "top"
  BY TypeParts DEF Expect, Goto, LocalTypes
<1>2. CASE n > 0
  <2>1. Accounts("await_entity", n, this_id[d], Mailbox(d)', server_queue)
    BY DEF Accounts
  <2> QED BY <1>1, <1>2, <2>1 DEF Answered
<1>3. CASE ~(n > 0)
  <2>1. Silent(Mailbox(d)')
    BY <1>3 DEF Silent
  <2>2. Accounts("top", n, this_id[d], Mailbox(d)', server_queue)
    BY <2>1 DEF Accounts
  <2> QED BY <1>1, <1>3, <2>2 DEF Answered
<1> QED BY <1>2, <1>3

LEMMA ReceiveCountAccounts ==
  ASSUME IInv, IInv', ListInv, NEW d \in Client, ReceiveCount(d), Undisturbed(d)'
  PROVE  Answered(d)'
<1>1. TypeOK /\ TypeOK'
  BY DEF IInv
<1>2. /\ pc[d] = "await_list" /\ Receive(d, "LIST") /\ Expect(d, Received(d, "LIST").num)
      /\ UNCHANGED <<this_id, server_queue, interrupt_flag, server_flag>>
  BY DEF ReceiveCount, Receive, serverVars, signalVars
<1>3. Undisturbed(d)
  BY <1>2 DEF Undisturbed, Registered
<1>4. PICK q \in Seq(Post) : q = Mailbox(d)
  BY <1>1, MailboxIs
<1>5. PICK r \in Seq(Post) : r = Mailbox(d)'
  BY <1>1, MailboxIsNext
<1>6. PICK f : LeavesOut(r, q, f) /\ q[f] = Received(d, "LIST") /\ q[f].type = "LIST"
  BY <1>1, <1>2, <1>4, <1>5, MailboxReceived DEF Drops
<1>7. Len(q) \in Nat /\ Len(r) \in Nat
  BY LenProperties
<1>8. Accounts("await_list", num_clients[d], this_id[d], q, server_queue)
  BY <1>2, <1>3, <1>4 DEF ListInv, Answered
<1>9. ~Silent(q)
  BY <1>6, <1>7, CountTaken
<1>10. WholeListing(q) /\ NotAsked(server_queue, this_id[d])
  BY <1>8, <1>9 DEF Accounts
<1>11. q[f].num = Count(r, "LIST_ENTITY") /\ Count(r, "LIST") = 0
  BY <1>6, <1>7, <1>10, CountTaken
<1>12. PICK n \in Nat : n = Count(r, "LIST_ENTITY")
  BY <1>7, CountType
<1>13. Expect(d, n)
  BY <1>2, <1>6, <1>11, <1>12
<1> QED BY <1>1, <1>2, <1>5, <1>10, <1>11, <1>12, <1>13, ExpectAccounts

LEMMA ReceiveEntityAccounts ==
  ASSUME IInv, IInv', ListInv, NEW d \in Client, ReceiveEntity(d), Undisturbed(d)'
  PROVE  Answered(d)'
<1>1. TypeOK /\ TypeOK'
  BY DEF IInv
<1>2. /\ pc[d] = "await_entity" /\ Receive(d, "LIST_ENTITY") /\ Expect(d, num_clients[d] - 1)
      /\ UNCHANGED <<this_id, server_queue, interrupt_flag, server_flag>>
  BY DEF ReceiveEntity, Receive, serverVars, signalVars
<1>3. Undisturbed(d)
  BY <1>2 DEF Undisturbed, Registered
<1>4. PICK q \in Seq(Post) : q = Mailbox(d)
  BY <1>1, MailboxIs
<1>5. PICK r \in Seq(Post) : r = Mailbox(d)'
  BY <1>1, MailboxIsNext
<1>6. PICK f : LeavesOut(r, q, f) /\ q[f].type = "LIST_ENTITY"
  BY <1>1, <1>2, <1>4, <1>5, MailboxReceived DEF Drops
<1>7. Len(q) \in Nat
  BY LenProperties
<1>8. Accounts("await_entity", num_clients[d], this_id[d], q, server_queue)
  BY <1>2, <1>3, <1>4 DEF ListInv, Answered
<1>9. /\ Count(q, "LIST") = 0 /\ Count(q, "LIST_ENTITY") = num_clients[d]
      /\ NotAsked(server_queue, this_id[d])
  BY <1>8 DEF Accounts
<1>10. /\ Count(r, "LIST") = Count(q, "LIST")
       /\ Count(r, "LIST_ENTITY") \in Nat
       /\ Count(q, "LIST_ENTITY") = Count(r, "LIST_ENTITY") + 1
  BY <1>6, <1>7, EntryTaken
<1>11. PICK n \in Nat : n = Count(r, "LIST_ENTITY")
  BY <1>10
<1>12. num_clients[d] - 1 = n
  BY <1>9, <1>10, <1>11
<1>13. Expect(d, n)
  BY <1>2, <1>12
<1> QED BY <1>1, <1>2, <1>5, <1>9, <1>10, <1>11, <1>13, ExpectAccounts

LEMMA ClientOwn ==
  ASSUME IInv, IInv', ListInv, NEW d \in Client, Proceed(d) \/ User(d) \/ HandleSignal(d)
  PROVE  Undisturbed(d)' => Answered(d)'
<1> SUFFICES ASSUME Undisturbed(d)' PROVE Answered(d)'
  OBVIOUS
<1>1. /\ TypeOK /\ TypeOK' /\ Sending
      /\ pc \in [Client -> Places] /\ DOMAIN request = Client /\ DOMAIN interrupt_flag = Client
  BY TypeParts DEF IInv, LocalTypes, SignalTypes, Sending
<1>2. Silent(Mailbox(d)) => Silent(Mailbox(d)')
  BY <1>1, ClientSteps, SilentStays
<1>3. server_flag' = server_flag
  BY <1>1, ClientSteps
<1>4. CASE SendRequest(d)
  BY <1>4, SendRequestAccounts
<1>5. CASE ReceiveId(d)
  BY <1>2, <1>5, ReceiveIdAccounts
<1>6. CASE ReceiveCount(d)
  BY <1>6, ReceiveCountAccounts
<1>7. CASE ReceiveEntity(d)
  BY <1>7, ReceiveEntityAccounts
<1>8. CASE Top(d)
  <2>1. UNCHANGED <<this_id, interrupt_flag, server_queue>> /\ pc[d] = "top"
    BY <1>8 DEF Top, signalVars
  <2>2. ~interrupt_flag[d]
    BY <2>1 DEF Undisturbed
  <2>3. pc'[d] = "reading"
    BY <1>1, <1>8, <2>2 DEF Top, Goto
  <2>4. Undisturbed(d)
    BY <1>3, <2>1 DEF Undisturbed, Registered
  <2> QED BY <1>2, <2>1, <2>3, <2>4, IdleStays
<1>9. CASE list(d) \/ to_one(d) \/ to_all(d)
  <2>1. /\ UNCHANGED <<this_id, interrupt_flag, server_queue>> /\ pc[d] = "reading"
        /\ Goto(d, "send")
    BY <1>9 DEF list, to_one, to_all, Command, Ask, signalVars
  <2>2. pc'[d] = "send"
    BY <1>1, <2>1 DEF Goto
  <2>3. Undisturbed(d)
    BY <1>3, <2>1 DEF Undisturbed, Registered
  <2> QED BY <1>2, <2>1, <2>2, <2>3, IdleStays
<1>10. CASE handleIncoming(d)
  <2>1. /\ UNCHANGED <<this_id, interrupt_flag, server_queue>> /\ pc[d] = "reading"
        /\ Goto(d, "incoming_one")
    BY <1>10 DEF handleIncoming, signalVars, localVars
  <2>2. pc'[d] = "incoming_one"
    BY <1>1, <2>1 DEF Goto
  <2>3. Undisturbed(d)
    BY <1>3, <2>1 DEF Undisturbed, Registered
  <2> QED BY <1>2, <2>1, <2>2, <2>3, IdleStays
<1>11. CASE PrintOne(d) \/ PrintAll(d)
  <2>1. /\ UNCHANGED <<this_id, interrupt_flag, server_queue>>
        /\ pc[d] \in {"incoming_one", "incoming_all"}
        /\ UNCHANGED pc \/ Goto(d, "incoming_all") \/ Goto(d, "top")
    BY <1>11 DEF PrintOne, PrintAll, ShowNext, Receive, signalVars
  <2>2. pc'[d] \in {"incoming_one", "incoming_all", "top"}
    BY <1>1, <2>1 DEF Goto
  <2>3. Undisturbed(d)
    BY <1>3, <2>1 DEF Undisturbed, Registered
  <2> QED BY <1>2, <2>1, <2>2, <2>3, IdleStays
<1>12. CASE RemoveQueue(d)
  <2>1. pc'[d] = "stopped"
    BY <1>1, <1>12 DEF RemoveQueue, Goto
  <2> QED BY <2>1 DEF Undisturbed, Registered
<1>13. CASE Start(d)
  <2>1. this_id'[d] = -1
    BY <1>13 DEF Start, IInv, Registry, FreshOnes, Fresh, Unregistered
  <2> QED BY <2>1 DEF Undisturbed, Registered
<1>14. CASE TypeStop(d) \/ HandleSignal(d)
  <2>1. interrupt_flag'[d] = TRUE
    BY <1>1, <1>14 DEF TypeStop, HandleSignal
  <2> QED BY <2>1 DEF Undisturbed
<1>15. CASE Interrupt(d)
  <2>1. /\ UNCHANGED <<queue, outbox, pc, this_id, interrupt_flag, num_clients, server_queue>>
        /\ request' = request
    BY <1>15 DEF Interrupt, serverVars, localVars
  <2>2. Still(d) /\ SameNews(Mailbox(d)', Mailbox(d))
    BY <2>1, MailboxStays, SameNewsSelf DEF Still
  <2> QED BY <1>3, <2>1, <2>2, AnsweredStill
<1> QED BY <1>4, <1>5, <1>6, <1>7, <1>8, <1>9, <1>10, <1>11, <1>12, <1>13, <1>14, <1>15
        DEF Proceed, User
-----------------------------------------------------------------------------
(***************************************************************************)
(* LIST: the theorem.                                                      *)
(***************************************************************************)

LEMMA ListKept ==
  ASSUME IInv, IInv', ListInv, [Next]_vars
  PROVE  ListInv'
<1>1. CASE Handles
  <2>1. \A c \in Client : Undisturbed(c)' => Answered(c)'
    BY <1>1, HandlersAccount
  <2> QED BY <1>1, <2>1, HandlersKnown, HandlersNewcomers DEF ListInv
<1>2. CASE Send \/ NextHandler \/ terminateClients \/ RemoveServerQueue
           \/ InterruptServer \/ UNCHANGED vars
  BY <1>2, ServerElse
<1>3. ASSUME NEW d \in Client, Proceed(d) \/ User(d) \/ HandleSignal(d) PROVE ListInv'
  <2>1. \A c \in Client : Undisturbed(c)' => Answered(c)'
    BY <1>3, ClientOthers, ClientOwn
  <2> QED BY <1>3, <2>1, ClientKnown DEF ListInv
<1> QED BY <1>1, <1>2, <1>3 DEF Next, Server, Handles

LEMMA ListAtFirst ==
  ASSUME Init
  PROVE  ListInv
<1>1. TypeOK
  BY InitKeeps DEF IInv
<1>2. phase = "top" /\ Known = {} /\ Len(server_queue) = 0 /\ \A c \in Client : this_id[c] = -1
  BY EmptySeq DEF Init, Known
<1>3. DownBySignal /\ KnownAskers
  BY <1>2 DEF DownBySignal, KnownAskers
<1>4. ASSUME NEW c \in Client PROVE Silent(Mailbox(c))
  <2>1. outbox = <<>> /\ queue[c] = <<>>
    BY DEF Init
  <2>2. PICK p \in Seq(Post) : p = queue[c]
    BY <1>1, MailboxIs
  <2>3. PICK a \in Seq(Post) : a = Addressed(c, outbox)
    BY <1>1, MailboxIs
  <2>4. PICK mail \in Seq(Mail) : mail = outbox
    BY <1>1, MailboxIs
  <2>5. Len(a) = Len(mail) /\ Len(mail) = 0
    BY <2>1, <2>3, <2>4, AddressedType, EmptySeq
  <2>6. Join(p, a) = p
    BY <2>5, JoinNothing
  <2>7. Mailbox(c) = p
    BY <1>1, <2>2, <2>3, <2>6, MailboxIs
  <2>8. Mailbox(c) = <<>>
    BY <2>1, <2>2, <2>7
  <2>9. Silent(<<>>)
    BY CountEmpty DEF Silent
  <2> QED BY <2>8, <2>9
<1>5. NewcomersSilent
  BY <1>2, <1>4 DEF NewcomersSilent
<1>6. \A c \in Client : ~Registered(c)
  BY <1>2 DEF Registered
<1> QED BY <1>3, <1>5, <1>6 DEF ListInv, Undisturbed

\* The server answers a LIST once, and with the entries of its registry.
THEOREM ListInvariant == Spec => [](IInv /\ ListInv)
<1>1. Init => ListInv
  BY ListAtFirst
<1>2. IInv /\ IInv' /\ ListInv /\ [Next]_vars => ListInv'
  BY ListKept
<1> QED BY <1>1, <1>2, InductiveInvariant, PTL DEF Spec

\* LIST accounts for its answer: an undisturbed client waits for as many entries
\* as are on their way to it, however many clients come, go and ask meanwhile.
THEOREM ListingCompleteHolds == Spec => []ListingComplete
<1>1. IInv /\ ListInv => ListingComplete
  <2> SUFFICES ASSUME IInv, ListInv, NEW c \in Client,
                      Registered(c), ~interrupt_flag[c], ~server_flag,
                      NEW m, m = Mailbox(c), NEW n, n = Count(m, "LIST_ENTITY")
               PROVE  CASE pc[c] = "await_entity" -> Count(m, "LIST") = 0 /\ n = num_clients[c]
                        [] pc[c] = "await_list" ->
                             \/ Count(m, "LIST") = 1 /\ [type |-> "LIST", num |-> n] \in ToSet(m)
                             \/ /\ Count(m, "LIST") = 0 /\ n = 0
                                /\ [type |-> "LIST", id |-> this_id[c]] \in ToSet(server_queue)
                        [] OTHER -> Count(m, "LIST") = 0 /\ n = 0
    BY DEF ListingComplete
  <2>1. Accounts(pc[c], num_clients[c], this_id[c], m, server_queue)
    BY DEF ListInv, Undisturbed, Answered
  <2>2. AskedOnce(server_queue, this_id[c]) =>
          [type |-> "LIST", id |-> this_id[c]] \in ToSet(server_queue)
    <3> SUFFICES ASSUME NEW k \in 1..Len(server_queue), Lists(server_queue, this_id[c], k)
                 PROVE  [type |-> "LIST", id |-> this_id[c]] \in ToSet(server_queue)
      BY DEF AskedOnce
    <3>1. server_queue \in Seq(Requests)
      BY TypeParts DEF IInv, ServerQueueTypes
    <3>2. server_queue[k] \in Requests
      BY <3>1, ElementOfSeq
    <3>3. server_queue[k] = [type |-> "LIST", id |-> this_id[c]]
      BY <3>2 DEF Lists, Requests
    <3> QED BY <3>3 DEF ToSet
  <2>3. CASE pc[c] = "await_entity"
    BY <2>1, <2>3 DEF Accounts
  <2>4. CASE pc[c] = "await_list"
    BY <2>1, <2>2, <2>4 DEF Accounts, WholeListing, Silent
  <2>5. CASE pc[c] \notin {"await_entity", "await_list"}
    BY <2>1, <2>5 DEF Accounts, Silent
  <2> QED BY <2>3, <2>4, <2>5
<1> QED BY <1>1, ListInvariant, PTL
=============================================================================
