---------------------------- MODULE Chat_proofs ----------------------------
(***************************************************************************)
(* What holds of the chat for every number of clients, every bound on what *)
(* the users type and every capacity of the queues, with signals and       *)
(* without: the types of the variables, with them the range the ids stay   *)
(* in, and that the registry is faithful to the clients.                   *)
(***************************************************************************)
EXTENDS Chat, FiniteSetTheorems, NaturalsInduction, SequenceTheorems, TLAPS

(***************************************************************************)
(* Sets of numbers.                                                        *)
(***************************************************************************)

\* A nonempty set of natural numbers has a least element.
LEMMA LeastElement ==
  ASSUME NEW S, S \subseteq Nat, S # {}
  PROVE  \E x \in S : \A y \in S : x <= y
<1>1. PICK x \in S : \A y \in S : ~(<<y, x>> \in OpToRel(<, Nat))
  BY NatLessThanWellFounded, WFMin
<1>2. SUFFICES ASSUME NEW y \in S PROVE x <= y
  OBVIOUS
<1>3. <<y, x>> \in Nat \X Nat
  OBVIOUS
<1>4. ~(y < x)
  BY <1>1, <1>3 DEF OpToRel
<1> QED BY <1>4

\* Min of a nonempty set of natural numbers is its least element.
LEMMA MinIsLeast ==
  ASSUME NEW S, S \subseteq Nat, S # {}
  PROVE  Min(S) \in S /\ \A y \in S : Min(S) <= y
BY LeastElement DEF Min

\* Max of a nonempty bounded set of natural numbers is its greatest element.
LEMMA MaxIsGreatest ==
  ASSUME NEW n \in Nat, NEW S, S \subseteq 0..n, S # {}
  PROVE  Max(S) \in S /\ \A y \in S : y <= Max(S)
<1> DEFINE Bounds == {u \in Nat : \A y \in S : y <= u}
<1>1. n \in Bounds
  OBVIOUS
<1>2. PICK u \in Bounds : \A v \in Bounds : u <= v
  BY <1>1, LeastElement
<1>3. u \in S
  <2> SUFFICES ASSUME u \notin S PROVE FALSE
    OBVIOUS
  <2>1. PICK y \in S : TRUE
    OBVIOUS
  <2>2. y <= u /\ y # u /\ y \in Nat
    BY <1>2, <2>1
  <2>3. u - 1 \in Bounds
    <3>1. u - 1 \in Nat
      BY <2>2
    <3>2. ASSUME NEW z \in S PROVE z <= u - 1
      BY <1>2
    <3> QED BY <3>1, <3>2
  <2> QED BY <1>2, <2>3
<1>4. \E x \in S : \A y \in S : x >= y
  BY <1>2, <1>3
<1> QED BY <1>4 DEF Max

(***************************************************************************)
(* The queues.                                                             *)
(***************************************************************************)

\* msgrcv with a type finds a message of this type.
LEMMA FirstOfFinds ==
  ASSUME NEW q, NEW type, Len(q) \in Nat, Has(q, type)
  PROVE  /\ FirstOf(q, type) \in 1..Len(q)
         /\ q[FirstOf(q, type)].type = type
<1> DEFINE I == {i \in 1..Len(q) : q[i].type = type}
<1>1. FirstOf(q, type) = IF I # {} THEN Min(I) ELSE 0
  BY DEF FirstOf, SelectInSeq
<1>2. I # {} /\ FirstOf(q, type) = Min(I)
  BY <1>1 DEF Has
<1>3. I \subseteq Nat
  OBVIOUS
<1>4. Min(I) \in I
  BY <1>2, <1>3, MinIsLeast
<1> QED BY <1>2, <1>4

\* Where the kth message of a queue was before the fth was taken out.
Before(k, f) == IF k < f THEN k ELSE k + 1

\* What msgrcv leaves in the queue: the other messages, in their order.
LEMMA TakenLeaves ==
  ASSUME NEW S, NEW q \in Seq(S), NEW type, Has(q, type)
  PROVE  /\ Taken(q, type) \in Seq(S)
         /\ Len(Taken(q, type)) = Len(q) - 1
         /\ \A k \in 1..Len(Taken(q, type)) :
              /\ Before(k, FirstOf(q, type)) \in 1..Len(q) \ {FirstOf(q, type)}
              /\ Taken(q, type)[k] = q[Before(k, FirstOf(q, type))]
<1> DEFINE f == FirstOf(q, type)
           a == SubSeq(q, 1, f - 1)
           b == SubSeq(q, f + 1, Len(q))
<1>1. Len(q) \in Nat
  BY LenProperties
<1>2. f \in 1..Len(q)
  BY <1>1, FirstOfFinds
<1> HIDE DEF f
<1>3. \A i \in 1..Len(q) : q[i] \in S
  BY ElementOfSeq
<1>4. /\ a \in Seq(S)
      /\ Len(a) = f - 1
      /\ \A i \in 1..(f - 1) : a[i] = q[i]
  <2>1. \A i \in 1..(f - 1) : q[i] \in S
    BY <1>1, <1>2, <1>3
  <2>2. /\ a \in Seq(S)
        /\ Len(a) = IF 1 <= f - 1 THEN f - 1 - 1 + 1 ELSE 0
        /\ \A i \in 1..(f - 1 - 1 + 1) : a[i] = q[1 + i - 1]
    BY <1>1, <1>2, <2>1, SubSeqProperties
  <2> QED BY <1>1, <1>2, <2>2
<1>5. /\ b \in Seq(S)
      /\ Len(b) = Len(q) - f
      /\ \A i \in 1..(Len(q) - f) : b[i] = q[f + i]
  <2>1. \A i \in (f + 1)..Len(q) : q[i] \in S
    BY <1>1, <1>2, <1>3
  <2>2. /\ b \in Seq(S)
        /\ Len(b) = IF f + 1 <= Len(q) THEN Len(q) - (f + 1) + 1 ELSE 0
        /\ \A i \in 1..(Len(q) - (f + 1) + 1) : b[i] = q[f + 1 + i - 1]
    BY <1>1, <1>2, <2>1, SubSeqProperties
  <2> QED BY <1>1, <1>2, <2>2
<1> HIDE DEF a, b
<1>6. Taken(q, type) = a \o b
  BY DEF Taken, RemoveAt, f, a, b
<1>7. /\ a \o b \in Seq(S)
      /\ Len(a \o b) = Len(q) - 1
      /\ \A i \in 1..(Len(q) - 1) : (a \o b)[i] = IF i <= f - 1 THEN a[i] ELSE b[i - (f - 1)]
  <2>1. /\ a \o b \in Seq(S)
        /\ Len(a \o b) = Len(a) + Len(b)
        /\ \A i \in 1..(Len(a) + Len(b)) : (a \o b)[i] = IF i <= Len(a) THEN a[i] ELSE b[i - Len(a)]
    BY <1>4, <1>5, ConcatProperties
  <2>2. Len(a) + Len(b) = Len(q) - 1
    BY <1>1, <1>2, <1>4, <1>5
  <2> QED BY <1>4, <2>1, <2>2
<1>8. ASSUME NEW k \in 1..(Len(q) - 1)
      PROVE  /\ Before(k, f) \in 1..Len(q) \ {f}
             /\ (a \o b)[k] = q[Before(k, f)]
  <2>1. CASE k < f
    BY <1>1, <1>2, <1>4, <1>7, <2>1 DEF Before
  <2>2. CASE ~(k < f)
    BY <1>1, <1>2, <1>5, <1>7, <2>2 DEF Before
  <2> QED BY <2>1, <2>2
<1> QED BY <1>6, <1>7, <1>8 DEF f

\* No two messages have been in one place.
LEMMA BeforeInjective ==
  ASSUME NEW j \in Int, NEW k \in Int, NEW f \in Int, Before(j, f) = Before(k, f)
  PROVE  j = k
BY DEF Before

\* What a sent message adds to a queue.
LEMMA AppendAdds ==
  ASSUME NEW S, NEW q \in Seq(S), NEW m \in S
  PROVE  /\ Append(q, m) \in Seq(S)
         /\ Len(Append(q, m)) = Len(q) + 1
         /\ \A k \in 1..Len(Append(q, m)) :
              \/ k = Len(q) + 1 /\ Append(q, m)[k] = m
              \/ k \in 1..Len(q) /\ Append(q, m)[k] = q[k]
BY LenProperties

(***************************************************************************)
(* The ids of a registry in their order.                                   *)
(***************************************************************************)

\* A registry has an id with n - 1 smaller ones, as long as n is at most its size.
LEMMA NthId ==
  ASSUME NEW D, NEW b \in Nat, D \subseteq 0..b
  PROVE  /\ Cardinality(D) \in Nat
         /\ \A n \in 1..Cardinality(D) :
              \E i \in D : Cardinality({j \in D : j < i}) = n - 1
<1> DEFINE Below(i) == {j \in D : j < i}
           UpTo(i) == {j \in D : j <= i}
<1>1. IsFiniteSet(D) /\ Cardinality(D) \in Nat
  <2>1. IsFiniteSet(0..b)
    BY FS_Interval
  <2> QED BY <2>1, FS_Subset, FS_CardinalityType
<1>2. ASSUME NEW i \in Nat
      PROVE  /\ IsFiniteSet(Below(i)) /\ Cardinality(Below(i)) \in Nat
             /\ IsFiniteSet(UpTo(i)) /\ Cardinality(UpTo(i)) \in Nat
  <2>1. Below(i) \in SUBSET D /\ UpTo(i) \in SUBSET D
    OBVIOUS
  <2> QED BY <1>1, <2>1, FS_Subset, FS_CardinalityType
<1>3. \A j \in D : j \in Nat /\ j <= b
  OBVIOUS
<1>4. UpTo(b) = D
  BY <1>3
<1>5. Below(0) = {}
  <2>1. \A j \in D : ~(j < 0)
    BY <1>3
  <2> QED BY <2>1
<1>6. ASSUME NEW i \in Nat, i # 0 PROVE i - 1 \in Nat /\ Below(i) = UpTo(i - 1)
  <2>1. i - 1 \in Nat
    BY <1>6
  <2>2. \A j \in D : j < i <=> j <= i - 1
    BY <1>3, <2>1
  <2> QED BY <2>1, <2>2
<1>7. ASSUME NEW i \in Nat
      PROVE  IF i \in D THEN UpTo(i) = Below(i) \cup {i} /\ i \notin Below(i) ELSE UpTo(i) = Below(i)
  <2>1. \A j \in D : j <= i <=> j < i \/ j = i
    BY <1>3
  <2>2. ~(i < i)
    OBVIOUS
  <2> QED BY <2>1, <2>2
<1> HIDE DEF UpTo, Below
<1>8. ASSUME NEW n \in 1..Cardinality(D)
      PROVE  \E i \in D : Cardinality(Below(i)) = n - 1
  <2> DEFINE U == {i \in Nat : Cardinality(UpTo(i)) >= n}
  <2>1. b \in U
    BY <1>1, <1>4
  <2>2. PICK i \in U : \A j \in U : i <= j
    <3>1. U \subseteq Nat /\ U # {}
      BY <2>1
    <3> HIDE DEF U
    <3> QED BY <3>1, LeastElement
  <2>3. i \in Nat /\ Cardinality(UpTo(i)) >= n
    OBVIOUS
  <2>4. Cardinality(Below(i)) < n
    <3>1. CASE i = 0
      <4>1. Cardinality(Below(i)) = 0
        BY <1>5, <3>1, FS_EmptySet
      <4> QED BY <4>1
    <3>2. CASE i # 0
      <4>1. i - 1 \in Nat /\ Below(i) = UpTo(i - 1)
        BY <1>6, <2>3, <3>2
      <4>2. i - 1 \notin U
        BY <2>2, <2>3, <4>1
      <4>3. ~(Cardinality(UpTo(i - 1)) >= n)
        BY <4>1, <4>2
      <4> QED BY <1>2, <4>1, <4>3
    <3> QED BY <3>1, <3>2
  <2> HIDE DEF U
  <2>5. i \in D
    BY <1>2, <1>7, <2>3, <2>4
  <2>6. UpTo(i) = Below(i) \cup {i} /\ i \notin Below(i)
    BY <1>7, <2>3, <2>5
  <2>7. Cardinality(UpTo(i)) = Cardinality(Below(i)) + 1
    BY <1>2, <2>3, <2>6, FS_AddElement
  <2>8. Cardinality(Below(i)) = n - 1
    BY <1>2, <2>3, <2>4, <2>7
  <2> QED BY <2>5, <2>8
<1> QED BY <1>1, <1>8 DEF Below

\* The nth id of a registry is the one with n - 1 smaller ones.
LEMMA InOrderIs ==
  ASSUME NEW data, NEW b \in Nat, DOMAIN data \subseteq 0..b,
         NEW n \in 1..Cardinality(DOMAIN data)
  PROVE  /\ InOrder(data)[n] \in DOMAIN data
         /\ Cardinality({j \in DOMAIN data : j < InOrder(data)[n]}) = n - 1
<1>1. InOrder(data)[n] = CHOOSE i \in DOMAIN data : Cardinality({j \in DOMAIN data : j < i}) = n - 1
  BY DEF InOrder
<1>2. \E i \in DOMAIN data : Cardinality({j \in DOMAIN data : j < i}) = n - 1
  BY NthId
<1> QED BY <1>1, <1>2

\* It is one of its ids.
LEMMA InOrderInDomain ==
  ASSUME NEW data, NEW b \in Nat, DOMAIN data \subseteq 0..b
  PROVE  /\ Cardinality(DOMAIN data) \in Nat
         /\ DOMAIN InOrder(data) = 1..Cardinality(DOMAIN data)
         /\ \A n \in 1..Cardinality(DOMAIN data) : InOrder(data)[n] \in DOMAIN data
<1>1. Cardinality(DOMAIN data) \in Nat
  BY NthId
<1>2. DOMAIN InOrder(data) = 1..Cardinality(DOMAIN data)
  BY DEF InOrder
<1>3. \A n \in 1..Cardinality(DOMAIN data) : InOrder(data)[n] \in DOMAIN data
  BY InOrderIs
<1> QED BY <1>1, <1>2, <1>3

\* The ids of a registry form a sequence.
LEMMA InOrderIsSequence ==
  ASSUME NEW data, NEW b \in Nat, DOMAIN data \subseteq 0..b
  PROVE  /\ Cardinality(DOMAIN data) \in Nat
         /\ InOrder(data) \in Seq(DOMAIN data)
         /\ Len(InOrder(data)) = Cardinality(DOMAIN data)
<1> DEFINE n == Cardinality(DOMAIN data)
<1>1. /\ n \in Nat
      /\ DOMAIN InOrder(data) = 1..n
      /\ \A k \in 1..n : InOrder(data)[k] \in DOMAIN data
  BY InOrderInDomain
<1>2. InOrder(data) = [k \in DOMAIN InOrder(data) |-> InOrder(data)[k]]
  BY DEF InOrder
<1>3. InOrder(data) \in [1..n -> DOMAIN data]
  <2> HIDE DEF n
  <2> QED BY <1>1, <1>2
<1> HIDE DEF n
<1>4. InOrder(data) \in Seq(DOMAIN data) /\ Len(InOrder(data)) = n
  BY <1>1, <1>3
<1> QED BY <1>1, <1>4 DEF n

-----------------------------------------------------------------------------
(***************************************************************************)
(* The answers of the server.                                              *)
(***************************************************************************)

Mail == [to : Client \cup {Nobody}, msg : Answers]

\* The greatest id there can be, and how many ids there are.
LEMMA IdsBounded ==
  /\ Cardinality(Client) \in Nat
  /\ MaxId \in Nat
  /\ MaxId + Cardinality(Client) \in Nat
  /\ Cardinality(Ids) = MaxId + Cardinality(Client) + 1
  /\ Ids \subseteq Nat
  /\ Ids \subseteq 0..Cardinality(Ids)
<1>1. MaxId \in Nat /\ Cardinality(Client) \in Nat
  BY ChatAssumption, FS_CardinalityType
<1>2. MaxId + Cardinality(Client) \in Nat
  BY <1>1
<1>3. Cardinality(Ids) = MaxId + Cardinality(Client) + 1
  <2> DEFINE top == MaxId + Cardinality(Client)
  <2>1. top \in Nat /\ Ids = 0..top
    BY <1>2 DEF Ids
  <2> HIDE DEF top
  <2>2. Cardinality(0..top) = top + 1
    BY <2>1, FS_Interval
  <2> QED BY <2>1, <2>2 DEF top
<1> QED BY <1>1, <1>2, <1>3 DEF Ids

\* A registry has at most as many entries as there are ids.
LEMMA RegistrySize ==
  ASSUME NEW S, S \subseteq Ids
  PROVE  Cardinality(S) \in 0..Cardinality(Ids)
<1>1. IsFiniteSet(Ids) /\ Cardinality(Ids) \in Nat
  BY IdsBounded, FS_Interval, FS_CardinalityType DEF Ids
<1> QED BY <1>1, FS_Subset, FS_CardinalityType

\* The answer to LIST goes to one process and holds no id for a new client.
LEMMA ListingIsMail ==
  ASSUME NEW id, NEW data, DOMAIN data \subseteq Ids, Known \subseteq Ids,
         data[id] \in Client \cup {Nobody}
  PROVE  /\ Listing(id, data) \in Seq(Mail)
         /\ \A k \in 1..Len(Listing(id, data)) : Listing(id, data)[k].msg.type # "INIT"
<1> DEFINE ids == InOrder(data)
           n == Cardinality(DOMAIN data)
           first == To(data[id], [type |-> "LIST", num |-> Cardinality(Known)])
           rest == [k \in 1..Len(ids) |-> To(data[id], [type |-> "LIST_ENTITY", id |-> ids[k]])]
           S == {m \in Mail : m.msg.type # "INIT"}
<1>1. n \in Nat /\ Len(ids) = n /\ \A k \in 1..n : ids[k] \in Ids
  BY IdsBounded, InOrderInDomain, InOrderIsSequence DEF Ids
<1>2. first \in S
  <2>1. Cardinality(Known) \in 0..Cardinality(Ids)
    BY RegistrySize
  <2>2. [type |-> "LIST", num |-> Cardinality(Known)] \in Answers
    BY <2>1 DEF Answers
  <2> QED BY <2>2 DEF To, Mail
<1>3. ASSUME NEW k \in 1..n PROVE rest[k] \in S
  <2>1. ids[k] \in Ids
    BY <1>1
  <2>2. [type |-> "LIST_ENTITY", id |-> ids[k]] \in Answers
    BY <2>1 DEF Answers
  <2>3. rest[k] = To(data[id], [type |-> "LIST_ENTITY", id |-> ids[k]])
    BY <1>1
  <2> HIDE DEF rest
  <2> QED BY <2>2, <2>3 DEF To, Mail
<1>4. DOMAIN rest = 1..n /\ rest = [k \in 1..n |-> rest[k]]
  BY <1>1
<1>5. Listing(id, data) = <<first>> \o rest
  BY DEF Listing
<1> HIDE DEF n, first, rest, S
<1>6. rest \in Seq(S)
  BY <1>1, <1>3, <1>4
<1>7. <<first>> \in Seq(S)
  BY <1>2
<1>8. <<first>> \o rest \in Seq(S)
  BY <1>6, <1>7, ConcatProperties
<1> QED BY <1>5, <1>8, SeqMonotonic, ElementOfSeq DEF S

\* A text to all goes to the processes of the registry.
LEMMA BroadcastIsMail ==
  ASSUME NEW m \in Answers, m.type # "INIT", Known \subseteq Ids,
         \A id \in Known : client_data[id] \in Client \cup {Nobody}
  PROVE  /\ Broadcast(m) \in Seq(Mail)
         /\ \A k \in 1..Len(Broadcast(m)) : Broadcast(m)[k].msg.type # "INIT"
<1> DEFINE ids == InOrder(client_data)
           n == Cardinality(Known)
           S == {x \in Mail : x.msg.type # "INIT"}
<1>1. n \in Nat /\ Len(ids) = n /\ \A k \in 1..n : ids[k] \in Known
  BY IdsBounded, InOrderInDomain, InOrderIsSequence DEF Ids, Known
<1>2. Broadcast(m) = [k \in 1..n |-> To(client_data[ids[k]], m)]
  BY <1>1 DEF Broadcast
<1>3. ASSUME NEW k \in 1..n PROVE To(client_data[ids[k]], m) \in S
  <2>1. client_data[ids[k]] \in Client \cup {Nobody}
    BY <1>1
  <2> QED BY <2>1 DEF To, Mail
<1> HIDE DEF n, ids, S
<1>4. Broadcast(m) \in Seq(S)
  BY <1>1, <1>2, <1>3
<1> QED BY <1>4, SeqMonotonic, ElementOfSeq DEF S

-----------------------------------------------------------------------------
(***************************************************************************)
(* The inductive invariant.                                                *)
(*                                                                         *)
(* RegistryFaithful is about clients that have their id.  It is kept only  *)
(* because the id that a client is given is the one the server has made    *)
(* for it, and a STOP removes the entry of nobody but the client that has  *)
(* sent it; so the invariant follows the INIT of every client from its     *)
(* request to its answer, and the STOP until the server takes it.          *)
(***************************************************************************)

\* The client has not asked for an id yet.
Fresh(c) == pc[c] = "off" \/ (pc[c] = "send" /\ request[c].type = "INIT")

\* The client has its id and has not sent STOP.
Holds(c) ==
  \/ pc[c] \in {"top", "reading", "await_list", "await_entity", "incoming_one", "incoming_all"}
  \/ pc[c] = "send" /\ request[c].type # "INIT"

\* The client has asked for its id and has not got it.
Waits(c) == pc[c] \in {"await_init", "crashed"}

\* The client has sent STOP, or will never send anything again.
Leaves(c) == pc[c] \in {"remove", "stopped", "crashed"}

Owns(c, id) == id \in Known /\ client_data[id] = c

Unregistered(c) == this_id[c] = -1 /\ \A id \in Known : client_data[id] # c

\* The server has registered the client, and the client does not know it yet.
Newcomer(c, id) == Owns(c, id) /\ this_id[c] = -1 /\ Waits(c)

Leaver(c, id) == Owns(c, id) /\ this_id[c] = id /\ Leaves(c)

\* What a client is about to send is its own.
Sending ==
  /\ DOMAIN request = Client
  /\ \A c \in Client : pc[c] = "send" =>
       /\ request[c] \in Requests
       /\ request[c].type = "INIT" => request[c].from = c
       /\ request[c].type \in {"STOP", "LIST"} => request[c].id = this_id[c]
       /\ request[c].type = "TO_ONE" => request[c].target \in 0..MaxId

\* The loop of list() waits only for entries that are still to come.
Counting == \A c \in Client : pc[c] = "await_entity" => num_clients[c] > 0

FreshOnes == \A c \in Client : Fresh(c) => Unregistered(c)

Holders == \A c \in Client : Holds(c) => Owns(c, this_id[c])

Asks(c, k) == server_queue[k].type = "INIT" /\ server_queue[k].from = c

\* A client whose INIT waits in the server's queue has no id, and no second INIT.
Asking ==
  \A c \in Client : \A k \in 1..Len(server_queue) : Asks(c, k) =>
    /\ Unregistered(c) /\ Waits(c)
    /\ \A j \in 1..Len(server_queue) : Asks(c, j) => j = k

Stops(id, k) == server_queue[k].type = "STOP" /\ server_queue[k].id = id

\* A STOP that waits in the server's queue is for an entry whose client has
\* left, and the only one for this entry.
Stopping ==
  \A id \in Ids : \A k \in 1..Len(server_queue) : Stops(id, k) =>
    /\ \E c \in Client : Leaver(c, id)
    /\ \A j \in 1..Len(server_queue) : Stops(id, j) => j = k

\* The id in a client's queue is the one it is registered under.
Welcomed ==
  \A c \in Client : \A k \in 1..Len(queue[c]) : queue[c][k].type = "INIT" =>
    /\ Newcomer(c, queue[c][k].id)
    /\ \A j \in 1..Len(queue[c]) : queue[c][j].type = "INIT" => j = k

\* So is the id that the server is sending.
Welcoming ==
  \A k \in 1..Len(outbox) : outbox[k].msg.type = "INIT" =>
    /\ Len(outbox) = 1
    /\ outbox[k].to \in Client
    /\ Newcomer(outbox[k].to, outbox[k].msg.id)
    /\ \A j \in 1..Len(queue[outbox[k].to]) : queue[outbox[k].to][j].type # "INIT"

OneId == \A i, j \in Known : client_data[i] = client_data[j] /\ i # j => client_data[i] = Nobody

\* The clients whose INIT the server has taken or will never take.
Admitted == {c \in Client : ~Fresh(c) /\ \A k \in 1..Len(server_queue) : ~Asks(c, k)}

IdsSoFar == 0..(MaxId + Cardinality(Admitted))

\* Every admitted client has made the ids grow by one at most.
Grown ==
  /\ Known \subseteq IdsSoFar
  /\ \A k \in 1..Len(server_queue) :
       /\ server_queue[k].type = "LIST" => server_queue[k].id \in IdsSoFar
       /\ server_queue[k].type = "TO_ONE" => server_queue[k].target \in 0..MaxId

Registry == /\ FreshOnes /\ Holders /\ Asking /\ Stopping
            /\ Welcomed /\ Welcoming /\ OneId /\ Grown

IInv == TypeOK /\ Sending /\ Counting /\ Registry

-----------------------------------------------------------------------------
(***************************************************************************)
(* The messages.                                                           *)
(***************************************************************************)

\* What a request holds depends on its type; a text is also an answer.
LEMMA RequestFields ==
  ASSUME NEW m \in Requests
  PROVE  /\ m.type \in {"INIT", "STOP", "LIST", "TO_ONE", "TO_ALL"}
         /\ m.type = "INIT" => m.from \in Client
         /\ m.type \in {"STOP", "LIST"} => m.id \in Ids
         /\ m.type = "TO_ONE" => m.target \in Ids
         /\ m.type \in {"TO_ONE", "TO_ALL"} => m \in Answers
BY DEF Requests, Answers

\* What an answer holds depends on its type.
LEMMA AnswerFields ==
  ASSUME NEW m \in Answers
  PROVE  /\ m.type \in {"INIT", "LIST", "LIST_ENTITY", "TO_ONE", "TO_ALL"}
         /\ m.type = "INIT" => m.id \in Ids
         /\ m.type = "LIST" => m.num \in 0..Cardinality(Ids)
BY DEF Answers

\* The requests that the clients make.
LEMMA RequestsMade ==
  /\ \A c \in Client : [type |-> "INIT", from |-> c] \in Requests
  /\ \A id \in Ids : [type |-> "STOP", id |-> id] \in Requests
  /\ \A id \in Ids : [type |-> "LIST", id |-> id] \in Requests
  /\ \A id \in Ids, t \in Texts : [type |-> "TO_ONE", target |-> id, text |-> t] \in Requests
  /\ \A t \in Texts : [type |-> "TO_ALL", text |-> t] \in Requests
BY DEF Requests

\* The answer to INIT.
LEMMA IdIsAnswer == \A id \in Ids : [type |-> "INIT", id |-> id] \in Answers
BY DEF Answers

-----------------------------------------------------------------------------
(***************************************************************************)
(* The ids that there can be so far.                                       *)
(***************************************************************************)

\* They are ids.
LEMMA IdsSoFarBounded ==
  /\ Admitted \subseteq Client /\ IsFiniteSet(Admitted)
  /\ Cardinality(Admitted) \in Nat
  /\ IdsSoFar \subseteq Ids
<1>1. Admitted \in SUBSET Client
  BY DEF Admitted
<1>2. IsFiniteSet(Client)
  BY ChatAssumption
<1>3. IsFiniteSet(Admitted) /\ Cardinality(Admitted) <= Cardinality(Client)
  BY <1>1, <1>2, FS_Subset
<1>4. Cardinality(Admitted) \in Nat
  BY <1>3, FS_CardinalityType
<1>5. IdsSoFar \subseteq Ids
  BY <1>3, <1>4, IdsBounded DEF IdsSoFar, Ids
<1> QED BY <1>1, <1>3, <1>4, <1>5

LEMMA IdsSoFarBoundedNext ==
  /\ Admitted' \subseteq Client /\ IsFiniteSet(Admitted')
  /\ Cardinality(Admitted') \in Nat
  /\ IdsSoFar' \subseteq Ids
<1>1. Admitted' \in SUBSET Client
  BY DEF Admitted
<1>2. IsFiniteSet(Client)
  BY ChatAssumption
<1>3. IsFiniteSet(Admitted') /\ Cardinality(Admitted') <= Cardinality(Client)
  BY <1>1, <1>2, FS_Subset
<1>4. Cardinality(Admitted') \in Nat
  BY <1>3, FS_CardinalityType
<1>5. IdsSoFar' = 0..(MaxId + Cardinality(Admitted'))
  BY DEF IdsSoFar
<1>6. IdsSoFar' \subseteq Ids
  BY <1>3, <1>4, <1>5, IdsBounded DEF Ids
<1> QED BY <1>1, <1>3, <1>4, <1>6

\* They do not become fewer when no client becomes unadmitted.
LEMMA IdsSoFarGrow ==
  ASSUME Admitted \subseteq Admitted'
  PROVE  IdsSoFar \subseteq IdsSoFar'
<1>1. Cardinality(Admitted) <= Cardinality(Admitted')
  BY IdsSoFarBoundedNext, FS_Subset
<1> QED BY <1>1, IdsSoFarBounded, IdsSoFarBoundedNext, IdsBounded DEF IdsSoFar

-----------------------------------------------------------------------------
(***************************************************************************)
(* The steps that leave the registry as it is.                             *)
(***************************************************************************)

\* A client's queue keeps its messages or some of them, in their order.
Thinner(c) ==
  \/ queue'[c] = queue[c]
  \/ queue'[c] = <<>>
  \/ \E type \in {"INIT", "LIST", "LIST_ENTITY", "TO_ONE", "TO_ALL"} :
       Has(queue[c], type) /\ queue'[c] = Taken(queue[c], type)

\* The server has sent a message or has lost it, or has not.
OutboxShrinks == outbox' = outbox \/ (outbox # <<>> /\ outbox' = Tail(outbox))

\* No id changes hands, and no client goes back to what it has done before.
Calm ==
  /\ client_data' = client_data
  /\ this_id' = this_id
  /\ server_queue' \in {server_queue, <<>>}
  /\ OutboxShrinks
  /\ \A c \in Client :
       /\ Fresh(c)' => Fresh(c)
       /\ Holds(c)' => Holds(c)
       /\ Waits(c) => Waits(c)'
       /\ Leaves(c) => Leaves(c)'
       /\ Thinner(c)

\* The INITs of a thinner queue come from the queue before.
LEMMA ThinnerQueue ==
  ASSUME TypeOK, NEW c \in Client, Thinner(c)
  PROVE  \E at \in [1..Len(queue'[c]) -> 1..Len(queue[c])] :
           /\ \A k \in 1..Len(queue'[c]) : queue'[c][k] = queue[c][at[k]]
           /\ \A j, k \in 1..Len(queue'[c]) : at[j] = at[k] => j = k
<1> DEFINE q == queue[c]
           r == queue'[c]
<1>1. q \in Seq(Answers) /\ Len(q) \in Nat
  BY LenProperties DEF TypeOK
<1>2. CASE r = q
  <2> DEFINE at == [k \in 1..Len(q) |-> k]
  <2> HIDE DEF q, r
  <2>1. at \in [1..Len(r) -> 1..Len(q)]
    BY <1>1, <1>2
  <2>2. /\ \A k \in 1..Len(r) : r[k] = q[at[k]]
        /\ \A j, k \in 1..Len(r) : at[j] = at[k] => j = k
    BY <1>1, <1>2
  <2> HIDE DEF at
  <2>3. \E a \in [1..Len(r) -> 1..Len(q)] :
           /\ \A k \in 1..Len(r) : r[k] = q[a[k]]
           /\ \A j, k \in 1..Len(r) : a[j] = a[k] => j = k
    BY <2>1, <2>2
  <2> QED BY <2>3 DEF q, r
<1>3. CASE r = <<>>
  <2> DEFINE at == [k \in 1..0 |-> k]
  <2>1. Len(r) = 0
    BY <1>3, EmptySeq
  <2> HIDE DEF q, r
  <2>2. at \in [1..Len(r) -> 1..Len(q)]
    BY <2>1
  <2>3. \A k \in 1..Len(r) : FALSE
    BY <2>1
  <2> HIDE DEF at
  <2>4. \E a \in [1..Len(r) -> 1..Len(q)] :
           /\ \A k \in 1..Len(r) : r[k] = q[a[k]]
           /\ \A j, k \in 1..Len(r) : a[j] = a[k] => j = k
    BY <2>2, <2>3
  <2> QED BY <2>4 DEF q, r
<1>4. CASE \E type \in {"INIT", "LIST", "LIST_ENTITY", "TO_ONE", "TO_ALL"} :
             Has(q, type) /\ r = Taken(q, type)
  <2>1. PICK type : Has(q, type) /\ r = Taken(q, type)
    BY <1>4
  <2> DEFINE f == FirstOf(q, type)
             at == [k \in 1..Len(r) |-> Before(k, f)]
  <2> HIDE DEF q, r
  <2>2. f \in 1..Len(q)
    BY <1>1, <2>1, FirstOfFinds
  <2>3. \A k \in 1..Len(r) : Before(k, f) \in 1..Len(q) /\ r[k] = q[Before(k, f)]
    BY <1>1, <2>1, TakenLeaves
  <2>4. Len(r) \in Nat
    BY <1>1, <2>1, <2>2, TakenLeaves
  <2> HIDE DEF f
  <2>5. at \in [1..Len(r) -> 1..Len(q)]
    BY <2>3
  <2>6. ASSUME NEW j \in 1..Len(r), NEW k \in 1..Len(r), at[j] = at[k]
        PROVE  j = k
    BY <2>2, <2>6, BeforeInjective
  <2>7. \A k \in 1..Len(r) : r[k] = q[at[k]]
    BY <2>3
  <2> HIDE DEF at
  <2>8. \E a \in [1..Len(r) -> 1..Len(q)] :
           /\ \A k \in 1..Len(r) : r[k] = q[a[k]]
           /\ \A j, k \in 1..Len(r) : a[j] = a[k] => j = k
    BY <2>5, <2>6, <2>7
  <2> QED BY <2>8 DEF q, r
<1> QED BY <1>2, <1>3, <1>4 DEF Thinner

\* Calm steps keep what the invariant says of the registry.
LEMMA CalmKeepsRegistry ==
  ASSUME TypeOK, Registry, Calm
  PROVE  Registry'
<1> USE DEF Calm
<1>1. Known' = Known
  BY DEF Known
<1>2. /\ \A c \in Client : \A id : Owns(c, id) => Owns(c, id)'
      /\ \A c \in Client : Unregistered(c) => Unregistered(c)'
  BY <1>1 DEF Owns, Unregistered
<1>3. /\ \A c \in Client : \A id : Newcomer(c, id) => Newcomer(c, id)'
      /\ \A c \in Client : \A id : Leaver(c, id) => Leaver(c, id)'
  BY <1>2 DEF Newcomer, Leaver
<1>4. Len(server_queue') \in Nat /\ 1..Len(server_queue') \subseteq 1..Len(server_queue)
      /\ \A k \in 1..Len(server_queue') : server_queue'[k] = server_queue[k]
  BY LenProperties, EmptySeq DEF TypeOK
<1>5. FreshOnes'
  BY <1>2 DEF Registry, FreshOnes
<1>6. Holders'
  BY <1>2 DEF Registry, Holders
<1>7. Asking'
  BY <1>2, <1>4 DEF Registry, Asking, Asks
<1>8. Stopping'
  BY <1>3, <1>4 DEF Registry, Stopping, Stops
<1>9. Welcomed'
  <2> SUFFICES ASSUME NEW c \in Client, NEW k \in 1..Len(queue'[c]), queue'[c][k].type = "INIT"
               PROVE  /\ Newcomer(c, queue[c][k].id)'
                      /\ \A j \in 1..Len(queue'[c]) : queue'[c][j].type = "INIT" => j = k
    BY DEF Welcomed
  <2>1. PICK at \in [1..Len(queue'[c]) -> 1..Len(queue[c])] :
           /\ \A i \in 1..Len(queue'[c]) : queue'[c][i] = queue[c][at[i]]
           /\ \A i, j \in 1..Len(queue'[c]) : at[i] = at[j] => i = j
    BY ThinnerQueue
  <2>2. at[k] \in 1..Len(queue[c]) /\ queue[c][at[k]] = queue'[c][k]
    BY <2>1
  <2>3. /\ Newcomer(c, queue[c][at[k]].id)
        /\ \A j \in 1..Len(queue[c]) : queue[c][j].type = "INIT" => j = at[k]
    BY <2>2 DEF Registry, Welcomed
  <2>4. Newcomer(c, queue[c][k].id)'
    <3>1. PICK id : id = queue[c][at[k]].id /\ id = queue'[c][k].id
      BY <2>2
    <3>2. Newcomer(c, id)'
      BY <1>3, <2>3, <3>1
    <3> QED BY <3>1, <3>2 DEF Newcomer, Owns, Waits
  <2>5. ASSUME NEW j \in 1..Len(queue'[c]), queue'[c][j].type = "INIT" PROVE j = k
    <3>1. at[j] \in 1..Len(queue[c]) /\ queue[c][at[j]].type = "INIT"
      BY <2>1, <2>5
    <3>2. at[j] = at[k]
      BY <2>3, <3>1
    <3> QED BY <2>1, <3>2
  <2> QED BY <2>4, <2>5
<1>10. Welcoming'
  <2> SUFFICES ASSUME NEW k \in 1..Len(outbox'), outbox'[k].msg.type = "INIT"
               PROVE  /\ Len(outbox') = 1
                      /\ outbox'[k].to \in Client
                      /\ Newcomer(outbox[k].to, outbox[k].msg.id)'
                      /\ \A j \in 1..Len(queue'[outbox'[k].to]) :
                           queue'[outbox'[k].to][j].type # "INIT"
    BY DEF Welcoming
  <2>1. outbox' = outbox
    <3>1. SUFFICES ASSUME outbox # <<>>, outbox' = Tail(outbox) PROVE FALSE
      BY DEF OutboxShrinks
    <3>2. /\ Len(outbox) \in Nat /\ Len(outbox') = Len(outbox) - 1
          /\ outbox'[k] = outbox[k + 1]
      BY <3>1, HeadTailProperties, LenProperties DEF TypeOK
    <3>3. k + 1 \in 1..Len(outbox) /\ outbox[k + 1].msg.type = "INIT"
      BY <3>2
    <3>4. Len(outbox) = 1
      BY <3>3 DEF Registry, Welcoming
    <3> QED BY <3>2, <3>4
  <2>2. PICK c \in Client : c = outbox[k].to
    BY <2>1 DEF Registry, Welcoming
  <2>3. /\ Len(outbox) = 1
        /\ Newcomer(c, outbox[k].msg.id)
        /\ \A j \in 1..Len(queue[c]) : queue[c][j].type # "INIT"
    BY <2>1, <2>2 DEF Registry, Welcoming
  <2>4. PICK at \in [1..Len(queue'[c]) -> 1..Len(queue[c])] :
           \A i \in 1..Len(queue'[c]) : queue'[c][i] = queue[c][at[i]]
    BY ThinnerQueue
  <2>5. \A j \in 1..Len(queue'[c]) : queue'[c][j].type # "INIT"
    BY <2>3, <2>4
  <2>6. Newcomer(outbox[k].to, outbox[k].msg.id)'
    <3>1. PICK id : id = outbox[k].msg.id
      OBVIOUS
    <3>2. Newcomer(c, id)'
      BY <1>3, <2>3, <3>1
    <3>3. c = outbox'[k].to /\ id = outbox'[k].msg.id
      BY <2>1, <2>2, <3>1
    <3> QED BY <3>2, <3>3 DEF Newcomer, Owns, Waits
  <2>7. /\ Len(outbox') = 1 /\ outbox'[k].to = c
        /\ \A j \in 1..Len(queue'[c]) : queue'[c][j].type # "INIT"
    BY <2>1, <2>2, <2>3, <2>5
  <2> QED BY <2>6, <2>7
<1>11. OneId'
  BY <1>1 DEF Registry, OneId
<1>12. Grown'
  <2>1. Admitted \subseteq Admitted'
    BY <1>4 DEF Admitted, Asks
  <2>2. IdsSoFar \subseteq IdsSoFar'
    BY <2>1, IdsSoFarGrow
  <2> QED BY <1>1, <1>4, <2>2 DEF Registry, Grown
<1> QED BY <1>5, <1>6, <1>7, <1>8, <1>9, <1>10, <1>11, <1>12 DEF Registry

-----------------------------------------------------------------------------
(***************************************************************************)
(* The handlers of the server.                                             *)
(***************************************************************************)

\* What the server has taken is gone, and what stays keeps its order.
LEMMA RequestTaken ==
  ASSUME TypeOK, NEW type, Takes(type)
  PROVE  /\ phase = type /\ outbox = <<>>
         /\ FirstOf(server_queue, type) \in 1..Len(server_queue)
         /\ Request = server_queue[FirstOf(server_queue, type)]
         /\ Request \in Requests /\ Request.type = type
         /\ server_queue' \in Seq(Requests)
         /\ Len(server_queue') <= QueueSize
         /\ \E at \in [1..Len(server_queue') -> 1..Len(server_queue) \ {FirstOf(server_queue, type)}] :
              /\ \A k \in 1..Len(server_queue') : server_queue'[k] = server_queue[at[k]]
              /\ \A j, k \in 1..Len(server_queue') : at[j] = at[k] => j = k
<1> DEFINE q == server_queue
           r == server_queue'
           f == FirstOf(q, type)
           at == [k \in 1..Len(r) |-> Before(k, f)]
<1>1. q \in Seq(Requests) /\ Len(q) \in Nat /\ Len(q) <= QueueSize
  BY LenProperties DEF TypeOK
<1>2. phase = type /\ outbox = <<>> /\ Has(q, type) /\ r = Taken(q, type)
  BY DEF Takes
<1>3. f \in 1..Len(q) /\ q[f].type = type
  BY <1>1, <1>2, FirstOfFinds
<1>4. Request = q[f]
  BY <1>2 DEF Request
<1> HIDE DEF q, r
<1>5. /\ r \in Seq(Requests) /\ Len(r) = Len(q) - 1
      /\ \A k \in 1..Len(r) : Before(k, f) \in 1..Len(q) \ {f} /\ r[k] = q[Before(k, f)]
  BY <1>1, <1>2, TakenLeaves
<1>6. q[f] \in Requests
  BY <1>1, <1>3, ElementOfSeq
<1>7. Len(r) <= QueueSize
  BY <1>1, <1>5, ChatAssumption
<1> HIDE DEF f
<1>8. at \in [1..Len(r) -> 1..Len(q) \ {f}]
  BY <1>5
<1>9. ASSUME NEW j \in 1..Len(r), NEW k \in 1..Len(r), at[j] = at[k]
      PROVE  j = k
  BY <1>3, <1>9, BeforeInjective
<1>10. \A k \in 1..Len(r) : r[k] = q[at[k]]
  BY <1>5
<1> HIDE DEF at
<1>11. \E a \in [1..Len(r) -> 1..Len(q) \ {f}] :
         /\ \A k \in 1..Len(r) : r[k] = q[a[k]]
         /\ \A j, k \in 1..Len(r) : a[j] = a[k] => j = k
  BY <1>8, <1>9, <1>10
<1> QED BY <1>2, <1>3, <1>4, <1>5, <1>6, <1>7, <1>11 DEF q, r, f

\* A handler that registers and removes nobody leaves every client as it is; it
\* may make up an entry.
LEMMA AnswerKeepsRegistry ==
  ASSUME TypeOK, Registry, NEW type, Takes(type),
         Known \subseteq Known',
         \A i \in Known : client_data'[i] = client_data[i],
         \A i \in Known' \ Known : client_data'[i] = Nobody,
         Known' \subseteq IdsSoFar,
         \A k \in 1..Len(outbox') : outbox'[k].msg.type # "INIT"
  PROVE  Registry'
<1>1. PICK at \in [1..Len(server_queue') -> 1..Len(server_queue)] :
         /\ \A k \in 1..Len(server_queue') : server_queue'[k] = server_queue[at[k]]
         /\ \A j, k \in 1..Len(server_queue') : at[j] = at[k] => j = k
  BY RequestTaken
<1>2. UNCHANGED <<pc, request, this_id, queue>>
  BY DEF Takes, clientVars, localVars
<1>3. \A c \in Client : c # Nobody
  BY ChatAssumption
<1>4. /\ \A c \in Client : \A id : Owns(c, id) => Owns(c, id)'
      /\ \A c \in Client : Unregistered(c) => Unregistered(c)'
  BY <1>2, <1>3 DEF Owns, Unregistered
<1>5. \A c \in Client : /\ Fresh(c)' <=> Fresh(c)
                        /\ Holds(c)' <=> Holds(c)
                        /\ Waits(c)' <=> Waits(c)
                        /\ Leaves(c)' <=> Leaves(c)
  BY <1>2 DEF Fresh, Holds, Waits, Leaves
<1>6. /\ \A c \in Client : \A id : Newcomer(c, id) => Newcomer(c, id)'
      /\ \A c \in Client : \A id : Leaver(c, id) => Leaver(c, id)'
  BY <1>2, <1>4, <1>5 DEF Newcomer, Leaver
<1>7. FreshOnes'
  BY <1>4, <1>5 DEF Registry, FreshOnes
<1>8. Holders'
  BY <1>2, <1>4, <1>5 DEF Registry, Holders
<1>9. Asking'
  <2> SUFFICES ASSUME NEW c \in Client, NEW k \in 1..Len(server_queue'), Asks(c, k)'
               PROVE  /\ Unregistered(c)' /\ Waits(c)'
                      /\ \A j \in 1..Len(server_queue') : Asks(c, j)' => j = k
    BY DEF Asking
  <2>1. \A j \in 1..Len(server_queue') : Asks(c, j)' => at[j] \in 1..Len(server_queue) /\ Asks(c, at[j])
    BY <1>1 DEF Asks
  <2>2. /\ Unregistered(c) /\ Waits(c)
        /\ \A j \in 1..Len(server_queue) : Asks(c, j) => j = at[k]
    BY <2>1 DEF Registry, Asking
  <2> QED BY <1>1, <1>4, <1>5, <2>1, <2>2
<1>10. Stopping'
  <2> SUFFICES ASSUME NEW id \in Ids, NEW k \in 1..Len(server_queue'), Stops(id, k)'
               PROVE  /\ \E c \in Client : Leaver(c, id)'
                      /\ \A j \in 1..Len(server_queue') : Stops(id, j)' => j = k
    BY DEF Stopping
  <2>1. \A j \in 1..Len(server_queue') : Stops(id, j)' => at[j] \in 1..Len(server_queue) /\ Stops(id, at[j])
    BY <1>1 DEF Stops
  <2>2. /\ \E c \in Client : Leaver(c, id)
        /\ \A j \in 1..Len(server_queue) : Stops(id, j) => j = at[k]
    BY <2>1 DEF Registry, Stopping
  <2> QED BY <1>1, <1>6, <2>1, <2>2
<1>11. Welcomed'
  <2> SUFFICES ASSUME NEW c \in Client, NEW k \in 1..Len(queue[c]), queue[c][k].type = "INIT"
               PROVE  /\ Newcomer(c, queue[c][k].id)'
                      /\ \A j \in 1..Len(queue[c]) : queue[c][j].type = "INIT" => j = k
    BY <1>2 DEF Welcomed
  <2>1. PICK id : id = queue[c][k].id
    OBVIOUS
  <2>2. /\ Newcomer(c, id)
        /\ \A j \in 1..Len(queue[c]) : queue[c][j].type = "INIT" => j = k
    BY <2>1 DEF Registry, Welcomed
  <2>3. Newcomer(c, id)' /\ queue' = queue
    BY <1>2, <1>6, <2>2
  <2> QED BY <2>1, <2>2, <2>3 DEF Newcomer, Owns, Waits
<1>12. Welcoming'
  BY DEF Welcoming
<1>13. OneId'
  BY DEF Registry, OneId
<1>14. Grown'
  <2>1. Admitted \subseteq Admitted'
    BY <1>1, <1>5 DEF Admitted, Asks
  <2>2. IdsSoFar \subseteq IdsSoFar'
    BY <2>1, IdsSoFarGrow
  <2> QED BY <1>1, <2>2 DEF Registry, Grown
<1> QED BY <1>7, <1>8, <1>9, <1>10, <1>11, <1>12, <1>13, <1>14 DEF Registry

\* The server removes the entry of the client that has sent the STOP.
LEMMA DeregisterKeepsRegistry ==
  ASSUME TypeOK, Registry, deregisterTerminatedClients
  PROVE  Registry'
<1> DEFINE id == Request.id
           f == FirstOf(server_queue, "STOP")
<1>1. Takes("STOP") /\ client_data' = Without(id) /\ outbox' = outbox
  BY DEF deregisterTerminatedClients
<1>2. PICK at \in [1..Len(server_queue') -> 1..Len(server_queue) \ {f}] :
         /\ \A k \in 1..Len(server_queue') : server_queue'[k] = server_queue[at[k]]
         /\ \A j, k \in 1..Len(server_queue') : at[j] = at[k] => j = k
  BY <1>1, RequestTaken
<1>3. /\ outbox = <<>> /\ f \in 1..Len(server_queue)
      /\ id \in Ids /\ Stops(id, f)
  BY <1>1, RequestTaken, RequestFields DEF Stops
<1>4. UNCHANGED <<pc, request, this_id, queue>>
  BY <1>1 DEF Takes, clientVars, localVars
<1>5. /\ \A j \in 1..Len(server_queue) : Stops(id, j) => j = f
      /\ \E c \in Client : Leaver(c, id)
  BY <1>3 DEF Registry, Stopping
<1>6. PICK c0 \in Client : Leaver(c0, id)
  BY <1>5
<1> HIDE DEF id, f
<1>7. Known' = Known \ {id} /\ \A i \in Known' : client_data'[i] = client_data[i]
  BY <1>1 DEF Known, Without
<1>8. id # -1
  BY <1>3, IdsBounded
<1>9. /\ \A c \in Client : \A i : Owns(c, i) /\ i # id => Owns(c, i)'
      /\ \A c \in Client : Unregistered(c) => Unregistered(c)'
  BY <1>4, <1>7 DEF Owns, Unregistered
<1>10. \A c \in Client : /\ Fresh(c)' <=> Fresh(c)
                         /\ Holds(c)' <=> Holds(c)
                         /\ Waits(c)' <=> Waits(c)
                         /\ Leaves(c)' <=> Leaves(c)
  BY <1>4 DEF Fresh, Holds, Waits, Leaves
<1>11. \A c \in Client : \A i : Newcomer(c, i) => Newcomer(c, i)'
  <2> SUFFICES ASSUME NEW c \in Client, NEW i, Newcomer(c, i) PROVE Newcomer(c, i)'
    OBVIOUS
  <2>1. i # id
    BY <1>6, <1>8 DEF Newcomer, Leaver, Owns
  <2> QED BY <1>4, <1>9, <1>10, <2>1 DEF Newcomer
<1>12. \A c \in Client : \A i : Leaver(c, i) /\ i # id => Leaver(c, i)'
  BY <1>4, <1>9, <1>10 DEF Leaver
<1>13. FreshOnes'
  BY <1>9, <1>10 DEF Registry, FreshOnes
<1>14. Holders'
  <2> SUFFICES ASSUME NEW c \in Client, Holds(c) PROVE Owns(c, this_id[c])'
    BY <1>10 DEF Holders
  <2>1. Owns(c, this_id[c])
    BY DEF Registry, Holders
  <2>2. ~Leaves(c)
    BY DEF Holds, Leaves
  <2>3. this_id[c] # id
    BY <1>6, <2>1, <2>2 DEF Leaver, Owns
  <2> QED BY <1>4, <1>9, <2>1, <2>3
<1>15. Asking'
  <2> SUFFICES ASSUME NEW c \in Client, NEW k \in 1..Len(server_queue'), Asks(c, k)'
               PROVE  /\ Unregistered(c)' /\ Waits(c)'
                      /\ \A j \in 1..Len(server_queue') : Asks(c, j)' => j = k
    BY DEF Asking
  <2>1. \A j \in 1..Len(server_queue') : Asks(c, j)' => at[j] \in 1..Len(server_queue) /\ Asks(c, at[j])
    BY <1>2 DEF Asks
  <2>2. /\ Unregistered(c) /\ Waits(c)
        /\ \A j \in 1..Len(server_queue) : Asks(c, j) => j = at[k]
    BY <2>1 DEF Registry, Asking
  <2> QED BY <1>2, <1>9, <1>10, <2>1, <2>2
<1>16. Stopping'
  <2> SUFFICES ASSUME NEW i \in Ids, NEW k \in 1..Len(server_queue'), Stops(i, k)'
               PROVE  /\ \E c \in Client : Leaver(c, i)'
                      /\ \A j \in 1..Len(server_queue') : Stops(i, j)' => j = k
    BY DEF Stopping
  <2>1. \A j \in 1..Len(server_queue') :
          Stops(i, j)' => at[j] \in 1..Len(server_queue) \ {f} /\ Stops(i, at[j])
    BY <1>2 DEF Stops
  <2>2. i # id
    BY <1>5, <2>1
  <2>3. /\ \E c \in Client : Leaver(c, i)
        /\ \A j \in 1..Len(server_queue) : Stops(i, j) => j = at[k]
    BY <2>1 DEF Registry, Stopping
  <2> QED BY <1>2, <1>12, <2>1, <2>2, <2>3
<1>17. Welcomed'
  <2> SUFFICES ASSUME NEW c \in Client, NEW k \in 1..Len(queue[c]), queue[c][k].type = "INIT"
               PROVE  /\ Newcomer(c, queue[c][k].id)'
                      /\ \A j \in 1..Len(queue[c]) : queue[c][j].type = "INIT" => j = k
    BY <1>4 DEF Welcomed
  <2>1. PICK i : i = queue[c][k].id
    OBVIOUS
  <2>2. /\ Newcomer(c, i)
        /\ \A j \in 1..Len(queue[c]) : queue[c][j].type = "INIT" => j = k
    BY <2>1 DEF Registry, Welcomed
  <2>3. Newcomer(c, i)' /\ queue' = queue
    BY <1>4, <1>11, <2>2
  <2> QED BY <2>1, <2>2, <2>3 DEF Newcomer, Owns, Waits
<1>18. Welcoming'
  <2>1. Len(outbox') = 0
    BY <1>1, <1>3, EmptySeq
  <2> QED BY <2>1 DEF Welcoming
<1>19. OneId'
  BY <1>7 DEF Registry, OneId
<1>20. Grown'
  <2>1. Admitted \subseteq Admitted'
    BY <1>2, <1>10 DEF Admitted, Asks
  <2>2. IdsSoFar \subseteq IdsSoFar'
    BY <2>1, IdsSoFarGrow
  <2> QED BY <1>2, <1>7, <2>2 DEF Registry, Grown
<1> QED BY <1>13, <1>14, <1>15, <1>16, <1>17, <1>18, <1>19, <1>20 DEF Registry

\* The id the server makes up is in nobody's hands, and the next one at most.
LEMMA NewIdIsNew ==
  ASSUME NEW n \in Nat, Known \subseteq 0..n
  PROVE  NewId \notin Known /\ NewId \in 0..(n + 1)
<1>1. CASE Known = {}
  BY <1>1 DEF NewId
<1>2. CASE Known # {}
  <2>1. PICK m \in Known : m = Max(Known) /\ \A i \in Known : i <= m
    BY <1>2, MaxIsGreatest
  <2>2. m \in 0..n /\ \A i \in Known : i # m + 1
    BY <2>1
  <2>3. NewId = m + 1
    BY <1>2, <2>1 DEF NewId
  <2> QED BY <2>2, <2>3
<1> QED BY <1>1, <1>2

\* The server registers the client that has sent the INIT under an id of its own.
LEMMA RegisterKeepsRegistry ==
  ASSUME TypeOK, Registry, registerNewClients
  PROVE  Registry' /\ NewId \in Ids
<1> DEFINE f == FirstOf(server_queue, "INIT")
<1>1. PICK c0 \in Client : c0 = Request.from
  BY RequestTaken, RequestFields DEF registerNewClients
<1>2. PICK new : new = NewId
  OBVIOUS
<1>3. /\ Takes("INIT")
      /\ client_data' = [i \in Known \cup {new} |-> IF i = new THEN c0 ELSE client_data[i]]
      /\ outbox' = <<To(c0, [type |-> "INIT", id |-> new])>>
  BY <1>1, <1>2 DEF registerNewClients
<1>4. PICK at \in [1..Len(server_queue') -> 1..Len(server_queue) \ {f}] :
         /\ \A k \in 1..Len(server_queue') : server_queue'[k] = server_queue[at[k]]
         /\ \A j, k \in 1..Len(server_queue') : at[j] = at[k] => j = k
  BY <1>3, RequestTaken
<1>5. f \in 1..Len(server_queue) /\ Asks(c0, f)
  BY <1>1, <1>3, RequestTaken DEF Asks
<1>6. UNCHANGED <<pc, request, this_id, queue>>
  BY <1>3 DEF Takes, clientVars, localVars
<1>7. /\ Unregistered(c0) /\ Waits(c0)
      /\ \A j \in 1..Len(server_queue) : Asks(c0, j) => j = f
  BY <1>5 DEF Registry, Asking
<1>8. new \notin Known /\ new \in 0..(MaxId + Cardinality(Admitted) + 1)
  <2> DEFINE n == MaxId + Cardinality(Admitted)
  <2>1. n \in Nat
    BY IdsSoFarBounded, IdsBounded
  <2>2. Known \subseteq 0..n
    BY DEF Registry, Grown, IdsSoFar
  <2> HIDE DEF n
  <2>3. new \notin Known /\ new \in 0..(n + 1)
    BY <1>2, <2>1, <2>2, NewIdIsNew
  <2> QED BY <2>3 DEF n
<1> HIDE DEF f
<1>9. /\ Known' = Known \cup {new} /\ client_data'[new] = c0
      /\ \A i \in Known : client_data'[i] = client_data[i]
  BY <1>3, <1>8 DEF Known
<1>10. /\ \A c \in Client : \A i : Owns(c, i) => Owns(c, i)'
       /\ \A c \in Client : Unregistered(c) /\ c # c0 => Unregistered(c)'
  BY <1>6, <1>9 DEF Owns, Unregistered
<1>11. \A c \in Client : /\ Fresh(c)' <=> Fresh(c)
                         /\ Holds(c)' <=> Holds(c)
                         /\ Waits(c)' <=> Waits(c)
                         /\ Leaves(c)' <=> Leaves(c)
  BY <1>6 DEF Fresh, Holds, Waits, Leaves
<1>12. /\ \A c \in Client : \A i : Newcomer(c, i) => Newcomer(c, i)'
       /\ \A c \in Client : \A i : Leaver(c, i) => Leaver(c, i)'
  BY <1>6, <1>10, <1>11 DEF Newcomer, Leaver
<1>13. ~Fresh(c0)
  BY <1>7 DEF Waits, Fresh
<1>14. FreshOnes'
  BY <1>10, <1>11, <1>13 DEF Registry, FreshOnes
<1>15. Holders'
  BY <1>6, <1>10, <1>11 DEF Registry, Holders
<1>16. Asking'
  <2> SUFFICES ASSUME NEW c \in Client, NEW k \in 1..Len(server_queue'), Asks(c, k)'
               PROVE  /\ Unregistered(c)' /\ Waits(c)'
                      /\ \A j \in 1..Len(server_queue') : Asks(c, j)' => j = k
    BY DEF Asking
  <2>1. \A j \in 1..Len(server_queue') :
          Asks(c, j)' => at[j] \in 1..Len(server_queue) \ {f} /\ Asks(c, at[j])
    BY <1>4 DEF Asks
  <2>2. c # c0
    BY <1>7, <2>1
  <2>3. /\ Unregistered(c) /\ Waits(c)
        /\ \A j \in 1..Len(server_queue) : Asks(c, j) => j = at[k]
    BY <2>1 DEF Registry, Asking
  <2> QED BY <1>4, <1>10, <1>11, <2>1, <2>2, <2>3
<1>17. Stopping'
  <2> SUFFICES ASSUME NEW i \in Ids, NEW k \in 1..Len(server_queue'), Stops(i, k)'
               PROVE  /\ \E c \in Client : Leaver(c, i)'
                      /\ \A j \in 1..Len(server_queue') : Stops(i, j)' => j = k
    BY DEF Stopping
  <2>1. \A j \in 1..Len(server_queue') : Stops(i, j)' => at[j] \in 1..Len(server_queue) /\ Stops(i, at[j])
    BY <1>4 DEF Stops
  <2>2. /\ \E c \in Client : Leaver(c, i)
        /\ \A j \in 1..Len(server_queue) : Stops(i, j) => j = at[k]
    BY <2>1 DEF Registry, Stopping
  <2> QED BY <1>4, <1>12, <2>1, <2>2
<1>18. Welcomed'
  <2> SUFFICES ASSUME NEW c \in Client, NEW k \in 1..Len(queue[c]), queue[c][k].type = "INIT"
               PROVE  /\ Newcomer(c, queue[c][k].id)'
                      /\ \A j \in 1..Len(queue[c]) : queue[c][j].type = "INIT" => j = k
    BY <1>6 DEF Welcomed
  <2>1. PICK i : i = queue[c][k].id
    OBVIOUS
  <2>2. /\ Newcomer(c, i)
        /\ \A j \in 1..Len(queue[c]) : queue[c][j].type = "INIT" => j = k
    BY <2>1 DEF Registry, Welcomed
  <2>3. Newcomer(c, i)' /\ queue' = queue
    BY <1>6, <1>12, <2>2
  <2> QED BY <2>1, <2>2, <2>3 DEF Newcomer, Owns, Waits
<1>19. Welcoming'
  <2>1. /\ Len(outbox') = 1
        /\ \A k \in 1..Len(outbox') : outbox'[k].to = c0 /\ outbox'[k].msg.id = new
    BY <1>3 DEF To
  <2>2. Owns(c0, new)' /\ this_id'[c0] = -1 /\ Waits(c0)'
    BY <1>6, <1>7, <1>9 DEF Owns, Unregistered, Waits
  <2>3. \A j \in 1..Len(queue[c0]) : queue[c0][j].type # "INIT"
    BY <1>5, <1>7 DEF Registry, Welcomed, Newcomer, Owns, Unregistered
  <2> QED BY <1>5, <1>6, <2>1, <2>2, <2>3 DEF Welcoming, Newcomer, Owns, Waits
<1>20. OneId'
  <2>1. \A i \in Known : client_data[i] # c0
    BY <1>7 DEF Unregistered
  <2> QED BY <1>9, <2>1 DEF Registry, OneId
<1>21. Admitted \cup {c0} \subseteq Admitted' /\ c0 \notin Admitted
  <2>1. \A k \in 1..Len(server_queue') : ~Asks(c0, k)'
    BY <1>4, <1>7 DEF Asks
  <2>2. c0 \in Admitted'
    BY <1>5, <1>11, <1>13, <2>1 DEF Admitted
  <2>3. Admitted \subseteq Admitted'
    BY <1>4, <1>11 DEF Admitted, Asks
  <2>4. c0 \notin Admitted
    BY <1>5 DEF Admitted
  <2> QED BY <2>2, <2>3, <2>4
<1>22. 0..(MaxId + Cardinality(Admitted) + 1) \subseteq IdsSoFar'
  <2>1. Cardinality(Admitted \cup {c0}) = Cardinality(Admitted) + 1
    BY <1>21, IdsSoFarBounded, FS_AddElement
  <2>2. Cardinality(Admitted \cup {c0}) <= Cardinality(Admitted')
    BY <1>21, IdsSoFarBoundedNext, FS_Subset
  <2> QED BY <2>1, <2>2, IdsSoFarBounded, IdsSoFarBoundedNext, IdsBounded DEF IdsSoFar
<1>23. Grown'
  <2>1. IdsSoFar \subseteq IdsSoFar'
    BY <1>21, IdsSoFarGrow
  <2>2. Known' \subseteq IdsSoFar'
    <3>1. Known \subseteq IdsSoFar
      BY DEF Registry, Grown
    <3> QED BY <1>8, <1>9, <1>22, <2>1, <3>1
  <2>3. \A k \in 1..Len(server_queue') :
          /\ server_queue'[k].type = "LIST" => server_queue'[k].id \in IdsSoFar'
          /\ server_queue'[k].type = "TO_ONE" => server_queue'[k].target \in 0..MaxId
    BY <1>4, <2>1 DEF Registry, Grown
  <2> QED BY <2>2, <2>3 DEF Grown
<1>24. new \in Ids
  BY <1>8, <1>22, IdsSoFarBoundedNext
<1> QED BY <1>2, <1>14, <1>15, <1>16, <1>17, <1>18, <1>19, <1>20, <1>23, <1>24 DEF Registry

\* The id that the server sends reaches the client it is for; nothing else of
\* the registry is in what it sends.
LEMMA SendKeepsRegistry ==
  ASSUME TypeOK, Registry, Send
  PROVE  Registry'
<1>1. UNCHANGED <<client_data, server_queue, pc, this_id, request>>
      /\ outbox # <<>> /\ outbox' = Tail(outbox)
  BY DEF Send, clientVars, localVars
<1>2. PICK c0 : c0 = Head(outbox).to
  OBVIOUS
<1>3. PICK m : m = Head(outbox).msg
  OBVIOUS
<1>4. /\ outbox \in Seq(Mail) /\ Len(outbox) \in Nat \ {0}
      /\ Head(outbox) = outbox[1]
      /\ Len(outbox') = Len(outbox) - 1
      /\ \A k \in 1..Len(outbox') : outbox'[k] = outbox[k + 1]
  <2>1. outbox \in Seq(Mail)
    BY DEF TypeOK, Mail
  <2> QED BY <1>1, <2>1, HeadTailProperties, EmptySeq
<1>5. c0 \in Client \cup {Nobody} /\ m \in Answers /\ outbox[1].to = c0 /\ outbox[1].msg = m
  <2>1. 1 \in 1..Len(outbox)
    BY <1>4
  <2>2. outbox[1] \in Mail
    BY <1>4, <2>1, ElementOfSeq
  <2>3. outbox[1].to = c0 /\ outbox[1].msg = m
    BY <1>2, <1>3, <1>4
  <2> QED BY <2>2, <2>3 DEF Mail
<1>6. CASE ~QueueExists(c0)
  <2>1. Calm
    BY <1>1, <1>2, <1>6 DEF Calm, Send, OutboxShrinks, Thinner, Fresh, Holds, Waits, Leaves
  <2> QED BY <2>1, CalmKeepsRegistry
<1>7. CASE QueueExists(c0)
  <2>1. c0 \in Client /\ queue' = [queue EXCEPT ![c0] = Append(@, m)]
    BY <1>2, <1>3, <1>5, <1>7 DEF QueueExists, Send
  <2>2. queue \in [Client -> Seq(Answers)]
    BY DEF TypeOK
  <2>3. \A c \in Client : c # c0 => queue'[c] = queue[c]
    BY <2>1, <2>2
  <2>4. /\ Len(queue'[c0]) = Len(queue[c0]) + 1
        /\ \A k \in 1..Len(queue'[c0]) :
             \/ k = Len(queue[c0]) + 1 /\ queue'[c0][k] = m
             \/ k \in 1..Len(queue[c0]) /\ queue'[c0][k] = queue[c0][k]
    <3>1. queue'[c0] = Append(queue[c0], m) /\ queue[c0] \in Seq(Answers)
      BY <2>1, <2>2
    <3> QED BY <1>5, <3>1, AppendAdds
  <2>5. FreshOnes'
    BY <1>1 DEF Registry, FreshOnes, Fresh, Unregistered, Known
  <2>6. Holders'
    BY <1>1 DEF Registry, Holders, Holds, Owns, Known
  <2>7. Asking'
    BY <1>1 DEF Registry, Asking, Asks, Unregistered, Waits, Known
  <2>8. Stopping'
    BY <1>1 DEF Registry, Stopping, Stops, Leaver, Owns, Leaves, Known
  <2>9. \A c \in Client : \A id : Newcomer(c, id) => Newcomer(c, id)'
    BY <1>1 DEF Newcomer, Owns, Waits, Known
  <2>10. m.type = "INIT" =>
           /\ Len(outbox) = 1
           /\ Newcomer(c0, m.id)
           /\ \A j \in 1..Len(queue[c0]) : queue[c0][j].type # "INIT"
    <3>1. 1 \in 1..Len(outbox) /\ outbox[1].to = c0 /\ outbox[1].msg = m
      BY <1>4, <1>5
    <3> QED BY <3>1 DEF Registry, Welcoming
  <2>11. Welcomed'
    <3> SUFFICES ASSUME NEW c \in Client, NEW k \in 1..Len(queue'[c]), queue'[c][k].type = "INIT"
                 PROVE  /\ Newcomer(c, queue[c][k].id)'
                        /\ \A j \in 1..Len(queue'[c]) : queue'[c][j].type = "INIT" => j = k
      BY DEF Welcomed
    <3>1. PICK id : id = queue'[c][k].id
      OBVIOUS
    <3>2. Newcomer(c, id) /\ \A j \in 1..Len(queue'[c]) : queue'[c][j].type = "INIT" => j = k
      <4>1. CASE c # c0
        BY <2>3, <3>1, <4>1 DEF Registry, Welcomed
      <4>2. CASE c = c0 /\ m.type # "INIT"
        BY <2>4, <3>1, <4>2 DEF Registry, Welcomed
      <4>3. CASE c = c0 /\ m.type = "INIT"
        BY <2>4, <2>10, <3>1, <4>3
      <4> QED BY <4>1, <4>2, <4>3
    <3>3. Newcomer(c, id)'
      BY <2>9, <3>2
    <3> QED BY <3>1, <3>2, <3>3 DEF Newcomer, Owns, Waits
  <2>12. Welcoming'
    <3> SUFFICES ASSUME NEW k \in 1..Len(outbox'), outbox'[k].msg.type = "INIT" PROVE FALSE
      BY DEF Welcoming
    <3>1. k + 1 \in 1..Len(outbox) /\ outbox[k + 1].msg.type = "INIT"
      BY <1>4
    <3>2. Len(outbox) = 1
      BY <3>1 DEF Registry, Welcoming
    <3> QED BY <1>4, <3>2
  <2>13. OneId'
    BY <1>1 DEF Registry, OneId, Known
  <2>14. Grown'
    BY <1>1 DEF Registry, Grown, IdsSoFar, Admitted, Asks, Fresh, Known
  <2> QED BY <2>5, <2>6, <2>7, <2>8, <2>11, <2>12, <2>13, <2>14 DEF Registry
<1> QED BY <1>6, <1>7

-----------------------------------------------------------------------------
(***************************************************************************)
(* The clients' requests and their ids.                                    *)
(***************************************************************************)

\* What a client does after msgsnd.
LEMMA AfterSendIs ==
  /\ AfterSend("INIT") = "await_init"
  /\ AfterSend("LIST") = "await_list"
  /\ AfterSend("STOP") = "remove"
  /\ AfterSend("TO_ONE") = "top"
  /\ AfterSend("TO_ALL") = "top"
BY DEF AfterSend

\* A client that goes on after msgsnd keeps or gives up its id.
LEMMA SentMovesOn ==
  ASSUME TypeOK, Sending, NEW c \in Client, pc[c] = "send",
         Goto(c, AfterSend(request[c].type)), request' = request
  PROVE  /\ pc'[c] = AfterSend(request[c].type)
         /\ request[c].type = "INIT" <=> pc'[c] = "await_init"
         /\ request[c].type = "LIST" <=> pc'[c] = "await_list"
         /\ request[c].type = "STOP" <=> pc'[c] = "remove"
         /\ request[c].type \in {"TO_ONE", "TO_ALL"} <=> pc'[c] = "top"
         /\ \A d \in Client : /\ Fresh(d)' => Fresh(d) /\ d # c
                              /\ Holds(d)' => Holds(d)
                              /\ Waits(d) => Waits(d)' /\ d # c
                              /\ Leaves(d) => Leaves(d)' /\ d # c
<1>1. request[c].type \in {"INIT", "STOP", "LIST", "TO_ONE", "TO_ALL"}
  BY RequestFields DEF Sending
<1>2. pc'[c] = AfterSend(request[c].type) /\ \A d \in Client : d # c => pc'[d] = pc[d]
  BY DEF Goto, TypeOK
<1>3. /\ request[c].type = "INIT" <=> pc'[c] = "await_init"
      /\ request[c].type = "LIST" <=> pc'[c] = "await_list"
      /\ request[c].type = "STOP" <=> pc'[c] = "remove"
      /\ request[c].type \in {"TO_ONE", "TO_ALL"} <=> pc'[c] = "top"
      /\ pc'[c] \in {"await_init", "await_list", "remove", "top"}
  BY <1>1, <1>2, AfterSendIs
<1>4. ASSUME NEW d \in Client
      PROVE  /\ Fresh(d)' => Fresh(d) /\ d # c
             /\ Holds(d)' => Holds(d)
             /\ Waits(d) => Waits(d)' /\ d # c
             /\ Leaves(d) => Leaves(d)' /\ d # c
  <2>1. CASE d = c
    BY <1>3, <2>1 DEF Fresh, Holds, Waits, Leaves
  <2>2. CASE d # c
    BY <1>2, <2>2 DEF Fresh, Holds, Waits, Leaves
  <2> QED BY <2>1, <2>2
<1> QED BY <1>2, <1>3, <1>4

\* A client's request finds the registry as the invariant says, and its INIT or
\* STOP is the first in the server's queue.
LEMMA SendRequestKeepsRegistry ==
  ASSUME TypeOK, Sending, Registry, NEW c \in Client, SendRequest(c)
  PROVE  Registry'
<1> DEFINE m == request[c]
<1>1. /\ pc[c] = "send" /\ Goto(c, AfterSend(m.type))
      /\ UNCHANGED <<client_data, outbox, this_id, request, queue>>
  BY DEF SendRequest, serverVars, localVars
<1>2. /\ m.type = "INIT" <=> pc'[c] = "await_init"
      /\ m.type = "STOP" <=> pc'[c] = "remove"
      /\ \A d \in Client : /\ Fresh(d)' => Fresh(d) /\ d # c
                           /\ Holds(d)' => Holds(d)
                           /\ Waits(d) => Waits(d)' /\ d # c
                           /\ Leaves(d) => Leaves(d)' /\ d # c
  BY <1>1, SentMovesOn
<1>3. CASE phase = "down"
  <2>1. Calm
    BY <1>1, <1>2, <1>3 DEF Calm, SendRequest, OutboxShrinks, Thinner
  <2> QED BY <2>1, CalmKeepsRegistry
<1>4. CASE phase # "down"
  <2>1. m \in Requests
    BY <1>1 DEF Sending
  <2>2. /\ Len(server_queue') = Len(server_queue) + 1 /\ Len(server_queue) \in Nat
        /\ \A k \in 1..Len(server_queue') :
             \/ k = Len(server_queue) + 1 /\ server_queue'[k] = m
             \/ k \in 1..Len(server_queue) /\ server_queue'[k] = server_queue[k]
    <3>1. server_queue' = Append(server_queue, m)
      BY <1>4 DEF SendRequest
    <3>2. server_queue \in Seq(Requests)
      BY DEF TypeOK
    <3> QED BY <2>1, <3>1, <3>2, AppendAdds, LenProperties
  <2>3. /\ m.type = "INIT" => m.from = c
        /\ m.type \in {"STOP", "LIST"} => m.id = this_id[c]
        /\ m.type = "TO_ONE" => m.target \in 0..MaxId
    BY <1>1 DEF Sending
  <2>4. /\ m.type = "INIT" => Unregistered(c)
        /\ m.type # "INIT" => Owns(c, this_id[c])
    BY <1>1 DEF Registry, FreshOnes, Fresh, Holders, Holds
  <2> HIDE DEF m
  <2>5. /\ \A d \in Client : \A id : Owns(d, id)' <=> Owns(d, id)
        /\ \A d \in Client : Unregistered(d)' <=> Unregistered(d)
    BY <1>1 DEF Owns, Unregistered, Known
  <2>6. /\ \A d \in Client : \A id : Newcomer(d, id) => Newcomer(d, id)'
        /\ \A d \in Client : \A id : Leaver(d, id) => Leaver(d, id)' /\ d # c
    BY <1>1, <1>2, <2>5 DEF Newcomer, Leaver
  <2>7. FreshOnes'
    BY <1>2, <2>5 DEF Registry, FreshOnes
  <2>8. Holders'
    BY <1>1, <1>2, <2>5 DEF Registry, Holders
  <2>9. Asking'
    <3> SUFFICES ASSUME NEW d \in Client, NEW k \in 1..Len(server_queue'), Asks(d, k)'
                 PROVE  /\ Unregistered(d)' /\ Waits(d)'
                        /\ \A j \in 1..Len(server_queue') : Asks(d, j)' => j = k
      BY DEF Asking
    <3>1. CASE d # c
      <4>1. \A j \in 1..Len(server_queue') : Asks(d, j)' => j \in 1..Len(server_queue) /\ Asks(d, j)
        BY <2>2, <2>3, <3>1 DEF Asks
      <4>2. /\ Unregistered(d) /\ Waits(d)
            /\ \A j \in 1..Len(server_queue) : Asks(d, j) => j = k
        BY <4>1 DEF Registry, Asking
      <4> QED BY <1>2, <2>5, <4>1, <4>2
    <3>2. CASE d = c
      <4>1. \A j \in 1..Len(server_queue) : ~Asks(c, j)
        BY <1>2 DEF Registry, Asking
      <4>2. \A j \in 1..Len(server_queue') : Asks(c, j)' => j = Len(server_queue) + 1 /\ m.type = "INIT"
        BY <2>2, <4>1 DEF Asks
      <4>3. Unregistered(c)' /\ Waits(c)'
        BY <1>2, <2>4, <2>5, <3>2, <4>2 DEF Waits
      <4> QED BY <3>2, <4>2, <4>3
    <3> QED BY <3>1, <3>2
  <2>10. Stopping'
    <3> SUFFICES ASSUME NEW id \in Ids, NEW k \in 1..Len(server_queue'), Stops(id, k)'
                 PROVE  /\ \E d \in Client : Leaver(d, id)'
                        /\ \A j \in 1..Len(server_queue') : Stops(id, j)' => j = k
      BY DEF Stopping
    <3>1. CASE m.type = "STOP" /\ id = this_id[c]
      <4>1. \A j \in 1..Len(server_queue) : ~Stops(id, j)
        <5> SUFFICES ASSUME NEW j \in 1..Len(server_queue), Stops(id, j) PROVE FALSE
          OBVIOUS
        <5>1. PICK d \in Client : Leaver(d, id)
          BY DEF Registry, Stopping
        <5>2. d = c
          BY <2>4, <3>1, <5>1 DEF Leaver, Owns
        <5> QED BY <2>6, <5>1, <5>2
      <4>2. \A j \in 1..Len(server_queue') : Stops(id, j)' => j = Len(server_queue) + 1
        BY <2>2, <4>1 DEF Stops
      <4>3. Leaver(c, id)'
        BY <1>1, <1>2, <2>4, <2>5, <3>1 DEF Leaver, Leaves
      <4> QED BY <4>2, <4>3
    <3>2. CASE ~(m.type = "STOP" /\ id = this_id[c])
      <4>1. \A j \in 1..Len(server_queue') : Stops(id, j)' => j \in 1..Len(server_queue) /\ Stops(id, j)
        BY <2>2, <2>3, <3>2 DEF Stops
      <4>2. /\ \E d \in Client : Leaver(d, id)
            /\ \A j \in 1..Len(server_queue) : Stops(id, j) => j = k
        BY <4>1 DEF Registry, Stopping
      <4> QED BY <2>6, <4>1, <4>2
    <3> QED BY <3>1, <3>2
  <2>11. Welcomed'
    <3> SUFFICES ASSUME NEW d \in Client, NEW k \in 1..Len(queue[d]), queue[d][k].type = "INIT"
                 PROVE  /\ Newcomer(d, queue[d][k].id)'
                        /\ \A j \in 1..Len(queue[d]) : queue[d][j].type = "INIT" => j = k
      BY <1>1 DEF Welcomed
    <3>1. PICK i : i = queue[d][k].id
      OBVIOUS
    <3>2. /\ Newcomer(d, i)
          /\ \A j \in 1..Len(queue[d]) : queue[d][j].type = "INIT" => j = k
      BY <3>1 DEF Registry, Welcomed
    <3>3. Newcomer(d, i)' /\ queue' = queue
      BY <1>1, <2>6, <3>2
    <3> QED BY <3>1, <3>2, <3>3 DEF Newcomer, Owns, Waits
  <2>12. Welcoming'
    <3> SUFFICES ASSUME NEW k \in 1..Len(outbox), outbox[k].msg.type = "INIT"
                 PROVE  /\ Len(outbox) = 1 /\ outbox[k].to \in Client
                        /\ Newcomer(outbox[k].to, outbox[k].msg.id)'
                        /\ \A j \in 1..Len(queue[outbox[k].to]) :
                             queue[outbox[k].to][j].type # "INIT"
      BY <1>1 DEF Welcoming
    <3>1. /\ Len(outbox) = 1 /\ outbox[k].to \in Client
          /\ Newcomer(outbox[k].to, outbox[k].msg.id)
          /\ \A j \in 1..Len(queue[outbox[k].to]) : queue[outbox[k].to][j].type # "INIT"
      BY DEF Registry, Welcoming
    <3>2. PICK d \in Client : d = outbox[k].to
      BY <3>1
    <3>3. PICK i : i = outbox[k].msg.id
      OBVIOUS
    <3>4. Newcomer(d, i)' /\ outbox' = outbox
      BY <1>1, <2>6, <3>1, <3>2, <3>3
    <3>5. Newcomer(outbox[k].to, outbox[k].msg.id)'
      BY <3>2, <3>3, <3>4 DEF Newcomer, Owns, Waits
    <3> QED BY <3>1, <3>5
  <2>13. OneId'
    BY <1>1 DEF Registry, OneId, Known
  <2>14. Grown'
    <3>1. Admitted \subseteq Admitted'
      <4> SUFFICES ASSUME NEW d \in Admitted PROVE d \in Admitted'
        OBVIOUS
      <4>1. d \in Client /\ ~Fresh(d)' /\ \A k \in 1..Len(server_queue) : ~Asks(d, k)
        BY <1>2 DEF Admitted
      <4>2. d = c => m.type # "INIT"
        BY <1>1 DEF Admitted, Fresh, m
      <4>3. \A k \in 1..Len(server_queue') : ~Asks(d, k)'
        BY <2>2, <2>3, <4>1, <4>2 DEF Asks
      <4> QED BY <4>1, <4>3 DEF Admitted
    <3>2. IdsSoFar \subseteq IdsSoFar'
      BY <3>1, IdsSoFarGrow
    <3>3. Known \subseteq IdsSoFar /\ Known' = Known
      BY <1>1 DEF Registry, Grown, Known
    <3>4. ASSUME NEW k \in 1..Len(server_queue')
          PROVE  /\ server_queue'[k].type = "LIST" => server_queue'[k].id \in IdsSoFar'
                 /\ server_queue'[k].type = "TO_ONE" => server_queue'[k].target \in 0..MaxId
      <4>1. CASE k = Len(server_queue) + 1 /\ server_queue'[k] = m
        BY <2>3, <2>4, <3>2, <3>3, <4>1 DEF Owns
      <4>2. CASE k \in 1..Len(server_queue) /\ server_queue'[k] = server_queue[k]
        BY <3>2, <4>2 DEF Registry, Grown
      <4> QED BY <2>2, <4>1, <4>2
    <3> QED BY <3>2, <3>3, <3>4 DEF Grown
  <2> QED BY <2>7, <2>8, <2>9, <2>10, <2>11, <2>12, <2>13, <2>14 DEF Registry
<1> QED BY <1>3, <1>4

\* A client that takes its id takes the one it is registered under.
LEMMA ReceiveIdKeepsRegistry ==
  ASSUME TypeOK, Registry, NEW c \in Client, ReceiveId(c)
  PROVE  Registry' /\ this_id'[c] \in Ids
<1> DEFINE q == queue[c]
           f == FirstOf(q, "INIT")
<1>1. PICK id : id = q[f].id
  OBVIOUS
<1>2. /\ pc[c] = "await_init" /\ Has(q, "INIT")
      /\ queue' = [queue EXCEPT ![c] = Taken(q, "INIT")]
      /\ this_id' = [this_id EXCEPT ![c] = id]
      /\ pc' = [pc EXCEPT ![c] = "top"]
      /\ UNCHANGED <<client_data, server_queue, outbox, request>>
  BY <1>1 DEF ReceiveId, Receive, Received, Goto, serverVars
<1>3. /\ this_id'[c] = id /\ pc'[c] = "top" /\ queue'[c] = Taken(q, "INIT")
      /\ \A d \in Client : d # c => /\ this_id'[d] = this_id[d]
                                    /\ pc'[d] = pc[d]
                                    /\ queue'[d] = queue[d]
  BY <1>2 DEF TypeOK
<1>4. /\ q \in Seq(Answers) /\ Len(q) \in Nat
      /\ f \in 1..Len(q) /\ q[f].type = "INIT"
  <2>1. q \in Seq(Answers) /\ Len(q) \in Nat
    BY LenProperties DEF TypeOK
  <2> HIDE DEF q
  <2> QED BY <1>2, <2>1, FirstOfFinds
<1>5. /\ Newcomer(c, id)
      /\ \A j \in 1..Len(q) : q[j].type = "INIT" => j = f
  BY <1>1, <1>4 DEF Registry, Welcomed
<1>6. \A k \in 1..Len(queue'[c]) : queue'[c][k].type # "INIT"
  <2> HIDE DEF q
  <2>1. \A k \in 1..Len(Taken(q, "INIT")) :
          Before(k, f) \in 1..Len(q) \ {f} /\ Taken(q, "INIT")[k] = q[Before(k, f)]
    BY <1>2, <1>4, TakenLeaves
  <2> QED BY <1>3, <1>5, <2>1
<1> HIDE DEF q, f
<1>7. Known \subseteq Ids /\ id \in Known /\ id # -1 /\ Owns(c, id) /\ this_id[c] = -1
  <2>1. Known \subseteq Ids
    BY DEF TypeOK
  <2> QED BY <1>5, <2>1, IdsBounded DEF Newcomer, Owns
<1>8. Known' = Known /\ client_data' = client_data
  BY <1>2 DEF Known
<1>9. \A d \in Client : d # c => /\ Fresh(d)' <=> Fresh(d)
                                 /\ Holds(d)' <=> Holds(d)
                                 /\ Waits(d)' <=> Waits(d)
                                 /\ Leaves(d)' <=> Leaves(d)
  BY <1>2, <1>3 DEF Fresh, Holds, Waits, Leaves
<1>10. /\ ~Fresh(c)' /\ ~Fresh(c) /\ Holds(c)'
  BY <1>2, <1>3 DEF Fresh, Holds
<1>11. /\ \A d \in Client : \A i : Owns(d, i)' <=> Owns(d, i)
       /\ \A d \in Client : d # c => (Unregistered(d)' <=> Unregistered(d))
       /\ ~Unregistered(c)
  BY <1>3, <1>7, <1>8 DEF Owns, Unregistered
<1>12. /\ \A d \in Client : \A i : d # c /\ Newcomer(d, i) => Newcomer(d, i)'
       /\ \A d \in Client : \A i : d # c /\ Leaver(d, i) => Leaver(d, i)'
  BY <1>3, <1>9, <1>11 DEF Newcomer, Leaver
<1>13. FreshOnes'
  BY <1>9, <1>10, <1>11 DEF Registry, FreshOnes
<1>14. Holders'
  <2> SUFFICES ASSUME NEW d \in Client, Holds(d)' PROVE Owns(d, this_id[d])'
    BY DEF Holders
  <2>1. CASE d = c
    BY <1>3, <1>7, <1>8, <2>1 DEF Owns
  <2>2. CASE d # c
    <3>1. Owns(d, this_id[d])
      BY <1>9, <2>2 DEF Registry, Holders
    <3> QED BY <1>3, <1>8, <2>2, <3>1 DEF Owns
  <2> QED BY <2>1, <2>2
<1>15. Asking'
  <2> SUFFICES ASSUME NEW d \in Client, NEW k \in 1..Len(server_queue), Asks(d, k)
               PROVE  /\ Unregistered(d)' /\ Waits(d)'
                      /\ \A j \in 1..Len(server_queue) : Asks(d, j) => j = k
    BY <1>2 DEF Asking, Asks
  <2>1. /\ Unregistered(d) /\ Waits(d)
        /\ \A j \in 1..Len(server_queue) : Asks(d, j) => j = k
    BY DEF Registry, Asking
  <2>2. d # c
    BY <1>11, <2>1
  <2> QED BY <1>9, <1>11, <2>1, <2>2
<1>16. Stopping'
  <2> SUFFICES ASSUME NEW i \in Ids, NEW k \in 1..Len(server_queue), Stops(i, k)
               PROVE  /\ \E d \in Client : Leaver(d, i)'
                      /\ \A j \in 1..Len(server_queue) : Stops(i, j) => j = k
    BY <1>2 DEF Stopping, Stops
  <2>1. \A j \in 1..Len(server_queue) : Stops(i, j) => j = k
    BY DEF Registry, Stopping
  <2>2. PICK d \in Client : Leaver(d, i)
    BY DEF Registry, Stopping
  <2>3. d # c
    BY <1>7, <2>2, IdsBounded DEF Leaver
  <2> QED BY <1>12, <2>1, <2>2, <2>3
<1>17. Welcomed'
  <2> SUFFICES ASSUME NEW d \in Client, NEW k \in 1..Len(queue'[d]), queue'[d][k].type = "INIT"
               PROVE  /\ Newcomer(d, queue[d][k].id)'
                      /\ \A j \in 1..Len(queue'[d]) : queue'[d][j].type = "INIT" => j = k
    BY DEF Welcomed
  <2>1. d # c /\ queue'[d] = queue[d]
    BY <1>3, <1>6
  <2>2. PICK i : i = queue[d][k].id
    OBVIOUS
  <2>3. /\ Newcomer(d, i)
        /\ \A j \in 1..Len(queue[d]) : queue[d][j].type = "INIT" => j = k
    BY <2>1, <2>2 DEF Registry, Welcomed
  <2>4. Newcomer(d, i)'
    BY <1>12, <2>1, <2>3
  <2> QED BY <2>1, <2>2, <2>3, <2>4 DEF Newcomer, Owns, Waits
<1>18. Welcoming'
  <2> SUFFICES ASSUME NEW k \in 1..Len(outbox), outbox[k].msg.type = "INIT"
               PROVE  /\ Len(outbox) = 1 /\ outbox[k].to \in Client
                      /\ Newcomer(outbox[k].to, outbox[k].msg.id)'
                      /\ \A j \in 1..Len(queue'[outbox[k].to]) :
                           queue'[outbox[k].to][j].type # "INIT"
    BY <1>2 DEF Welcoming
  <2>1. /\ Len(outbox) = 1 /\ outbox[k].to \in Client
        /\ Newcomer(outbox[k].to, outbox[k].msg.id)
        /\ \A j \in 1..Len(queue[outbox[k].to]) : queue[outbox[k].to][j].type # "INIT"
    BY DEF Registry, Welcoming
  <2>2. PICK d \in Client : d = outbox[k].to
    BY <2>1
  <2>3. PICK i : i = outbox[k].msg.id
    OBVIOUS
  <2>4. d # c
    BY <1>4, <2>1, <2>2 DEF q
  <2>5. Newcomer(d, i)' /\ outbox' = outbox /\ queue'[d] = queue[d]
    BY <1>2, <1>3, <1>12, <2>1, <2>2, <2>3, <2>4
  <2>6. Newcomer(outbox[k].to, outbox[k].msg.id)'
    BY <2>2, <2>3, <2>5 DEF Newcomer, Owns, Waits
  <2> QED BY <2>1, <2>2, <2>5, <2>6
<1>19. OneId'
  BY <1>8 DEF Registry, OneId
<1>20. Grown'
  <2>1. Admitted \subseteq Admitted'
    BY <1>2, <1>9, <1>10 DEF Admitted, Asks
  <2>2. IdsSoFar \subseteq IdsSoFar'
    BY <2>1, IdsSoFarGrow
  <2> QED BY <1>2, <1>8, <2>2 DEF Registry, Grown
<1> QED BY <1>3, <1>7, <1>13, <1>14, <1>15, <1>16, <1>17, <1>18, <1>19, <1>20 DEF Registry

-----------------------------------------------------------------------------
(***************************************************************************)
(* The types, variable by variable.                                        *)
(***************************************************************************)

Places == {"off", "send", "await_init", "top", "reading", "await_list", "await_entity",
           "incoming_one", "incoming_all", "remove", "stopped", "crashed"}

RegistryTypes ==
  /\ phase \in {"top", "INIT", "STOP", "LIST", "TO_ONE", "TO_ALL", "terminate", "remove", "down"}
  /\ server_flag \in BOOLEAN
  /\ Known \subseteq Ids
  /\ \A id \in Known : client_data[id] \in Client \cup {Nobody}

ServerQueueTypes == server_queue \in Seq(Requests) /\ Len(server_queue) <= QueueSize

OutboxTypes == outbox \in Seq(Mail)

LocalTypes ==
  /\ pc \in [Client -> Places]
  /\ this_id \in [Client -> Ids \cup {-1}]
  /\ num_clients \in [Client -> 0..Cardinality(Ids)]
  /\ \A c \in Client : request[c] \in Requests \cup {NoMsg}
  /\ typed \in [Client -> 0..MaxCommands]

SignalTypes ==
  /\ interrupt_flag \in [Client -> BOOLEAN]
  /\ pending \subseteq Client
  /\ handled \subseteq Client

QueueTypes ==
  /\ queue \in [Client -> Seq(Answers)]
  /\ \A c \in Client : Len(queue[c]) <= QueueSize

LEMMA TypeParts ==
  TypeOK <=> /\ RegistryTypes /\ ServerQueueTypes /\ OutboxTypes
             /\ LocalTypes /\ SignalTypes /\ QueueTypes
BY DEF TypeOK, RegistryTypes, ServerQueueTypes, OutboxTypes, LocalTypes, SignalTypes, QueueTypes,
       Mail, Places

LEMMA TypePartsNext ==
  TypeOK' <=> /\ RegistryTypes' /\ ServerQueueTypes' /\ OutboxTypes'
              /\ LocalTypes' /\ SignalTypes' /\ QueueTypes'
BY DEF TypeOK, RegistryTypes, ServerQueueTypes, OutboxTypes, LocalTypes, SignalTypes, QueueTypes,
       Mail, Places

\* What a client knows and is about to do.
Locals == LocalTypes /\ Sending /\ Counting

\* A client that receives takes a message of the type it waits for.
LEMMA ReceiveTakes ==
  ASSUME TypeOK, NEW c \in Client,
         NEW type \in {"INIT", "LIST", "LIST_ENTITY", "TO_ONE", "TO_ALL"}, Receive(c, type)
  PROVE  /\ QueueTypes'
         /\ \A d \in Client : Thinner(d)
         /\ Received(c, type) \in Answers /\ Received(c, type).type = type
<1> DEFINE q == queue[c]
<1>1. q \in Seq(Answers) /\ Len(q) \in Nat /\ Len(q) <= QueueSize /\ queue \in [Client -> Seq(Answers)]
  BY LenProperties DEF TypeOK
<1>2. Has(q, type) /\ queue' = [queue EXCEPT ![c] = Taken(q, type)]
  BY DEF Receive
<1> HIDE DEF q
<1>3. FirstOf(q, type) \in 1..Len(q) /\ q[FirstOf(q, type)].type = type
  BY <1>1, <1>2, FirstOfFinds
<1>4. q[FirstOf(q, type)] \in Answers
  BY <1>1, <1>3, ElementOfSeq
<1>5. Taken(q, type) \in Seq(Answers) /\ Len(Taken(q, type)) = Len(q) - 1
  BY <1>1, <1>2, TakenLeaves
<1>6. queue'[c] = Taken(q, type) /\ \A d \in Client : d # c => queue'[d] = queue[d]
  BY <1>1, <1>2
<1>7. QueueTypes'
  <2>1. queue' \in [Client -> Seq(Answers)]
    BY <1>1, <1>2, <1>5
  <2>2. QueueSize \in Nat
    BY ChatAssumption
  <2>3. Len(queue'[c]) <= QueueSize
    BY <1>1, <1>5, <1>6, <2>2
  <2>4. \A d \in Client : d # c => Len(queue'[d]) <= QueueSize
    BY <1>6 DEF TypeOK
  <2> QED BY <2>1, <2>3, <2>4 DEF QueueTypes
<1>8. \A d \in Client : Thinner(d)
  BY <1>2, <1>6 DEF Thinner, q
<1> QED BY <1>3, <1>4, <1>7, <1>8 DEF Received, q

\* A client that goes to a place where it sends nothing.
LEMMA LocalsMove ==
  ASSUME Locals, NEW c \in Client, NEW l \in Places \ {"send"}, Goto(c, l),
         UNCHANGED <<this_id, request, typed>>,
         num_clients' \in [Client -> 0..Cardinality(Ids)],
         \A d \in Client : d # c => num_clients'[d] = num_clients[d],
         l = "await_entity" => num_clients'[c] > 0
  PROVE  Locals'
<1>1. /\ pc' \in [Client -> Places] /\ pc'[c] = l
      /\ \A d \in Client : d # c => pc'[d] = pc[d]
  BY DEF Locals, LocalTypes, Goto
<1>2. LocalTypes'
  BY <1>1 DEF Locals, LocalTypes
<1>3. Sending'
  BY <1>1 DEF Locals, Sending
<1>4. Counting'
  BY <1>1 DEF Locals, Counting
<1> QED BY <1>2, <1>3, <1>4 DEF Locals

\* The loop of list() with n entries still to come.
LEMMA LocalsExpect ==
  ASSUME Locals, NEW c \in Client, NEW n \in 0..Cardinality(Ids), Expect(c, n),
         UNCHANGED <<this_id, request, typed>>
  PROVE  Locals'
<1>1. /\ num_clients' = [num_clients EXCEPT ![c] = n]
      /\ Goto(c, IF n > 0 THEN "await_entity" ELSE "top")
  BY DEF Expect
<1>2. /\ num_clients' \in [Client -> 0..Cardinality(Ids)] /\ num_clients'[c] = n
      /\ \A d \in Client : d # c => num_clients'[d] = num_clients[d]
  BY <1>1 DEF Locals, LocalTypes
<1>3. CASE n > 0
  <2>1. Goto(c, "await_entity") /\ "await_entity" \in Places \ {"send"}
    BY <1>1, <1>3 DEF Places
  <2> QED BY <1>2, <1>3, <2>1, LocalsMove
<1>4. CASE ~(n > 0)
  <2>1. Goto(c, "top") /\ "top" \in Places \ {"send"}
    BY <1>1, <1>4 DEF Places
  <2> QED BY <1>2, <2>1, LocalsMove
<1> QED BY <1>3, <1>4

\* A client that is about to send a message of its own.
LEMMA LocalsAsk ==
  ASSUME Locals, NEW c \in Client, NEW m \in Requests, Ask(c, m),
         m.type = "INIT" => m.from = c,
         m.type \in {"STOP", "LIST"} => m.id = this_id[c],
         m.type = "TO_ONE" => m.target \in 0..MaxId,
         UNCHANGED this_id,
         typed' \in [Client -> 0..MaxCommands],
         num_clients' \in [Client -> 0..Cardinality(Ids)],
         \A d \in Client : d # c => num_clients'[d] = num_clients[d]
  PROVE  Locals'
<1>1. /\ pc' \in [Client -> Places] /\ pc'[c] = "send"
      /\ \A d \in Client : d # c => pc'[d] = pc[d]
  BY DEF Locals, LocalTypes, Ask, Goto, Places
<1>2. /\ DOMAIN request' = Client /\ request'[c] = m
      /\ \A d \in Client : d # c => request'[d] = request[d]
  BY DEF Locals, Sending, Ask
<1>3. LocalTypes'
  BY <1>1, <1>2 DEF Locals, LocalTypes
<1>4. Sending'
  BY <1>1, <1>2 DEF Locals, Sending
<1>5. Counting'
  BY <1>1 DEF Locals, Counting
<1> QED BY <1>3, <1>4, <1>5 DEF Locals

LEMMA LocalsStay ==
  ASSUME Locals, UNCHANGED <<pc, localVars>>
  PROVE  Locals'
<1>1. LocalTypes'
  BY DEF Locals, LocalTypes, localVars
<1>2. Sending'
  BY DEF Locals, Sending, localVars
<1>3. Counting'
  BY DEF Locals, Counting, localVars
<1> QED BY <1>1, <1>2, <1>3 DEF Locals

\* A client that has its id knows one of the ids.
LEMMA HolderId ==
  ASSUME TypeOK, Registry, NEW c \in Client, Holds(c)
  PROVE  this_id[c] \in Ids /\ this_id[c] \in 0..Cardinality(Ids)
<1>1. this_id[c] \in Known /\ Known \subseteq Ids
  BY DEF Registry, Holders, Owns, TypeOK
<1> QED BY <1>1, IdsBounded

\* A client that stays among those that have their id, or stops for good.
LEMMA MoveKeepsRegistry ==
  ASSUME TypeOK, Registry, NEW c \in Client, NEW l, Goto(c, l),
         UNCHANGED <<client_data, outbox, server_queue, this_id, request>>,
         \A d \in Client : Thinner(d),
         \/ l = "crashed"
         \/ Holds(c) /\ l \in {"top", "reading", "await_list", "await_entity",
                              "incoming_one", "incoming_all"}
         \/ pc[c] = "remove" /\ l = "stopped"
  PROVE  Registry'
<1>1. pc'[c] = l /\ \A d \in Client : d # c => pc'[d] = pc[d]
  BY DEF Goto, TypeOK
<1>2. ASSUME NEW d \in Client
      PROVE  /\ Fresh(d)' => Fresh(d)
             /\ Holds(d)' => Holds(d)
             /\ Waits(d) => Waits(d)'
             /\ Leaves(d) => Leaves(d)'
  <2>1. CASE d = c
    BY <1>1, <2>1 DEF Fresh, Holds, Waits, Leaves
  <2>2. CASE d # c
    BY <1>1, <2>2 DEF Fresh, Holds, Waits, Leaves
  <2> QED BY <2>1, <2>2
<1>3. Calm
  BY <1>2 DEF Calm, OutboxShrinks
<1> QED BY <1>3, CalmKeepsRegistry

\* So does a client that is about to send a request with the id it has, or an INIT
\* as its first one.
LEMMA AskKeepsRegistry ==
  ASSUME TypeOK, Sending, Registry, NEW c \in Client, NEW m, Ask(c, m),
         UNCHANGED <<client_data, outbox, server_queue, this_id, queue>>,
         \/ Holds(c) /\ m.type # "INIT"
         \/ pc[c] = "off" /\ m.type = "INIT"
  PROVE  Registry'
<1>1. /\ pc'[c] = "send" /\ request'[c] = m
      /\ \A d \in Client : d # c => pc'[d] = pc[d] /\ request'[d] = request[d]
  BY DEF Ask, Goto, TypeOK, Sending
<1>2. ASSUME NEW d \in Client
      PROVE  /\ Fresh(d)' => Fresh(d)
             /\ Holds(d)' => Holds(d)
             /\ Waits(d) => Waits(d)'
             /\ Leaves(d) => Leaves(d)'
  <2>1. CASE d = c
    BY <1>1, <2>1 DEF Fresh, Holds, Waits, Leaves
  <2>2. CASE d # c
    BY <1>1, <2>2 DEF Fresh, Holds, Waits, Leaves
  <2> QED BY <2>1, <2>2
<1>3. Calm
  BY <1>2 DEF Calm, OutboxShrinks, Thinner
<1> QED BY <1>3, CalmKeepsRegistry

\* The registry does not depend on what the client counts, types or is told by a
\* signal.
LEMMA StayKeepsRegistry ==
  ASSUME TypeOK, Registry, UNCHANGED <<client_data, outbox, server_queue, pc, this_id, request, queue>>
  PROVE  Registry'
<1>1. Calm
  BY DEF Calm, OutboxShrinks, Thinner, Fresh, Holds, Waits, Leaves
<1> QED BY <1>1, CalmKeepsRegistry

-----------------------------------------------------------------------------
(***************************************************************************)
(* Every step keeps the invariant.                                         *)
(***************************************************************************)

LEMMA InvariantParts ==
  IInv <=> /\ RegistryTypes /\ ServerQueueTypes /\ OutboxTypes /\ SignalTypes /\ QueueTypes
           /\ Locals /\ Registry
BY TypeParts DEF IInv, Locals

LEMMA InvariantPartsNext ==
  IInv' <=> /\ RegistryTypes' /\ ServerQueueTypes' /\ OutboxTypes' /\ SignalTypes' /\ QueueTypes'
            /\ Locals' /\ Registry'
BY TypePartsNext DEF IInv, Locals

LEMMA TypesStay ==
  ASSUME TypeOK
  PROVE  /\ UNCHANGED serverVars => RegistryTypes' /\ OutboxTypes'
         /\ UNCHANGED server_queue => ServerQueueTypes'
         /\ UNCHANGED queue => QueueTypes'
         /\ UNCHANGED signalVars => SignalTypes'
<1>1. RegistryTypes /\ ServerQueueTypes /\ OutboxTypes /\ SignalTypes /\ QueueTypes
  BY TypeParts
<1>2. UNCHANGED serverVars => RegistryTypes' /\ OutboxTypes'
  BY <1>1 DEF serverVars, RegistryTypes, OutboxTypes, Known
<1>3. UNCHANGED server_queue => ServerQueueTypes'
  BY <1>1 DEF ServerQueueTypes
<1>4. UNCHANGED queue => QueueTypes'
  BY <1>1 DEF QueueTypes
<1>5. UNCHANGED signalVars => SignalTypes'
  BY <1>1 DEF signalVars, SignalTypes
<1> QED BY <1>2, <1>3, <1>4, <1>5

\* The steps of a client's process.
LEMMA ProceedKeeps ==
  ASSUME IInv, NEW c \in Client, Proceed(c)
  PROVE  IInv'
<1>1. TypeOK /\ Locals /\ Sending /\ Registry /\ LocalTypes /\ Counting
  BY TypeParts DEF IInv, Locals
<1>2. RegistryTypes' /\ OutboxTypes' /\ SignalTypes'
  <2>1. UNCHANGED <<serverVars, signalVars>>
    BY DEF Proceed, SendRequest, ReceiveId, Receive, Top, ReceiveCount, ReceiveEntity, PrintOne,
           PrintAll, ShowNext, RemoveQueue
  <2> QED BY <1>1, <2>1, TypesStay
<1> DEFINE Rest == ServerQueueTypes' /\ QueueTypes' /\ Locals' /\ Registry'
<1>3. CASE SendRequest(c)
  <2>1. pc[c] = "send" /\ Goto(c, AfterSend(request[c].type)) /\ UNCHANGED <<localVars, queue>>
    BY <1>3 DEF SendRequest
  <2>2. request[c] \in Requests
    BY <1>1, <2>1 DEF Sending
  <2>3. ServerQueueTypes'
    <3>1. CASE phase = "down"
      BY <1>1, <1>3, <3>1, TypesStay DEF SendRequest
    <3>2. CASE phase # "down"
      <4>1. HasRoom(server_queue) /\ server_queue' = Append(server_queue, request[c])
        BY <1>3, <3>2 DEF SendRequest
      <4>2. server_queue \in Seq(Requests) /\ Len(server_queue) \in Nat /\ QueueSize \in Nat
        BY <1>1, LenProperties, ChatAssumption DEF TypeOK
      <4> QED BY <2>2, <4>1, <4>2, AppendAdds DEF ServerQueueTypes, HasRoom
    <3> QED BY <3>1, <3>2
  <2>4. Locals'
    <3>1. AfterSend(request[c].type) \in Places \ {"send"} /\ AfterSend(request[c].type) # "await_entity"
      BY <2>2, RequestFields, AfterSendIs DEF Places
    <3>2. num_clients' \in [Client -> 0..Cardinality(Ids)]
      BY <1>1, <2>1 DEF localVars, LocalTypes
    <3> HIDE DEF Goto
    <3> QED BY <1>1, <2>1, <3>1, <3>2, LocalsMove DEF localVars
  <2>5. Rest
    BY <1>1, <1>3, <2>1, <2>3, <2>4, TypesStay, SendRequestKeepsRegistry
  <2> QED BY <1>2, <2>5, InvariantPartsNext
<1>4. CASE ReceiveId(c)
  <2>1. /\ Receive(c, "INIT") /\ UNCHANGED <<server_queue, request, typed, num_clients>>
        /\ this_id' = [this_id EXCEPT ![c] = Received(c, "INIT").id] /\ Goto(c, "top")
    BY <1>4 DEF ReceiveId, Receive
  <2>2. Registry' /\ this_id'[c] \in Ids
    BY <1>1, <1>4, ReceiveIdKeepsRegistry
  <2>3. QueueTypes'
    BY <1>1, <2>1, ReceiveTakes
  <2>4. /\ this_id' \in [Client -> Ids \cup {-1}]
        /\ \A d \in Client : d # c => this_id'[d] = this_id[d]
    BY <1>1, <2>1, <2>2 DEF LocalTypes
  <2>5. /\ pc' \in [Client -> Places] /\ pc'[c] = "top"
        /\ \A d \in Client : d # c => pc'[d] = pc[d]
    BY <1>1, <2>1 DEF LocalTypes, Goto, Places
  <2>6. Locals'
    <3>1. LocalTypes'
      BY <1>1, <2>1, <2>4, <2>5 DEF LocalTypes
    <3>2. Sending'
      BY <1>1, <2>1, <2>4, <2>5 DEF Sending
    <3>3. Counting'
      BY <1>1, <2>1, <2>5 DEF Counting
    <3> QED BY <3>1, <3>2, <3>3 DEF Locals
  <2> QED BY <1>1, <1>2, <2>1, <2>2, <2>3, <2>6, TypesStay, InvariantPartsNext
<1>5. CASE Top(c)
  <2>1. pc[c] = "top" /\ Holds(c) /\ UNCHANGED <<serverVars, server_queue, this_id, num_clients, typed, queue>>
    BY <1>5 DEF Top, Holds
  <2>2. num_clients' \in [Client -> 0..Cardinality(Ids)] /\ typed' \in [Client -> 0..MaxCommands]
    BY <1>1, <2>1 DEF LocalTypes
  <2>3. CASE interrupt_flag[c]
    <3>1. PICK m : m = [type |-> "STOP", id |-> this_id[c]]
      OBVIOUS
    <3>2. Ask(c, m) /\ m \in Requests /\ m.type = "STOP" /\ m.id = this_id[c]
      BY <1>1, <1>5, <2>1, <2>3, <3>1, HolderId, RequestsMade DEF Top
    <3>3. Locals'
      BY <1>1, <2>1, <2>2, <3>2, LocalsAsk
    <3>4. Registry'
      BY <1>1, <2>1, <3>2, AskKeepsRegistry DEF serverVars
    <3> QED BY <1>1, <1>2, <2>1, <3>3, <3>4, TypesStay, InvariantPartsNext
  <2>4. CASE ~interrupt_flag[c]
    <3>1. Goto(c, "reading") /\ request' = request
      BY <1>5, <2>4 DEF Top
    <3>2. Locals'
      <4>1. "reading" \in Places \ {"send"}
        BY DEF Places
      <4> QED BY <1>1, <2>1, <2>2, <3>1, <4>1, LocalsMove
    <3>3. Registry'
      BY <1>1, <2>1, <3>1, MoveKeepsRegistry DEF serverVars, Thinner
    <3> QED BY <1>1, <1>2, <2>1, <3>2, <3>3, TypesStay, InvariantPartsNext
  <2> QED BY <2>3, <2>4
<1>6. CASE ReceiveCount(c)
  <2>1. /\ pc[c] = "await_list" /\ Holds(c) /\ Receive(c, "LIST")
        /\ UNCHANGED <<serverVars, server_queue, this_id, request, typed>>
    BY <1>6 DEF ReceiveCount, Receive, Holds
  <2>2. PICK n : n = Received(c, "LIST").num
    OBVIOUS
  <2>3. QueueTypes' /\ (\A d \in Client : Thinner(d)) /\ n \in 0..Cardinality(Ids)
    BY <1>1, <2>1, <2>2, ReceiveTakes, AnswerFields
  <2>4. Expect(c, n)
    BY <1>6, <2>2 DEF ReceiveCount
  <2>5. Locals'
    BY <1>1, <2>1, <2>3, <2>4, LocalsExpect
  <2>6. Registry'
    BY <1>1, <2>1, <2>3, <2>4, MoveKeepsRegistry DEF serverVars, Expect
  <2> QED BY <1>1, <1>2, <2>1, <2>3, <2>5, <2>6, TypesStay, InvariantPartsNext
<1>7. CASE ReceiveEntity(c)
  <2>1. /\ pc[c] = "await_entity" /\ Holds(c) /\ Receive(c, "LIST_ENTITY")
        /\ Expect(c, num_clients[c] - 1)
        /\ UNCHANGED <<serverVars, server_queue, this_id, request, typed>>
    BY <1>7 DEF ReceiveEntity, Receive, Holds
  <2>2. QueueTypes' /\ \A d \in Client : Thinner(d)
    BY <1>1, <2>1, ReceiveTakes
  <2>3. num_clients[c] - 1 \in 0..Cardinality(Ids)
    <3>1. num_clients[c] \in 0..Cardinality(Ids) /\ num_clients[c] > 0
      BY <1>1, <2>1 DEF LocalTypes, Counting
    <3> QED BY <3>1, IdsBounded
  <2>4. Locals'
    BY <1>1, <2>1, <2>3, LocalsExpect
  <2>5. Registry'
    BY <1>1, <2>1, <2>2, MoveKeepsRegistry DEF serverVars, Expect
  <2> QED BY <1>1, <1>2, <2>1, <2>2, <2>4, <2>5, TypesStay, InvariantPartsNext
<1>8. ASSUME NEW l \in {"incoming_one", "incoming_all"}, NEW type \in {"TO_ONE", "TO_ALL"},
             NEW next \in {"incoming_all", "top"}, ShowNext(c, l, type, next)
      PROVE  IInv'
  <2>1. /\ pc[c] = l /\ Holds(c)
        /\ UNCHANGED <<serverVars, server_queue, this_id, request, typed, num_clients>>
    BY <1>8 DEF ShowNext, Receive, Holds
  <2>2. num_clients' \in [Client -> 0..Cardinality(Ids)]
    BY <1>1, <2>1 DEF LocalTypes
  <2>3. QueueTypes' /\ \A d \in Client : Thinner(d)
    <3>1. CASE Has(queue[c], type)
      BY <1>1, <1>8, <3>1, ReceiveTakes DEF ShowNext
    <3>2. CASE ~Has(queue[c], type)
      BY <1>1, <1>8, <3>2, TypesStay DEF ShowNext, Thinner
    <3> QED BY <3>1, <3>2
  <2>4. Goto(c, l) \/ Goto(c, next)
    BY <1>1, <1>8, <2>1 DEF ShowNext, Goto, LocalTypes
  <2>5. Locals'
    <3>1. l \in Places \ {"send"} /\ next \in Places \ {"send"}
          /\ l # "await_entity" /\ next # "await_entity"
      BY DEF Places
    <3> QED BY <1>1, <2>1, <2>2, <2>4, <3>1, LocalsMove
  <2>6. Registry'
    BY <1>1, <2>1, <2>3, <2>4, MoveKeepsRegistry DEF serverVars
  <2> QED BY <1>1, <1>2, <2>1, <2>3, <2>5, <2>6, TypesStay, InvariantPartsNext
<1>9. CASE RemoveQueue(c)
  <2>1. /\ pc[c] = "remove" /\ queue' = [queue EXCEPT ![c] = <<>>] /\ Goto(c, "stopped")
        /\ UNCHANGED <<serverVars, server_queue, this_id, request, typed, num_clients>>
    BY <1>9 DEF RemoveQueue, localVars
  <2>2. num_clients' \in [Client -> 0..Cardinality(Ids)]
    BY <1>1, <2>1 DEF LocalTypes
  <2>3. /\ queue' \in [Client -> Seq(Answers)] /\ queue'[c] = <<>>
        /\ \A d \in Client : d # c => queue'[d] = queue[d]
    BY <1>1, <2>1, EmptySeq DEF TypeOK
  <2>4. QueueTypes'
    <3>1. Len(queue'[c]) = 0 /\ QueueSize \in Nat
      BY <2>3, EmptySeq, ChatAssumption
    <3>2. \A d \in Client : Len(queue[d]) <= QueueSize
      BY <1>1 DEF TypeOK
    <3> QED BY <2>3, <3>1, <3>2 DEF QueueTypes
  <2>5. \A d \in Client : Thinner(d)
    BY <2>3 DEF Thinner
  <2>6. Locals'
    <3>1. "stopped" \in Places \ {"send"}
      BY DEF Places
    <3> QED BY <1>1, <2>1, <2>2, <3>1, LocalsMove
  <2>7. Registry'
    BY <1>1, <2>1, <2>5, MoveKeepsRegistry DEF serverVars
  <2> QED BY <1>1, <1>2, <2>1, <2>4, <2>6, <2>7, TypesStay, InvariantPartsNext
<1> QED BY <1>3, <1>4, <1>5, <1>6, <1>7, <1>8, <1>9 DEF Proceed, PrintOne, PrintAll

\* A command that the client sends with the id it has.
LEMMA CommandKeeps ==
  ASSUME IInv, NEW c \in Client, NEW m \in Requests, Command(c, m),
         m.type # "INIT",
         m.type \in {"STOP", "LIST"} => m.id = this_id[c],
         m.type = "TO_ONE" => m.target \in 0..MaxId,
         num_clients' \in [Client -> 0..Cardinality(Ids)],
         \A d \in Client : d # c => num_clients'[d] = num_clients[d]
  PROVE  IInv'
<1>1. TypeOK /\ Locals /\ Sending /\ Registry /\ LocalTypes
  BY TypeParts DEF IInv, Locals
<1>2. /\ Holds(c) /\ Ask(c, m)
      /\ UNCHANGED <<serverVars, server_queue, this_id, signalVars, queue>>
  BY DEF Command, Holds
<1>3. typed' \in [Client -> 0..MaxCommands]
  <2>1. typed[c] < MaxCommands /\ typed' = [typed EXCEPT ![c] = @ + 1]
    BY DEF Command
  <2> QED BY <1>1, <2>1, ChatAssumption DEF LocalTypes
<1>4. Locals'
  BY <1>1, <1>2, <1>3, LocalsAsk
<1>5. Registry'
  BY <1>1, <1>2, AskKeepsRegistry DEF serverVars
<1> QED BY <1>1, <1>2, <1>4, <1>5, TypesStay, InvariantPartsNext

\* What the users do.
LEMMA UserKeeps ==
  ASSUME IInv, NEW c \in Client, User(c)
  PROVE  IInv'
<1>1. TypeOK /\ Locals /\ Sending /\ Registry /\ LocalTypes
  BY TypeParts DEF IInv, Locals
<1>2. /\ num_clients \in [Client -> 0..Cardinality(Ids)]
      /\ typed \in [Client -> 0..MaxCommands]
  BY <1>1 DEF LocalTypes
<1>3. pc[c] = "reading" => /\ typed[c] < MaxCommands => Text(c) \in Texts
                           /\ this_id[c] \in Ids /\ this_id[c] \in 0..Cardinality(Ids)
  <2>1. Text(c) \in Texts
    BY <1>2 DEF Text, Texts
  <2> QED BY <1>1, <2>1, HolderId DEF Holds
<1>4. CASE Start(c)
  <2>1. /\ pc[c] = "off"
        /\ UNCHANGED <<serverVars, server_queue, this_id, num_clients, typed, signalVars, queue>>
    BY <1>4 DEF Start
  <2>2. CASE phase = "down"
    <3>1. Goto(c, "crashed") /\ request' = request
      BY <1>4, <2>2 DEF Start
    <3>2. Locals'
      <4>1. "crashed" \in Places \ {"send"}
        BY DEF Places
      <4> QED BY <1>1, <1>2, <2>1, <3>1, <4>1, LocalsMove
    <3>3. Registry'
      BY <1>1, <2>1, <3>1, MoveKeepsRegistry DEF serverVars, Thinner
    <3> QED BY <1>1, <2>1, <3>2, <3>3, TypesStay, InvariantPartsNext
  <2>3. CASE phase # "down"
    <3>1. PICK m : m = [type |-> "INIT", from |-> c]
      OBVIOUS
    <3>2. Ask(c, m) /\ m \in Requests /\ m.type = "INIT" /\ m.from = c
      BY <1>4, <2>3, <3>1, RequestsMade DEF Start
    <3>3. Locals'
      BY <1>1, <1>2, <2>1, <3>2, LocalsAsk
    <3>4. Registry'
      BY <1>1, <2>1, <3>2, AskKeepsRegistry DEF serverVars
    <3> QED BY <1>1, <2>1, <3>3, <3>4, TypesStay, InvariantPartsNext
  <2> QED BY <2>2, <2>3
<1>5. CASE list(c)
  <2>1. PICK m : m = [type |-> "LIST", id |-> this_id[c]]
    OBVIOUS
  <2>2. /\ Command(c, m) /\ pc[c] = "reading"
        /\ num_clients' = [num_clients EXCEPT ![c] = this_id[c]]
    BY <1>5, <2>1 DEF list, Command
  <2>3. m \in Requests /\ m.type = "LIST" /\ m.id = this_id[c]
    BY <1>3, <2>1, <2>2, RequestsMade
  <2>4. /\ num_clients' \in [Client -> 0..Cardinality(Ids)]
        /\ \A d \in Client : d # c => num_clients'[d] = num_clients[d]
    BY <1>2, <1>3, <2>2
  <2> QED BY <2>2, <2>3, <2>4, CommandKeeps
<1>6. CASE to_one(c)
  <2>1. PICK id \in 0..MaxId : Command(c, [type |-> "TO_ONE", target |-> id, text |-> Text(c)])
    BY <1>6 DEF to_one
  <2>2. PICK m : m = [type |-> "TO_ONE", target |-> id, text |-> Text(c)]
    OBVIOUS
  <2>3. Command(c, m) /\ pc[c] = "reading" /\ typed[c] < MaxCommands /\ num_clients' = num_clients
    BY <1>6, <2>1, <2>2 DEF to_one, Command
  <2>4. id \in Ids
    BY IdsBounded DEF Ids
  <2>5. m \in Requests /\ m.type = "TO_ONE" /\ m.target \in 0..MaxId
    BY <1>3, <2>2, <2>3, <2>4, RequestsMade
  <2> QED BY <1>2, <2>3, <2>5, CommandKeeps
<1>7. CASE to_all(c)
  <2>1. PICK m : m = [type |-> "TO_ALL", text |-> Text(c)]
    OBVIOUS
  <2>2. Command(c, m) /\ pc[c] = "reading" /\ typed[c] < MaxCommands /\ num_clients' = num_clients
    BY <1>7, <2>1 DEF to_all, Command
  <2>3. m \in Requests /\ m.type = "TO_ALL"
    BY <1>3, <2>1, <2>2, RequestsMade
  <2> QED BY <1>2, <2>2, <2>3, CommandKeeps
<1>8. CASE handleIncoming(c)
  <2>1. /\ Holds(c) /\ Goto(c, "incoming_one")
        /\ UNCHANGED <<serverVars, server_queue, this_id, request, num_clients, typed, signalVars, queue>>
    BY <1>8 DEF handleIncoming, Holds, localVars
  <2>2. Locals'
    <3>1. "incoming_one" \in Places \ {"send"}
      BY DEF Places
    <3> QED BY <1>1, <1>2, <2>1, <3>1, LocalsMove
  <2>3. Registry'
    BY <1>1, <2>1, MoveKeepsRegistry DEF serverVars, Thinner
  <2> QED BY <1>1, <2>1, <2>2, <2>3, TypesStay, InvariantPartsNext
<1>9. CASE TypeStop(c)
  <2>1. /\ Holds(c) /\ Goto(c, "top")
        /\ interrupt_flag' = [interrupt_flag EXCEPT ![c] = TRUE]
        /\ UNCHANGED <<serverVars, server_queue, this_id, request, num_clients, typed, pending, handled, queue>>
    BY <1>9 DEF TypeStop, Holds, localVars
  <2>2. Locals'
    <3>1. "top" \in Places \ {"send"}
      BY DEF Places
    <3> QED BY <1>1, <1>2, <2>1, <3>1, LocalsMove
  <2>3. Registry'
    BY <1>1, <2>1, MoveKeepsRegistry DEF serverVars, Thinner
  <2>4. SignalTypes'
    BY <1>1, <2>1 DEF TypeOK, SignalTypes
  <2> QED BY <1>1, <2>1, <2>2, <2>3, <2>4, TypesStay, InvariantPartsNext
<1>10. CASE Interrupt(c)
  <2>1. /\ UNCHANGED <<serverVars, server_queue, pc, localVars, interrupt_flag, handled, queue>>
        /\ pending' = pending \cup {c}
    BY <1>10 DEF Interrupt
  <2>2. Locals'
    BY <1>1, <2>1, LocalsStay
  <2>3. Registry'
    BY <1>1, <2>1, StayKeepsRegistry DEF serverVars, localVars
  <2>4. SignalTypes'
    BY <1>1, <2>1 DEF TypeOK, SignalTypes
  <2> QED BY <1>1, <2>1, <2>2, <2>3, <2>4, TypesStay, InvariantPartsNext
<1> QED BY <1>4, <1>5, <1>6, <1>7, <1>8, <1>9, <1>10 DEF User

\* The handler of a client's signal, wherever it finds the client.
LEMMA HandleSignalKeeps ==
  ASSUME IInv, NEW c \in Client, HandleSignal(c)
  PROVE  IInv'
<1>1. TypeOK /\ Locals /\ Sending /\ Registry /\ LocalTypes /\ Counting
  BY TypeParts DEF IInv, Locals
<1>2. /\ UNCHANGED <<serverVars, server_queue, this_id, request, typed, queue>>
      /\ pending' = pending \ {c} /\ handled' = handled \cup {c}
      /\ interrupt_flag' = [interrupt_flag EXCEPT ![c] = TRUE]
  BY DEF HandleSignal
<1>3. SignalTypes'
  BY <1>1, <1>2 DEF TypeOK, SignalTypes
<1>4. /\ num_clients \in [Client -> 0..Cardinality(Ids)]
      /\ \A d \in Client : Thinner(d)
  BY <1>1, <1>2 DEF LocalTypes, Thinner
<1>5. SUFFICES Locals' /\ Registry'
  BY <1>1, <1>2, <1>3, TypesStay, InvariantPartsNext
<1>6. CASE UNCHANGED <<pc, num_clients>>
  BY <1>1, <1>2, <1>6, LocalsStay, StayKeepsRegistry DEF serverVars, localVars
<1>7. ASSUME NEW l \in {"crashed", "top"}, Goto(c, l), num_clients' = num_clients,
             l = "top" => pc[c] = "reading"
      PROVE  Locals' /\ Registry'
  <2>1. l \in Places \ {"send"} /\ l # "await_entity"
    BY DEF Places
  <2>2. Locals'
    BY <1>1, <1>2, <1>4, <1>7, <2>1, LocalsMove
  <2>3. Registry'
    BY <1>1, <1>2, <1>4, <1>7, MoveKeepsRegistry DEF serverVars, Holds
  <2> QED BY <2>2, <2>3
<1>8. CASE pc[c] = "send" /\ Goto(c, AfterSend(request[c].type)) /\ UNCHANGED num_clients
  <2>1. request[c] \in Requests
    BY <1>1, <1>8 DEF Sending
  <2>2. AfterSend(request[c].type) \in Places \ {"send"} /\ AfterSend(request[c].type) # "await_entity"
    BY <2>1, RequestFields, AfterSendIs DEF Places
  <2>3. Locals'
    BY <1>1, <1>2, <1>4, <1>8, <2>2, LocalsMove
  <2>4. \A d \in Client : /\ Fresh(d)' => Fresh(d)
                          /\ Holds(d)' => Holds(d)
                          /\ Waits(d) => Waits(d)'
                          /\ Leaves(d) => Leaves(d)'
    BY <1>1, <1>2, <1>8, SentMovesOn
  <2>5. Calm
    BY <1>2, <1>4, <2>4 DEF Calm, OutboxShrinks, serverVars
  <2> QED BY <1>1, <2>3, <2>5, CalmKeepsRegistry
<1>9. ASSUME pc[c] \in {"await_list", "await_entity"},
             NEW n \in 0..Cardinality(Ids), Expect(c, n)
      PROVE  Locals' /\ Registry'
  <2>1. Locals'
    BY <1>1, <1>2, <1>9, LocalsExpect
  <2>2. Registry'
    BY <1>1, <1>2, <1>4, <1>9, MoveKeepsRegistry DEF serverVars, Holds, Expect
  <2> QED BY <2>1, <2>2
<1>10. CASE pc[c] = "await_list" /\ Expect(c, num_clients[c])
  BY <1>4, <1>9, <1>10
<1>11. CASE pc[c] = "await_entity" /\ Expect(c, num_clients[c] - 1)
  <2>1. num_clients[c] - 1 \in 0..Cardinality(Ids)
    <3>1. num_clients[c] \in 0..Cardinality(Ids) /\ num_clients[c] > 0
      BY <1>1, <1>4, <1>11 DEF Counting
    <3> QED BY <3>1, IdsBounded
  <2> QED BY <1>9, <1>11, <2>1
<1>12. CASE Goto(c, "crashed") /\ UNCHANGED num_clients
  BY <1>7, <1>12
<1>13. CASE pc[c] = "reading" /\ Goto(c, "top") /\ UNCHANGED num_clients
  BY <1>7, <1>13
<1> QED BY <1>6, <1>8, <1>10, <1>11, <1>12, <1>13 DEF HandleSignal, Interrupted

\* operator[] of the registry adds an entry without an owner, or none.
LEMMA TouchedAdds ==
  ASSUME NEW id, client_data' = Touched(id)
  PROVE  /\ Known' = Known \cup {id}
         /\ \A i \in Known : client_data'[i] = client_data[i]
         /\ \A i \in Known' \ Known : client_data'[i] = Nobody
BY DEF Touched, Known

\* What the server takes out of its queue leaves the clients as they are.
LEMMA TakesKeepsClients ==
  ASSUME IInv, NEW type, Takes(type)
  PROVE  ServerQueueTypes' /\ SignalTypes' /\ QueueTypes' /\ Locals'
<1>1. TypeOK /\ Locals
  BY TypeParts DEF IInv, Locals
<1>2. UNCHANGED <<pc, localVars, signalVars, queue>>
  BY DEF Takes, clientVars
<1>3. ServerQueueTypes'
  BY <1>1, RequestTaken DEF ServerQueueTypes
<1> QED BY <1>1, <1>2, <1>3, TypesStay, LocalsStay

\* The server answers one request.
LEMMA HandlersKeep ==
  ASSUME IInv,
         registerNewClients \/ deregisterTerminatedClients \/ handleListing \/ handleToOne \/ handleToAll
  PROVE  IInv'
<1>1. TypeOK /\ Registry
  BY DEF IInv
<1>2. Known \subseteq IdsSoFar /\ IdsSoFar \subseteq Ids
  BY <1>1, IdsSoFarBounded DEF Registry, Grown
<1>3. \A id \in Known : client_data[id] \in Client \cup {Nobody}
  BY <1>1 DEF TypeOK
<1>4. CASE registerNewClients
  <2>1. PICK c \in Client : c = Request.from
    BY <1>1, <1>4, RequestTaken, RequestFields DEF registerNewClients
  <2>2. PICK new : new = NewId
    OBVIOUS
  <2>3. /\ Takes("INIT")
        /\ client_data' = [i \in Known \cup {new} |-> IF i = new THEN c ELSE client_data[i]]
        /\ outbox' = <<To(c, [type |-> "INIT", id |-> new])>>
    BY <1>4, <2>1, <2>2 DEF registerNewClients
  <2>4. Registry' /\ new \in Ids
    BY <1>1, <1>4, <2>2, RegisterKeepsRegistry
  <2>5. RegistryTypes'
    <3>1. UNCHANGED <<phase, server_flag>>
      BY <2>3 DEF Takes
    <3>2. Known' = Known \cup {new}
      BY <2>3 DEF Known
    <3>3. \A i \in Known' : client_data'[i] \in Client \cup {Nobody}
      BY <1>3, <2>3, <3>2
    <3> QED BY <1>1, <2>4, <3>1, <3>2, <3>3 DEF RegistryTypes, TypeOK
  <2>6. OutboxTypes'
    <3>1. To(c, [type |-> "INIT", id |-> new]) \in Mail
      BY <2>4, IdIsAnswer DEF To, Mail
    <3> QED BY <2>3, <3>1 DEF OutboxTypes
  <2> QED BY <2>3, <2>4, <2>5, <2>6, TakesKeepsClients, InvariantPartsNext
<1>5. CASE deregisterTerminatedClients
  <2>1. Takes("STOP") /\ client_data' = Without(Request.id) /\ outbox' = outbox
    BY <1>5 DEF deregisterTerminatedClients
  <2>2. Known' \subseteq Known /\ \A i \in Known' : client_data'[i] = client_data[i]
    BY <2>1 DEF Without, Known
  <2>3. RegistryTypes'
    <3>1. UNCHANGED <<phase, server_flag>>
      BY <2>1 DEF Takes
    <3> QED BY <1>1, <2>2, <3>1 DEF RegistryTypes, TypeOK
  <2>4. OutboxTypes'
    BY <1>1, <2>1, TypeParts DEF OutboxTypes
  <2>5. Registry'
    BY <1>1, <1>5, DeregisterKeepsRegistry
  <2> QED BY <2>1, <2>3, <2>4, <2>5, TakesKeepsClients, InvariantPartsNext
<1>6. ASSUME NEW type, Takes(type),
             Known \subseteq Known', Known' \subseteq IdsSoFar,
             \A i \in Known : client_data'[i] = client_data[i],
             \A i \in Known' \ Known : client_data'[i] = Nobody,
             outbox' \in Seq(Mail),
             \A k \in 1..Len(outbox') : outbox'[k].msg.type # "INIT"
      PROVE  IInv'
  <2>1. Registry'
    BY <1>1, <1>6, AnswerKeepsRegistry
  <2>2. RegistryTypes'
    <3>1. UNCHANGED <<phase, server_flag>>
      BY <1>6 DEF Takes
    <3>2. \A i \in Known' : client_data'[i] \in Client \cup {Nobody}
      BY <1>3, <1>6
    <3> QED BY <1>1, <1>2, <1>6, <3>1, <3>2 DEF RegistryTypes, TypeOK
  <2> QED BY <1>6, <2>1, <2>2, TakesKeepsClients, InvariantPartsNext DEF OutboxTypes
<1>7. \A type : Takes(type) =>
        /\ Request \in Requests /\ Request.type = type
        /\ type = "LIST" => Request.id \in IdsSoFar
        /\ type = "TO_ONE" => Request.target \in 0..MaxId
  BY <1>1, RequestTaken DEF Registry, Grown
<1>8. CASE handleListing
  <2>1. PICK id : id = Request.id
    OBVIOUS
  <2>2. Takes("LIST") /\ client_data' = Touched(id) /\ outbox' = Listing(id, client_data')
    BY <1>8, <2>1 DEF handleListing
  <2>3. /\ Known' = Known \cup {id}
        /\ \A i \in Known : client_data'[i] = client_data[i]
        /\ \A i \in Known' \ Known : client_data'[i] = Nobody
    BY <2>2, TouchedAdds
  <2>4. id \in IdsSoFar
    BY <1>7, <2>1, <2>2
  <2>5. PICK data : data = client_data'
    OBVIOUS
  <2>6. DOMAIN data \subseteq Ids /\ data[id] \in Client \cup {Nobody} /\ Known \subseteq Ids
    BY <1>2, <1>3, <2>3, <2>4, <2>5 DEF Known
  <2>7. /\ Listing(id, data) \in Seq(Mail)
        /\ \A k \in 1..Len(Listing(id, data)) : Listing(id, data)[k].msg.type # "INIT"
    BY <2>6, ListingIsMail
  <2>8. outbox' = Listing(id, data)
    BY <2>2, <2>5
  <2> QED BY <1>2, <1>6, <2>2, <2>3, <2>4, <2>7, <2>8
<1>9. CASE handleToOne
  <2>1. PICK id : id = Request.target
    OBVIOUS
  <2>2. PICK m : m = Request
    OBVIOUS
  <2>3. Takes("TO_ONE") /\ client_data' = Touched(id) /\ outbox' = <<To(client_data'[id], m)>>
    BY <1>9, <2>1, <2>2 DEF handleToOne
  <2>4. /\ Known' = Known \cup {id}
        /\ \A i \in Known : client_data'[i] = client_data[i]
        /\ \A i \in Known' \ Known : client_data'[i] = Nobody
    BY <2>3, TouchedAdds
  <2>5. id \in IdsSoFar
    <3>1. id \in 0..MaxId
      BY <1>7, <2>1, <2>3
    <3> QED BY <3>1, IdsSoFarBounded, IdsBounded DEF IdsSoFar
  <2>6. m \in Answers /\ m.type = "TO_ONE"
    BY <1>7, <2>2, <2>3, RequestFields
  <2>7. client_data'[id] \in Client \cup {Nobody}
    BY <1>3, <2>4
  <2>8. PICK x : x = To(client_data'[id], m)
    OBVIOUS
  <2>9. x \in Mail /\ x.msg = m
    BY <2>6, <2>7, <2>8 DEF To, Mail
  <2>10. outbox' = <<x>>
    BY <2>3, <2>8
  <2>11. outbox' \in Seq(Mail) /\ \A k \in 1..Len(outbox') : outbox'[k].msg.type # "INIT"
    BY <2>6, <2>9, <2>10
  <2> QED BY <1>2, <1>6, <2>3, <2>4, <2>5, <2>11
<1>10. CASE handleToAll
  <2>1. PICK m : m = Request
    OBVIOUS
  <2>2. Takes("TO_ALL") /\ client_data' = client_data /\ outbox' = Broadcast(m)
    BY <1>10, <2>1 DEF handleToAll
  <2>3. m \in Answers /\ m.type # "INIT"
    BY <1>7, <2>1, <2>2, RequestFields
  <2>4. /\ Broadcast(m) \in Seq(Mail)
        /\ \A k \in 1..Len(Broadcast(m)) : Broadcast(m)[k].msg.type # "INIT"
    BY <1>2, <1>3, <2>3, BroadcastIsMail
  <2>5. Known' = Known
    BY <2>2 DEF Known
  <2> QED BY <1>2, <1>6, <2>2, <2>4, <2>5
<1> QED BY <1>4, <1>5, <1>8, <1>9, <1>10

\* The main loop goes on to one of its handlers, or ends.
LEMMA AfterIs ==
  ASSUME NEW p \in {"top", "INIT", "STOP", "LIST", "TO_ONE", "TO_ALL"}
  PROVE  After(p) \in {"top", "INIT", "STOP", "LIST", "TO_ONE", "TO_ALL", "terminate"}
<1>1. /\ After("top") = IF server_flag THEN "terminate" ELSE "INIT"
      /\ After("INIT") = "STOP"
      /\ After("STOP") = "LIST"
      /\ After("LIST") = "TO_ONE"
      /\ After("TO_ONE") = "TO_ALL"
      /\ After("TO_ALL") = "top"
  BY DEF After
<1> QED BY <1>1

\* The server's other steps.
LEMMA ServerKeeps ==
  ASSUME IInv, Server \/ InterruptServer
  PROVE  IInv'
<1>1. /\ TypeOK /\ Registry /\ Locals
      /\ RegistryTypes /\ ServerQueueTypes /\ OutboxTypes /\ SignalTypes /\ QueueTypes
  BY InvariantParts DEF IInv
<1>2. ASSUME UNCHANGED <<pc, localVars>> PROVE Locals'
  BY <1>1, <1>2, LocalsStay
<1>3. CASE registerNewClients \/ deregisterTerminatedClients \/ handleListing \/ handleToOne \/ handleToAll
  BY <1>3, HandlersKeep
<1>4. CASE Send
  <2>1. /\ UNCHANGED <<phase, server_flag, client_data, server_queue, pc, localVars, signalVars>>
        /\ outbox # <<>> /\ outbox' = Tail(outbox)
    BY <1>4 DEF Send, clientVars
  <2>2. RegistryTypes'
    BY <1>1, <2>1 DEF RegistryTypes, Known
  <2>3. OutboxTypes'
    BY <1>1, <2>1, HeadTailProperties DEF OutboxTypes
  <2>4. QueueTypes'
    <3>1. PICK h \in Mail : h = Head(outbox)
      BY <1>1, <2>1, HeadTailProperties DEF OutboxTypes
    <3>2. PICK c : c = h.to
      OBVIOUS
    <3>3. PICK m : m = h.msg
      OBVIOUS
    <3>4. c \in Client \cup {Nobody} /\ m \in Answers
      BY <3>2, <3>3 DEF Mail
    <3>5. CASE ~QueueExists(c)
      BY <1>1, <1>4, <3>1, <3>2, <3>5, TypesStay DEF Send
    <3>6. CASE QueueExists(c)
      <4>1. c \in Client /\ HasRoom(queue[c]) /\ queue' = [queue EXCEPT ![c] = Append(@, m)]
        BY <1>4, <3>1, <3>2, <3>3, <3>4, <3>6 DEF Send, QueueExists
      <4>2. queue[c] \in Seq(Answers) /\ Len(queue[c]) \in Nat /\ Len(queue[c]) < QueueSize
        BY <1>1, <4>1, LenProperties DEF QueueTypes, HasRoom
      <4>3. Append(queue[c], m) \in Seq(Answers) /\ Len(Append(queue[c], m)) <= QueueSize
        <5>1. QueueSize \in Nat
          BY ChatAssumption
        <5> QED BY <3>4, <4>2, <5>1, AppendAdds
      <4>4. /\ queue' \in [Client -> Seq(Answers)] /\ queue'[c] = Append(queue[c], m)
            /\ \A d \in Client : d # c => queue'[d] = queue[d]
        BY <1>1, <4>1, <4>3 DEF QueueTypes
      <4> QED BY <1>1, <4>3, <4>4 DEF QueueTypes
    <3> QED BY <3>5, <3>6
  <2>5. Registry'
    BY <1>1, <1>4, SendKeepsRegistry
  <2> QED BY <1>1, <1>2, <2>1, <2>2, <2>3, <2>4, <2>5, TypesStay, InvariantPartsNext
<1>5. CASE NextHandler
  <2>1. UNCHANGED <<server_flag, client_data, outbox, server_queue, pc, localVars, signalVars, queue>>
    BY <1>5 DEF NextHandler, clientVars
  <2>2. RegistryTypes'
    <3>1. phase' \in {"top", "INIT", "STOP", "LIST", "TO_ONE", "TO_ALL", "terminate"}
      BY <1>1, <1>5, AfterIs DEF NextHandler, RegistryTypes
    <3> QED BY <1>1, <2>1, <3>1 DEF RegistryTypes, Known
  <2>3. OutboxTypes'
    BY <1>1, <2>1 DEF OutboxTypes
  <2>4. Registry'
    BY <1>1, <2>1, StayKeepsRegistry DEF localVars
  <2> QED BY <1>1, <1>2, <2>1, <2>2, <2>3, <2>4, TypesStay, InvariantPartsNext
<1>6. CASE terminateClients
  <2>1. /\ UNCHANGED <<server_flag, client_data, outbox, server_queue, pc, localVars,
                       interrupt_flag, handled, queue>>
        /\ phase' = "remove" /\ pending' \subseteq pending \cup Client
    <3>1. \A i \in Known : client_data[i] \in Client \cup {Nobody}
      BY <1>1 DEF RegistryTypes
    <3>2. PICK group \in SUBSET Client :
            pending' = pending \cup {c \in {client_data[i] : i \in Known} \cup group : c # Nobody /\ Alive(c)}
      BY <1>6 DEF terminateClients
    <3>3. pending' \subseteq pending \cup Client
      BY <3>1, <3>2
    <3> QED BY <1>6, <3>3 DEF terminateClients
  <2>2. RegistryTypes'
    BY <1>1, <2>1 DEF RegistryTypes, Known
  <2>3. OutboxTypes'
    BY <1>1, <2>1 DEF OutboxTypes
  <2>4. SignalTypes'
    BY <1>1, <2>1 DEF SignalTypes
  <2>5. Registry'
    BY <1>1, <2>1, StayKeepsRegistry DEF localVars
  <2> QED BY <1>1, <1>2, <2>1, <2>2, <2>3, <2>4, <2>5, TypesStay, InvariantPartsNext
<1>7. CASE RemoveServerQueue
  <2>1. /\ UNCHANGED <<server_flag, client_data, outbox, pc, localVars, signalVars, queue>>
        /\ phase' = "down" /\ server_queue' = <<>>
    BY <1>7 DEF RemoveServerQueue, clientVars
  <2>2. RegistryTypes'
    BY <1>1, <2>1 DEF RegistryTypes, Known
  <2>3. OutboxTypes'
    BY <1>1, <2>1 DEF OutboxTypes
  <2>4. ServerQueueTypes'
    BY <2>1, EmptySeq, ChatAssumption DEF ServerQueueTypes
  <2>5. Calm
    BY <2>1 DEF Calm, OutboxShrinks, Thinner, Fresh, Holds, Waits, Leaves, localVars
  <2> QED BY <1>1, <1>2, <2>1, <2>2, <2>3, <2>4, <2>5, CalmKeepsRegistry, TypesStay, InvariantPartsNext
<1>8. CASE InterruptServer
  <2>1. /\ UNCHANGED <<phase, client_data, server_queue, pc, localVars, signalVars, queue>>
        /\ server_flag' = TRUE /\ OutboxShrinks
    BY <1>8 DEF InterruptServer, clientVars, OutboxShrinks
  <2>2. RegistryTypes'
    BY <1>1, <2>1 DEF RegistryTypes, Known
  <2>3. OutboxTypes'
    BY <1>1, <2>1, HeadTailProperties DEF OutboxTypes, OutboxShrinks
  <2>4. Calm
    BY <2>1 DEF Calm, Thinner, Fresh, Holds, Waits, Leaves, localVars
  <2> QED BY <1>1, <1>2, <2>1, <2>2, <2>3, <2>4, CalmKeepsRegistry, TypesStay, InvariantPartsNext
<1> QED BY <1>3, <1>4, <1>5, <1>6, <1>7, <1>8 DEF Server

\* At the start nobody has an id, and nothing is on its way.
LEMMA InitKeeps ==
  ASSUME Init
  PROVE  IInv
<1>1. Known = {}
  BY DEF Init, Known
<1>2. /\ Len(server_queue) = 0 /\ Len(outbox) = 0 /\ \A c \in Client : Len(queue[c]) = 0
  BY EmptySeq DEF Init
<1>3. TypeOK
  <2>1. /\ server_queue \in Seq(Requests) /\ queue \in [Client -> Seq(Answers)]
        /\ outbox \in Seq([to : Client \cup {Nobody}, msg : Answers])
    BY EmptySeq DEF Init
  <2>2. /\ QueueSize \in Nat /\ MaxCommands \in Nat /\ 0 \in 0..MaxCommands
        /\ 0 \in 0..Cardinality(Ids)
    BY ChatAssumption, IdsBounded
  <2>3. RegistryTypes
    BY <1>1 DEF Init, RegistryTypes
  <2>4. ServerQueueTypes /\ QueueTypes /\ OutboxTypes
    BY <1>2, <2>1, <2>2 DEF ServerQueueTypes, QueueTypes, OutboxTypes, Mail
  <2>5. LocalTypes
    BY <2>2 DEF Init, LocalTypes, Places
  <2>6. SignalTypes
    BY DEF Init, SignalTypes
  <2> QED BY <2>3, <2>4, <2>5, <2>6, TypeParts
<1>4. Sending /\ Counting
  BY DEF Init, Sending, Counting
<1>5. FreshOnes /\ Holders
  BY <1>1 DEF Init, FreshOnes, Unregistered, Holders, Holds
<1>6. Asking /\ Stopping /\ Welcomed /\ Welcoming
  BY <1>2 DEF Asking, Stopping, Welcomed, Welcoming
<1>7. OneId /\ Grown
  BY <1>1, <1>2 DEF OneId, Grown
<1> QED BY <1>3, <1>4, <1>5, <1>6, <1>7 DEF IInv, Registry

-----------------------------------------------------------------------------
(***************************************************************************)
(* The theorems.                                                           *)
(***************************************************************************)

\* The invariant that follows every INIT and every STOP on their way.
THEOREM InductiveInvariant == Spec => []IInv
<1>1. Init => IInv
  BY InitKeeps
<1>2. IInv /\ [Next]_vars => IInv'
  <2> SUFFICES ASSUME IInv, [Next]_vars PROVE IInv'
    OBVIOUS
  <2>1. CASE UNCHANGED vars
    <3>1. /\ TypeOK /\ Registry /\ Locals
      BY InvariantParts DEF IInv
    <3>2. UNCHANGED <<serverVars, server_queue, pc, localVars, signalVars, queue>>
      BY <2>1 DEF vars, clientVars
    <3>3. Registry'
      BY <3>1, <3>2, StayKeepsRegistry DEF serverVars, localVars
    <3> QED BY <3>1, <3>2, <3>3, LocalsStay, TypesStay, InvariantPartsNext
  <2>2. CASE Server \/ InterruptServer
    BY <2>2, ServerKeeps
  <2>3. ASSUME NEW c \in Client, Proceed(c) \/ User(c) \/ HandleSignal(c) PROVE IInv'
    BY <2>3, ProceedKeeps, UserKeeps, HandleSignalKeeps
  <2> QED BY <2>1, <2>2, <2>3 DEF Next
<1> QED BY <1>1, <1>2, PTL DEF Spec

\* The variables keep their types: the ids stay in their range, however often ids
\* are given out again and made up, and no queue grows beyond its capacity.
THEOREM TypeCorrect == Spec => []TypeOK
<1>1. IInv => TypeOK
  BY DEF IInv
<1> QED BY <1>1, InductiveInvariant, PTL

\* The registry is faithful: a running client's entry is its own, and no process
\* has two, with any number of clients, signals and full queues.
THEOREM RegistryFaithfulHolds == Spec => []RegistryFaithful
<1>1. IInv => RegistryFaithful
  <2> SUFFICES ASSUME IInv PROVE RegistryFaithful
    OBVIOUS
  <2>1. ASSUME NEW c \in Client, Registered(c)
        PROVE  this_id[c] \in Known /\ client_data[this_id[c]] = c
    <3>1. ~Fresh(c)
      BY <2>1 DEF IInv, Registry, FreshOnes, Unregistered, Registered
    <3>2. Holds(c)
      BY <2>1, <3>1 DEF Registered, Fresh, Holds
    <3> QED BY <3>2 DEF IInv, Registry, Holders, Owns
  <2>2. OneId
    BY DEF IInv, Registry
  <2> QED BY <2>1, <2>2 DEF RegistryFaithful, OneId
<1> QED BY <1>1, InductiveInvariant, PTL
=============================================================================
