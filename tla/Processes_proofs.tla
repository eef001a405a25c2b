-------------------------- MODULE Processes_proofs --------------------------
(***************************************************************************)
(* Proofs about the programs that consist of several processes: the        *)
(* integrals of cw05 for any number of workers, intervals and places in a  *)
(* pipe, the catcher and the senders of cw04 for any number of senders,    *)
(* modes and requests, and the directory search of cw03 for any tree.      *)
(*                                                                         *)
(* FifoSum: a worker that has written is in the FIFO or in the sum, and    *)
(* once only (Accounted); before the first result is added the reader      *)
(* cannot see the end of the file, for somebody still has the FIFO open or *)
(* something is in it (FirstResultComes).                                  *)
(*                                                                         *)
(* PipePool: an interval is moved from one place to the next by each step  *)
(* and never copied (the first half of IntervalsOnce); that nothing is     *)
(* left behind when the parent is done follows from the order in which     *)
(* the ends of the pipes are closed (NoneLeaves, StreamsRead).             *)
(*                                                                         *)
(* ModeCatcher: AnswersMatch is inductive once it is known that nobody     *)
(* waits before the programs start (Quiet).  The bound on mode_change_ctr  *)
(* needs an account of the modes still to be sent (ChangesBounded): a      *)
(* change costs a request, and a request is counted once as an entry of a  *)
(* sender's input.                                                         *)
(*                                                                         *)
(* DirWalk: a line is in the buffers of processes below its directory only *)
(* (BuffersBelow), each of which has it or has written it (OneCopyEach),   *)
(* because a directory has one process (ForkedByParent) and a file is      *)
(* found once (FoundOnce).  NoneForgotten says where a found line is.      *)
(***************************************************************************)
EXTENDS PipePool, FifoSum, ModeCatcher, DirWalk,
        FiniteSetTheorems, SequenceTheorems, NaturalsInduction, TLAPS

-----------------------------------------------------------------------------
(* Sequences.                                                              *)

Elements(s) == {s[n] : n \in 1..Len(s)}

Unique(s) == \A m, n \in 1..Len(s) : s[m] = s[n] => m = n

\* What is in a queue after its head has been taken.
LEMMA TailElements ==
  ASSUME NEW S, NEW s \in Seq(S), s # <<>>
  PROVE  /\ Tail(s) \in Seq(S) /\ Len(Tail(s)) = Len(s) - 1
         /\ Len(s) \in Nat \ {0} /\ Head(s) = s[1] /\ Head(s) \in S
         /\ \A n \in 1..(Len(s) - 1) : Tail(s)[n] = s[n + 1]
         /\ Elements(s) = Elements(Tail(s)) \cup {Head(s)}
         /\ Unique(s) => Unique(Tail(s)) /\ Head(s) \notin Elements(Tail(s))
<1>1. /\ Tail(s) \in Seq(S) /\ Len(Tail(s)) = Len(s) - 1
      /\ Len(s) \in Nat \ {0} /\ Head(s) = s[1] /\ Head(s) \in S
      /\ \A n \in 1..(Len(s) - 1) : Tail(s)[n] = s[n + 1]
  BY HeadTailProperties, EmptySeq
<1>2. \A n \in 1..(Len(s) - 1) : n + 1 \in 1..Len(s) /\ n + 1 # 1
  BY <1>1
<1>3. \A n \in 1..Len(s) : n # 1 => n - 1 \in 1..(Len(s) - 1) /\ (n - 1) + 1 = n
  BY <1>1
<1>4. Elements(s) = Elements(Tail(s)) \cup {Head(s)}
  <2>1. ASSUME NEW x \in Elements(s)
        PROVE  x \in Elements(Tail(s)) \cup {Head(s)}
    <3>1. PICK n \in 1..Len(s) : x = s[n]
      BY DEF Elements
    <3>2. CASE n = 1
      BY <1>1, <3>1, <3>2
    <3>3. CASE n # 1
      <4>1. n - 1 \in 1..Len(Tail(s)) /\ x = Tail(s)[n - 1]
        BY <1>1, <1>3, <3>1, <3>3
      <4> QED
        BY <4>1 DEF Elements
    <3> QED
      BY <3>2, <3>3
  <2>2. Head(s) \in Elements(s)
    BY <1>1 DEF Elements
  <2>3. Elements(Tail(s)) \subseteq Elements(s)
    BY <1>1, <1>2 DEF Elements
  <2> QED
    BY <2>1, <2>2, <2>3
<1>5. ASSUME Unique(s)
      PROVE  Unique(Tail(s)) /\ Head(s) \notin Elements(Tail(s))
  <2>1. \A m, n \in 1..Len(s) : s[m] = s[n] => m = n
    BY <1>5 DEF Unique
  <2>2. \A m, n \in 1..(Len(s) - 1) : m + 1 = n + 1 => m = n
    BY <1>1
  <2>3. 1 \in 1..Len(s)
    BY <1>1
  <2> QED
    BY <1>1, <1>2, <2>1, <2>2, <2>3 DEF Unique, Elements
<1> QED
  BY <1>1, <1>4, <1>5

\* What is in a queue after something has been put in.
LEMMA AppendElements ==
  ASSUME NEW S, NEW s \in Seq(S), NEW e \in S
  PROVE  /\ Append(s, e) \in Seq(S) /\ Len(Append(s, e)) = Len(s) + 1
         /\ Len(s) \in Nat
         /\ \A n \in 1..Len(s) : Append(s, e)[n] = s[n]
         /\ Append(s, e)[Len(s) + 1] = e
         /\ Elements(Append(s, e)) = Elements(s) \cup {e}
         /\ Unique(s) /\ e \notin Elements(s) => Unique(Append(s, e))
<1>1. /\ Append(s, e) \in Seq(S) /\ Len(Append(s, e)) = Len(s) + 1
      /\ \A n \in 1..Len(s) : Append(s, e)[n] = s[n]
      /\ Append(s, e)[Len(s) + 1] = e
      /\ Len(s) \in Nat
  BY AppendProperties, LenProperties
<1>2. \A n : n \in 1..(Len(s) + 1) <=> n \in 1..Len(s) \/ n = Len(s) + 1
  BY <1>1
<1> QED
  BY <1>1, <1>2 DEF Elements, Unique

-----------------------------------------------------------------------------
(* FifoSum: the invariant.                                                 *)

\* The workers whose results have been written.
Delivered == {w \in SumWorker : sum_worker[w] \in {"written", "closed"}}

\* A result that has been written is in the FIFO or in the sum, not in both,
\* and in the FIFO once.
Accounted ==
  /\ Delivered = Elements(fifo) \cup AddedResults
  /\ Elements(fifo) \cap AddedResults = {}
  /\ Unique(fifo)

\* The reader that has nothing yet is not at the end of the file.
FirstResultComes ==
  reader = "read" /\ added = <<>> => fifo # <<>> \/ Writers # {}

\* Nothing is read before the FIFO is open; the loop ends after n rounds.
Rounds ==
  /\ reader \notin {"read", "done"} => added = <<>> /\ fifo = <<>>
  /\ reader = "read" => Len(added) < n_processes
  /\ reader = "done" => Len(added) = n_processes

\* The buffer holds a result that has been added, as soon as there is one.
BufferAdded ==
  /\ buff \subseteq AddedResults
  /\ added # <<>> => buff # {}
  /\ at_eof => added # <<>>

\* The properties of the sum, but for its completeness.
AddedSoFar ==
  /\ \A k \in 1..Len(added) : added[k] # {}
  /\ ~at_eof => Cardinality(AddedResults) = Len(added)
  /\ at_eof => \A k \in (Cardinality(AddedResults) + 1)..Len(added) : added[k] = buff

FifoInv ==
  /\ FifoTypeOK
  /\ Accounted
  /\ FirstResultComes
  /\ Rounds
  /\ BufferAdded
  /\ AddedSoFar

\* The results, one at most in each round.
Round == {{}} \cup {{w} : w \in SumWorker}

LEMMA FifoConstants ==
  /\ IsFiniteSet(SumWorker)
  /\ n_processes \in Nat \ {0}
  /\ IsFiniteSet(FifoWorker) /\ Cardinality(FifoWorker) = n_processes
<1>1. IsFiniteSet(SumWorker)
  BY FifoAssumption, FS_Union DEF SumWorker
<1>2. n_processes \in Nat /\ n_processes # 0
  BY FifoAssumption, FS_CardinalityType, FS_EmptySet DEF n_processes
<1> QED
  BY <1>1, <1>2, FifoAssumption DEF n_processes

\* The results that have been added are finitely many, and those of one more
\* round are added to them.
LEMMA AddedFinite ==
  ASSUME FifoTypeOK
  PROVE  /\ AddedResults \subseteq SumWorker
         /\ IsFiniteSet(AddedResults)
         /\ Cardinality(AddedResults) \in Nat
         /\ Len(added) \in Nat
         /\ added = <<>> => AddedResults = {}
<1>1. added \in Seq(Round) /\ Len(added) \in Nat
  BY LenProperties DEF FifoTypeOK, Round
<1>2. \A k \in 1..Len(added) : added[k] \in Round
  BY <1>1, ElementOfSeq
<1>3. AddedResults \subseteq SumWorker
  BY <1>2 DEF AddedResults, Round
<1>4. IsFiniteSet(AddedResults) /\ Cardinality(AddedResults) \in Nat
  BY <1>3, FifoConstants, FS_Subset, FS_CardinalityType
<1>5. ASSUME added = <<>>
      PROVE  AddedResults = {}
  <2>1. Len(added) = 0
    BY <1>5
  <2> QED
    BY <2>1 DEF AddedResults
<1> QED
  BY <1>1, <1>3, <1>4, <1>5

LEMMA RoundAdds ==
  ASSUME FifoTypeOK, NEW r \in Round, added' = Append(added, r)
  PROVE  /\ added' \in Seq(Round) /\ Len(added') = Len(added) + 1
         /\ AddedResults' = AddedResults \cup r
         /\ \A k \in 1..Len(added) : added'[k] = added[k]
         /\ added'[Len(added) + 1] = r
         /\ added' # <<>>
<1>1. added \in Seq(Round)
  BY DEF FifoTypeOK, Round
<1>2. /\ added' \in Seq(Round) /\ Len(added') = Len(added) + 1
      /\ \A k \in 1..Len(added) : added'[k] = added[k]
      /\ added'[Len(added) + 1] = r
      /\ added' # <<>>
      /\ Len(added) \in Nat
  BY <1>1, AppendProperties, LenProperties
<1>3. 1..(Len(added) + 1) = (1..Len(added)) \cup {Len(added) + 1}
  BY <1>2
<1>4. AddedResults' = AddedResults \cup r
  BY <1>2, <1>3 DEF AddedResults
<1> QED
  BY <1>2, <1>4

-----------------------------------------------------------------------------
(* FifoSum: the steps.                                                     *)

\* The programs start with an empty FIFO and nothing added.
LEMMA FifoStartKeeps ==
  ASSUME FifoInv, FifoStart
  PROVE  FifoInv'
<1>1. PICK forked \in SUBSET FifoWorker, left \in SUBSET OldFifoWorker :
        sum_worker' = [w \in SumWorker |-> CASE w \in forked -> "come"
                                             [] w \in left   -> "opening"
                                             [] OTHER        -> "off"]
  BY DEF FifoStart
<1>2. /\ reader = "off" /\ reader' = "open"
      /\ UNCHANGED <<fifo, at_eof, buff, added>>
      /\ added = <<>> /\ fifo = <<>>
  BY DEF FifoStart, FifoInv, Rounds
<1>3. /\ sum_worker' \in [SumWorker -> {"off", "come", "opening"}]
  BY <1>1
<1>4. FifoTypeOK'
  BY <1>2, <1>3 DEF FifoInv, FifoTypeOK
<1>5. AddedResults' = AddedResults /\ AddedResults = {}
  BY <1>2, AddedFinite DEF AddedResults, FifoInv
<1>6. Elements(fifo) = {} /\ Elements(fifo') = {}
  <2>1. Len(fifo) = 0 /\ fifo' = fifo
    BY <1>2
  <2> QED
    BY <2>1 DEF Elements
<1>7. Accounted'
  BY <1>2, <1>3, <1>5, <1>6 DEF Accounted, Delivered, FifoInv
<1>8. AddedSoFar' /\ BufferAdded'
  BY <1>2, <1>5 DEF AddedSoFar, BufferAdded, FifoInv
<1>9. FirstResultComes' /\ Rounds'
  BY <1>2 DEF FirstResultComes, Rounds
<1> QED
  BY <1>4, <1>7, <1>8, <1>9 DEF FifoInv

\* Opening and closing the FIFO moves no result.
LEMMA OpenCloseKeeps ==
  ASSUME FifoInv,
         OpenForReading \/ \E w \in SumWorker : OpenForWriting(w) \/ CloseFifo(w)
  PROVE  FifoInv'
<1>0. FifoTypeOK /\ UNCHANGED <<fifo, at_eof, buff, added>>
  BY DEF FifoInv, OpenForReading, OpenForWriting, CloseFifo
<1>1. AddedResults' = AddedResults /\ Elements(fifo') = Elements(fifo)
  BY <1>0 DEF AddedResults
<1>2. FifoTypeOK'
  BY <1>0 DEF FifoTypeOK, OpenForReading, OpenForWriting, CloseFifo
<1>3. Delivered' = Delivered
  BY <1>0 DEF FifoTypeOK, Delivered, OpenForReading, OpenForWriting, CloseFifo
<1>4. Accounted'
  BY <1>0, <1>1, <1>3 DEF FifoInv, Accounted
<1>5. AddedSoFar' /\ BufferAdded'
  BY <1>0, <1>1 DEF AddedSoFar, BufferAdded, FifoInv
<1>6. Rounds'
  <2>1. CASE reader' = reader
    BY <1>0, <2>1 DEF FifoInv, Rounds
  <2>2. CASE reader' # reader
    <3>1. reader \in {"open", "opening"} /\ reader' \in {"opening", "read"}
      BY <2>2, <1>0 DEF OpenForReading, OpenForWriting, CloseFifo
    <3>2. added = <<>> /\ fifo = <<>> /\ Len(added) = 0
      BY <3>1 DEF FifoInv, Rounds
    <3> QED
      BY <1>0, <3>1, <3>2, FifoConstants DEF Rounds
  <2> QED
    BY <2>1, <2>2
<1>7. FirstResultComes'
  <2>1. CASE OpenForReading
    <3>1. reader' = "read" => \E w \in SumWorker : sum_worker[w] \in {"opening", "opened", "written"}
      BY <2>1 DEF OpenForReading, Writers
    <3>2. \A w \in SumWorker : sum_worker[w] \in {"opening", "opened", "written"} => w \in Writers'
      BY <2>1 DEF OpenForReading, Writers
    <3> QED
      BY <3>1, <3>2 DEF FirstResultComes
  <2>2. ASSUME NEW w \in SumWorker, OpenForWriting(w)
        PROVE  FirstResultComes'
    <3>1. w \in Writers'
      BY <1>0, <2>2 DEF OpenForWriting, Writers, FifoTypeOK
    <3> QED
      BY <3>1 DEF FirstResultComes
  <2>3. ASSUME NEW w \in SumWorker, CloseFifo(w)
        PROVE  FirstResultComes'
    <3>1. w \in Elements(fifo) \cup AddedResults
      BY <2>3 DEF CloseFifo, FifoInv, Accounted, Delivered
    <3>2. added = <<>> => w \in Elements(fifo)
      BY <1>0, <3>1, AddedFinite
    <3>3. w \in Elements(fifo) => fifo # <<>>
      <4>1. fifo = <<>> => Len(fifo) = 0
        OBVIOUS
      <4> QED
        BY <4>1 DEF Elements
    <3> QED
      BY <1>0, <3>2, <3>3 DEF FirstResultComes
  <2> QED
    BY <2>1, <2>2, <2>3
<1> QED
  BY <1>2, <1>4, <1>5, <1>6, <1>7 DEF FifoInv

\* A worker puts in its result, which nobody has seen yet.
LEMMA WriteKeeps ==
  ASSUME FifoInv, NEW w \in SumWorker, WriteResult(w)
  PROVE  FifoInv'
<1>0. /\ FifoTypeOK /\ UNCHANGED <<reader, at_eof, buff, added>>
      /\ sum_worker[w] = "opened"
      /\ AddedResults' = AddedResults
  BY DEF FifoInv, WriteResult, AddedResults
<1>1. w \notin Delivered
  BY <1>0 DEF Delivered
<1>2. CASE reader = "read"
  <2>1. /\ fifo' = Append(fifo, w)
        /\ sum_worker' = [sum_worker EXCEPT ![w] = "written"]
        /\ fifo \in Seq(SumWorker)
    BY <1>0, <1>2 DEF WriteResult, FifoTypeOK
  <2>2. /\ fifo' \in Seq(SumWorker) /\ Len(fifo') = Len(fifo) + 1 /\ Len(fifo) \in Nat
        /\ Elements(fifo') = Elements(fifo) \cup {w}
        /\ Unique(fifo) /\ w \notin Elements(fifo) => Unique(fifo')
    BY <2>1, AppendElements
  <2>3. Delivered' = Delivered \cup {w}
    BY <1>0, <2>1 DEF Delivered, FifoTypeOK
  <2>4. Accounted'
    BY <1>0, <1>1, <2>2, <2>3 DEF Accounted, FifoInv
  <2>5. fifo' # <<>>
    <3>1. Len(fifo') # 0
      BY <2>2
    <3> QED
      BY <3>1
  <2>6. FirstResultComes' /\ Rounds'
    BY <1>0, <1>2, <2>5 DEF FirstResultComes, Rounds, FifoInv
  <2>7. AddedSoFar' /\ BufferAdded'
    BY <1>0 DEF AddedSoFar, BufferAdded, FifoInv
  <2>8. FifoTypeOK'
    BY <1>0, <2>1, <2>2 DEF FifoTypeOK
  <2> QED
    BY <2>4, <2>6, <2>7, <2>8 DEF FifoInv
<1>3. CASE reader # "read"
  <2>1. UNCHANGED fifo /\ sum_worker' = [sum_worker EXCEPT ![w] = "killed"]
    BY <1>3 DEF WriteResult
  <2>2. Delivered' = Delivered
    BY <1>0, <2>1 DEF Delivered, FifoTypeOK
  <2>3. Accounted'
    BY <1>0, <2>1, <2>2 DEF Accounted, FifoInv, Elements, Unique
  <2>4. FirstResultComes' /\ Rounds' /\ AddedSoFar' /\ BufferAdded'
    BY <1>0, <1>3, <2>1 DEF FirstResultComes, Rounds, AddedSoFar, BufferAdded, FifoInv
  <2>5. FifoTypeOK'
    BY <1>0, <2>1 DEF FifoTypeOK
  <2> QED
    BY <2>3, <2>4, <2>5 DEF FifoInv
<1> QED
  BY <1>2, <1>3

\* One round adds the result at the head, or the one before again.
LEMMA AddKeeps ==
  ASSUME FifoInv, AddNext
  PROVE  FifoInv'
<1> DEFINE n == Len(added)
           card == Cardinality(AddedResults)
<1>0. /\ FifoTypeOK /\ reader = "read" /\ n < n_processes
      /\ n \in Nat /\ card \in Nat /\ n_processes \in Nat
      /\ added' = Append(added, buff')
      /\ reader' = IF Len(added') = n_processes THEN "done" ELSE "read"
      /\ sum_worker' = sum_worker /\ Delivered' = Delivered
  BY AddedFinite, FifoConstants DEF FifoInv, Rounds, AddNext, Delivered
<1>1. ASSUME buff' \in Round
      PROVE  /\ added' \in Seq(Round) /\ Len(added') = n + 1
             /\ AddedResults' = AddedResults \cup buff'
             /\ \A k \in 1..n : added'[k] = added[k]
             /\ added'[n + 1] = buff'
             /\ added' # <<>>
             /\ Rounds' /\ FirstResultComes'
  <2>1. /\ added' \in Seq(Round) /\ Len(added') = n + 1
        /\ AddedResults' = AddedResults \cup buff'
        /\ \A k \in 1..n : added'[k] = added[k]
        /\ added'[n + 1] = buff'
        /\ added' # <<>>
    BY <1>0, <1>1, RoundAdds
  <2>2. Rounds'
    BY <1>0, <2>1 DEF Rounds
  <2> QED
    BY <2>1, <2>2 DEF FirstResultComes
<1>2. CASE ~at_eof /\ fifo # <<>> /\ buff' = {Head(fifo)} /\ fifo' = Tail(fifo) /\ at_eof' = at_eof
  <2> DEFINE h == Head(fifo)
  <2>1. /\ fifo' \in Seq(SumWorker) /\ h \in SumWorker
        /\ Elements(fifo) = Elements(fifo') \cup {h}
        /\ Unique(fifo') /\ h \notin Elements(fifo')
    <3>1. fifo \in Seq(SumWorker) /\ Unique(fifo)
      BY DEF FifoInv, FifoTypeOK, Accounted
    <3> QED
      BY <1>2, <3>1, TailElements
  <2>2. buff' = {h} /\ buff' \in Round
    BY <1>2, <2>1 DEF Round
  <2>3. h \notin AddedResults /\ AddedResults' = AddedResults \cup {h}
    BY <1>1, <2>1, <2>2 DEF FifoInv, Accounted
  <2>4. Accounted'
    BY <1>0, <2>1, <2>3 DEF FifoInv, Accounted
  <2>5. Cardinality(AddedResults') = card + 1 /\ card = n
    BY <1>0, <1>2, <2>3, AddedFinite, FS_AddElement DEF FifoInv, AddedSoFar
  <2>6. BufferAdded'
    BY <1>1, <1>2, <2>2, <2>3 DEF BufferAdded
  <2>7. AddedSoFar'
    <3>1. \A k \in 1..(n + 1) : added'[k] # {}
      <4>1. \A k \in 1..n : added[k] # {}
        BY DEF FifoInv, AddedSoFar
      <4>2. added'[n + 1] # {} /\ \A k \in 1..n : added'[k] = added[k]
        BY <1>1, <2>2
      <4>3. \A k \in 1..(n + 1) : k = n + 1 \/ k \in 1..n
        BY <1>0
      <4> HIDE DEF n
      <4> QED
        BY <4>1, <4>2, <4>3
    <3>2. Len(added') = n + 1 /\ at_eof' = FALSE
      BY <1>1, <1>2, <2>2, <1>0 DEF FifoTypeOK
    <3>3. Cardinality(AddedResults') = Len(added')
      BY <2>5, <3>2
    <3> QED
      BY <3>1, <3>2, <3>3 DEF AddedSoFar
  <2>8. FifoTypeOK'
    <3>1. added' \in Seq(Round) /\ Len(added') <= n_processes
      BY <1>0, <1>1, <2>2
    <3>2. reader' \in {"off", "open", "opening", "read", "done"} /\ at_eof' \in BOOLEAN
      BY <1>0, <1>2 DEF FifoTypeOK
    <3> QED
      BY <1>0, <2>1, <2>2, <3>1, <3>2 DEF FifoTypeOK, Round, SumWorker, n_processes
  <2> QED
    BY <1>1, <2>2, <2>4, <2>6, <2>7, <2>8 DEF FifoInv
<1>3. CASE EndOfFile /\ at_eof' = TRUE /\ UNCHANGED <<buff, fifo>>
  <2>1. added # <<>> /\ buff # {} /\ buff \subseteq AddedResults
    <3>1. added # <<>>
      BY <1>0, <1>3 DEF FifoInv, BufferAdded, FirstResultComes, EndOfFile
    <3> QED
      BY <3>1 DEF FifoInv, BufferAdded
  <2>2. buff' = buff /\ buff' \in Round
    BY <1>0, <1>3 DEF FifoTypeOK, Round
  <2>3. AddedResults' = AddedResults
    BY <1>1, <2>1, <2>2
  <2>4. Accounted'
    BY <1>0, <1>3, <2>3 DEF FifoInv, Accounted
  <2>5. BufferAdded'
    BY <1>1, <2>1, <2>2, <2>3 DEF BufferAdded
  <2>6. AddedSoFar'
    <3>1. \A k \in 1..n : added[k] # {}
      BY DEF FifoInv, AddedSoFar
    <3>2. \A k \in (card + 1)..n : added[k] = buff
      BY <1>0 DEF FifoInv, AddedSoFar
    <3>3. \A k \in 1..(n + 1) : added'[k] = IF k = n + 1 THEN buff ELSE added[k]
      <4>1. \A k \in 1..(n + 1) : k = n + 1 \/ k \in 1..n
        BY <1>0
      <4> QED
        BY <1>0, <1>1, <2>2, <4>1
    <3>4. \A k \in 1..(n + 1) : k = n + 1 \/ k \in 1..n
      BY <1>0
    <3>5. \A k \in (card + 1)..(n + 1) : k \in 1..(n + 1) /\ (k = n + 1 \/ k \in (card + 1)..n)
      BY <1>0
    <3>6. \A k \in 1..(n + 1) : added'[k] # {}
      BY <2>1, <3>1, <3>3, <3>4
    <3>7. \A k \in (card + 1)..(n + 1) : added'[k] = buff
      BY <3>2, <3>3, <3>5
    <3> QED
      BY <1>1, <1>3, <2>2, <2>3, <3>6, <3>7 DEF AddedSoFar
  <2>7. FifoTypeOK'
    BY <1>0, <1>1, <1>3, <2>2 DEF FifoTypeOK, Round
  <2> QED
    BY <1>1, <2>2, <2>4, <2>5, <2>6, <2>7 DEF FifoInv
<1> QED
  BY <1>2, <1>3 DEF AddNext

-----------------------------------------------------------------------------
(* FifoSum: the properties.                                                *)

\* The invariant is inductive.
THEOREM FifoInvariant == FifoSpec => []FifoInv
<1>1. ASSUME FifoInit
      PROVE  FifoInv
  <2>1. Len(added) = 0 /\ Len(fifo) = 0 /\ added = <<>> /\ fifo = <<>> /\ buff = {}
    BY <1>1 DEF FifoInit
  <2>2. AddedResults = {} /\ Elements(fifo) = {} /\ Delivered = {}
    <3>1. 1..0 = {}
      OBVIOUS
    <3>2. AddedResults = {}
      BY <2>1, <3>1 DEF AddedResults
    <3>3. Elements(fifo) = {}
      BY <2>1, <3>1 DEF Elements
    <3>4. Delivered = {}
      BY <1>1 DEF FifoInit, Delivered
    <3> QED
      BY <3>2, <3>3, <3>4
  <2>3. FifoTypeOK
    <3>1. added \in Seq({{}} \cup {{w} : w \in SumWorker}) /\ Len(added) <= n_processes
      BY <2>1, FifoConstants
    <3>2. /\ sum_worker \in [SumWorker -> {"off", "come", "opening", "opened", "written",
                                           "closed", "killed"}]
          /\ reader \in {"off", "open", "opening", "read", "done"}
          /\ at_eof \in BOOLEAN
      BY <1>1 DEF FifoInit
    <3>3. fifo \in Seq(SumWorker) /\ buff \in {{}} \cup {{w} : w \in SumWorker}
      BY <2>1
    <3> QED
      BY <3>1, <3>2, <3>3 DEF FifoTypeOK
  <2>4. Accounted /\ BufferAdded
    BY <1>1, <2>1, <2>2 DEF FifoInit, Accounted, BufferAdded, Unique
  <2>5. AddedSoFar
    BY <1>1, <2>1, <2>2, FS_EmptySet DEF FifoInit, AddedSoFar
  <2> QED
    BY <1>1, <2>3, <2>4, <2>5 DEF FifoInit, FifoInv, FirstResultComes, Rounds
<1>2. ASSUME FifoInv, [FifoNext]_fifoVars
      PROVE  FifoInv'
  <2>1. CASE UNCHANGED fifoVars
    <3>1. UNCHANGED <<reader, sum_worker, fifo, at_eof, buff, added>>
      BY <2>1 DEF fifoVars
    <3>2. UNCHANGED <<Delivered, Writers, AddedResults, Elements(fifo), Unique(fifo)>>
      BY <3>1 DEF Delivered, Writers, AddedResults, Elements, Unique
    <3>3. FifoTypeOK'
      BY <1>2, <3>1 DEF FifoInv, FifoTypeOK
    <3>4. Accounted'
      BY <1>2, <3>2 DEF FifoInv, Accounted
    <3>5. FirstResultComes' /\ Rounds' /\ BufferAdded'
      BY <1>2, <3>1, <3>2 DEF FifoInv, FirstResultComes, Rounds, BufferAdded
    <3>6. AddedSoFar'
      BY <1>2, <3>1, <3>2 DEF FifoInv, AddedSoFar
    <3> QED
      BY <3>3, <3>4, <3>5, <3>6 DEF FifoInv
  <2> QED
    BY <1>2, <2>1, FifoStartKeeps, OpenCloseKeeps, WriteKeeps, AddKeeps
       DEF FifoNext, FifoStep, Reader, Writer
<1> QED
  BY <1>1, <1>2, PTL DEF FifoSpec

\* Types are kept; the parent adds no more than n_processes results.
THEOREM FifoTypeCorrect == FifoSpec => []FifoTypeOK
<1>1. FifoInv => FifoTypeOK
  BY DEF FifoInv
<1> QED
  BY <1>1, FifoInvariant, PTL

\* Whatever the order of the opens and the writes, the sum takes every result
\* once until the end of the file, and the last one from then on
\* (main.cpp:76-88).
THEOREM AddedOnceHolds == FifoSpec => []AddedOnce
<1>1. ASSUME FifoInv
      PROVE  AddedOnce
  <2>1. ASSUME reader = "done", ~at_eof, AddedResults \cap OldFifoWorker = {}
        PROVE  AddedResults = FifoWorker
    <3>1. AddedResults \subseteq FifoWorker
      BY <1>1, <2>1, AddedFinite DEF FifoInv, SumWorker
    <3>2. Cardinality(AddedResults) = Cardinality(FifoWorker)
      BY <1>1, <2>1, FifoConstants DEF FifoInv, Rounds, AddedSoFar
    <3> QED
      BY <3>1, <3>2, FifoConstants, FS_Subset
  <2> QED
    BY <1>1, <2>1 DEF FifoInv, AddedSoFar, AddedOnce
<1> QED
  BY <1>1, FifoInvariant, PTL

-----------------------------------------------------------------------------
(* PipePool: the places of an interval.                                    *)

\* Set S is the image of T under a one-to-one function.
LEMMA SameNumber ==
  ASSUME NEW S, NEW T, IsFiniteSet(S), NEW f \in [S -> T],
         \A x, y \in S : f[x] = f[y] => x = y,
         \A y \in T : \E x \in S : f[x] = y
  PROVE  IsFiniteSet(T) /\ Cardinality(T) = Cardinality(S)
<1>1. f \in Bijection(S, T)
  BY DEF Bijection, Injection, Surjection, IsInjective
<1> QED
  BY <1>1, FS_Bijection DEF ExistsBijection

\* The places of k in a queue.
PlacesOf(q, k) == {n \in 1..Len(q) : q[n] = k}

LEMMA CopiesType ==
  ASSUME NEW S, NEW q \in Seq(S), NEW k
  PROVE  /\ IsFiniteSet(PlacesOf(q, k)) /\ Copies(q, k) = Cardinality(PlacesOf(q, k))
         /\ Copies(q, k) \in Nat
         /\ Copies(q, k) = 0 <=> \A n \in 1..Len(q) : q[n] # k
         /\ Copies(<<>>, k) = 0
<1>1. IsFiniteSet(1..Len(q))
  BY LenProperties, FS_Interval
<1>2. IsFiniteSet(PlacesOf(q, k))
  BY <1>1, FS_Subset DEF PlacesOf
<1>3. Copies(q, k) = Cardinality(PlacesOf(q, k))
  BY DEF Copies, PlacesOf
<1>4. Copies(q, k) = 0 <=> PlacesOf(q, k) = {}
  BY <1>2, <1>3, FS_EmptySet
<1>5. Copies(<<>>, k) = 0
  <2>1. {n \in 1..Len(<<>>) : <<>>[n] = k} = {}
    OBVIOUS
  <2> QED
    BY <2>1, FS_EmptySet DEF Copies
<1> QED
  BY <1>2, <1>3, <1>4, <1>5, FS_CardinalityType DEF PlacesOf

\* What is put into a queue is there once more.
LEMMA CopiesAppend ==
  ASSUME NEW S, NEW q \in Seq(S), NEW e \in S, NEW k
  PROVE  Copies(Append(q, e), k) = Copies(q, k) + (IF e = k THEN 1 ELSE 0)
<1> DEFINE q2 == Append(q, e)
<1>1. /\ q2 \in Seq(S) /\ Len(q2) = Len(q) + 1 /\ Len(q) \in Nat
      /\ \A n \in 1..Len(q) : q2[n] = q[n]
      /\ q2[Len(q) + 1] = e
  BY AppendElements
<1> HIDE DEF q2
<1>2. \A n : n \in 1..(Len(q) + 1) <=> n \in 1..Len(q) \/ n = Len(q) + 1
  BY <1>1
<1>3. Len(q) + 1 \notin 1..Len(q)
  BY <1>1
<1>4. /\ IsFiniteSet(PlacesOf(q, k)) /\ Copies(q, k) = Cardinality(PlacesOf(q, k))
      /\ Copies(q, k) \in Nat /\ Copies(q2, k) = Cardinality(PlacesOf(q2, k))
  BY <1>1, CopiesType
<1>5. CASE e = k
  <2>1. PlacesOf(q2, k) = PlacesOf(q, k) \cup {Len(q) + 1}
    BY <1>1, <1>2, <1>5 DEF PlacesOf
  <2>2. Len(q) + 1 \notin PlacesOf(q, k)
    BY <1>3 DEF PlacesOf
  <2>3. Cardinality(PlacesOf(q2, k)) = Cardinality(PlacesOf(q, k)) + 1
    BY <1>4, <2>1, <2>2, FS_AddElement
  <2> QED
    BY <1>4, <1>5, <2>3 DEF q2
<1>6. CASE e # k
  <2>1. PlacesOf(q2, k) = PlacesOf(q, k)
    BY <1>1, <1>2, <1>6 DEF PlacesOf
  <2> QED
    BY <1>4, <1>6, <2>1 DEF q2
<1> QED
  BY <1>5, <1>6

\* What is taken out of a queue is there once less.
LEMMA CopiesTail ==
  ASSUME NEW S, NEW q \in Seq(S), q # <<>>, NEW k
  PROVE  Copies(q, k) = Copies(Tail(q), k) + (IF Head(q) = k THEN 1 ELSE 0)
<1> DEFINE t == Tail(q)
           f == [n \in PlacesOf(t, k) |-> n + 1]
<1>1. /\ t \in Seq(S) /\ Len(t) = Len(q) - 1 /\ Len(q) \in Nat \ {0} /\ Head(q) = q[1]
      /\ \A n \in 1..(Len(q) - 1) : t[n] = q[n + 1]
  BY TailElements
<1> HIDE DEF t
<1>2. /\ IsFiniteSet(PlacesOf(q, k)) /\ Copies(q, k) = Cardinality(PlacesOf(q, k))
      /\ IsFiniteSet(PlacesOf(t, k)) /\ Copies(t, k) = Cardinality(PlacesOf(t, k))
      /\ Copies(q, k) \in Nat /\ Copies(t, k) \in Nat
  BY <1>1, CopiesType
<1>3. f \in [PlacesOf(t, k) -> PlacesOf(q, k) \ {1}]
  BY <1>1 DEF PlacesOf
<1>4. \A x, y \in PlacesOf(t, k) : f[x] = f[y] => x = y
  BY DEF PlacesOf
<1>5. ASSUME NEW y \in PlacesOf(q, k) \ {1}
      PROVE  \E x \in PlacesOf(t, k) : f[x] = y
  <2>1. y \in 2..Len(q) /\ y - 1 \in 1..(Len(q) - 1) /\ (y - 1) + 1 = y
    BY <1>1 DEF PlacesOf
  <2>2. y - 1 \in PlacesOf(t, k)
    BY <1>1, <2>1 DEF PlacesOf
  <2> QED
    BY <2>1, <2>2
<1>6. Cardinality(PlacesOf(q, k) \ {1}) = Cardinality(PlacesOf(t, k))
  <2> DEFINE T == PlacesOf(q, k) \ {1}
             S2 == PlacesOf(t, k)
  <2>1. /\ IsFiniteSet(S2) /\ f \in [S2 -> T]
        /\ \A x, y \in S2 : f[x] = f[y] => x = y
        /\ \A y \in T : \E x \in S2 : f[x] = y
    BY <1>2, <1>3, <1>4, <1>5
  <2> HIDE DEF f, T, S2
  <2>2. Cardinality(T) = Cardinality(S2)
    BY <2>1, SameNumber
  <2> QED
    BY <2>2 DEF T, S2
<1>7. 1 \in PlacesOf(q, k) <=> Head(q) = k
  BY <1>1 DEF PlacesOf
<1>8. Cardinality(PlacesOf(q, k) \ {1}) =
        IF 1 \in PlacesOf(q, k) THEN Cardinality(PlacesOf(q, k)) - 1 ELSE Cardinality(PlacesOf(q, k))
  BY <1>2, FS_RemoveElement
<1> QED
  BY <1>2, <1>6, <1>7, <1>8 DEF t

\* The places of k in the return pipes.
Returned(r, k) ==
  {wn \in PipeWorker \X (1..PipeCapacity) : wn[2] <= Len(r[wn[1]]) /\ r[wn[1]][wn[2]] = k}

LEMMA ReturnedFinite ==
  ASSUME NEW r, NEW k
  PROVE  IsFiniteSet(Returned(r, k)) /\ Cardinality(Returned(r, k)) \in Nat
<1>1. NumPipeWorkers \in Nat /\ PipeCapacity \in Nat
  BY PipeAssumption
<1>2. IsFiniteSet(PipeWorker) /\ IsFiniteSet(1..PipeCapacity)
  BY <1>1, FS_Interval DEF PipeWorker
<1>3. IsFiniteSet(PipeWorker \X (1..PipeCapacity))
  BY <1>2, FS_Product
<1>4. Returned(r, k) \subseteq PipeWorker \X (1..PipeCapacity)
  BY DEF Returned
<1> QED
  BY <1>3, <1>4, FS_Subset, FS_CardinalityType

LEMMA ReturnedAppend ==
  ASSUME NEW r \in [PipeWorker -> Seq(Interval)], NEW w \in PipeWorker, NEW e \in Interval,
         Len(r[w]) < PipeCapacity, NEW k,
         NEW r2, \A v \in PipeWorker : v # w => r2[v] = r[v],
         Len(r2[w]) = Len(r[w]) + 1, r2[w][Len(r[w]) + 1] = e,
         \A m \in 1..Len(r[w]) : r2[w][m] = r[w][m]
  PROVE  Cardinality(Returned(r2, k)) =
           Cardinality(Returned(r, k)) + (IF e = k THEN 1 ELSE 0)
<1> DEFINE n == Len(r[w])
<1>0. PipeCapacity \in Nat
  BY PipeAssumption
<1>1. \A v \in PipeWorker : v # w => r2[v] = r[v]
  OBVIOUS
<1>2. /\ Len(r2[w]) = n + 1 /\ n \in Nat
      /\ \A m \in 1..n : r2[w][m] = r[w][m]
      /\ r2[w][n + 1] = e
  BY LenProperties
<1>3. <<w, n + 1>> \in PipeWorker \X (1..PipeCapacity)
  BY <1>0, <1>2
<1>4. <<w, n + 1>> \notin Returned(r, k)
  BY <1>2 DEF Returned
<1>5. ASSUME NEW v \in PipeWorker, NEW m \in 1..PipeCapacity, <<v, m>> # <<w, n + 1>>
      PROVE  <<v, m>> \in Returned(r2, k) <=> <<v, m>> \in Returned(r, k)
  <2>1. CASE v # w
    BY <1>1, <2>1 DEF Returned
  <2>2. CASE v = w
    <3>1. m # n + 1 /\ m \in Nat
      BY <1>5, <2>2, <1>0
    <3>2. m <= n + 1 <=> m <= n
      BY <1>2, <3>1
    <3>3. m <= n => r2[w][m] = r[w][m]
      BY <1>0, <1>2
    <3> QED
      BY <1>2, <2>2, <3>2, <3>3 DEF Returned
  <2> QED
    BY <2>1, <2>2
<1>6. <<w, n + 1>> \in Returned(r2, k) <=> e = k
  BY <1>2, <1>3 DEF Returned
<1>7. \A x \in PipeWorker \X (1..PipeCapacity) :
        x # <<w, n + 1>> => (x \in Returned(r2, k) <=> x \in Returned(r, k))
  BY <1>5
<1>8. Returned(r, k) \subseteq PipeWorker \X (1..PipeCapacity)
      /\ Returned(r2, k) \subseteq PipeWorker \X (1..PipeCapacity)
  BY DEF Returned
<1>9. Returned(r2, k) = Returned(r, k) \cup (IF e = k THEN {<<w, n + 1>>} ELSE {})
  BY <1>3, <1>4, <1>6, <1>7, <1>8
<1>10. IsFiniteSet(Returned(r, k)) /\ Cardinality(Returned(r, k)) \in Nat
  BY ReturnedFinite
<1>11. CASE e = k
  <2>1. PICK x : x = <<w, n + 1>>
    OBVIOUS
  <2>2. Returned(r2, k) = Returned(r, k) \cup {x} /\ x \notin Returned(r, k)
    BY <1>4, <1>9, <1>11, <2>1
  <2>3. PICK s : s = Returned(r, k)
    OBVIOUS
  <2>4. IsFiniteSet(s) /\ x \notin s
    BY <1>10, <2>2, <2>3
  <2>5. Cardinality(s \cup {x}) = Cardinality(s) + 1
    BY <2>4, FS_AddElement
  <2>6. Cardinality(Returned(r2, k)) = Cardinality(Returned(r, k)) + 1
    BY <2>2, <2>3, <2>5
  <2> QED
    BY <1>11, <2>6
<1>12. CASE e # k
  <2>1. Returned(r2, k) = Returned(r, k)
    BY <1>9, <1>12
  <2> QED
    BY <1>10, <1>12, <2>1
<1> QED
  BY <1>11, <1>12

\* What is taken from a return pipe is not in it any more.
LEMMA ReturnedTail ==
  ASSUME NEW r \in [PipeWorker -> Seq(Interval)], NEW w \in PipeWorker,
         Len(r[w]) \in 1..PipeCapacity, NEW k,
         NEW r2, \A v \in PipeWorker : v # w => r2[v] = r[v],
         Len(r2[w]) = Len(r[w]) - 1, \A m \in 1..(Len(r[w]) - 1) : r2[w][m] = r[w][m + 1],
         NEW e, r[w][1] = e
  PROVE  Cardinality(Returned(r, k)) = Cardinality(Returned(r2, k)) + (IF e = k THEN 1 ELSE 0)
<1> DEFINE n == Len(r[w])
           first == <<w, 1>>
           f == [x \in Returned(r2, k) |-> IF x[1] = w THEN <<w, x[2] + 1>> ELSE x]
<1>0. PipeCapacity \in Nat
  BY PipeAssumption
<1>1. \A v \in PipeWorker : v # w => r2[v] = r[v]
  OBVIOUS
<1>2. /\ Len(r2[w]) = n - 1 /\ n \in Nat \ {0}
      /\ \A m \in 1..(n - 1) : r2[w][m] = r[w][m + 1]
  BY <1>0
<1> HIDE DEF n
<1>n. n = Len(r[w]) /\ n <= PipeCapacity
  BY DEF n
<1>3. /\ \A m : <<w, m>> \in Returned(r2, k) <=>
                  m \in 1..PipeCapacity /\ m <= n - 1 /\ r2[w][m] = k
      /\ \A m : <<w, m>> \in Returned(r, k) <=>
                  m \in 1..PipeCapacity /\ m <= n /\ r[w][m] = k
  BY <1>2, <1>n DEF Returned
<1>4. /\ \A m : <<w, m>> \in Returned(r2, k) => m \in Nat /\ <<w, m + 1>> \in Returned(r, k) \ {first}
      /\ \A m : <<w, m>> \in Returned(r, k) \ {first} =>
                  m \in Nat /\ <<w, m - 1>> \in Returned(r2, k) /\ (m - 1) + 1 = m
  <2>1. ASSUME NEW m, <<w, m>> \in Returned(r2, k)
        PROVE  m \in Nat /\ <<w, m + 1>> \in Returned(r, k) \ {first}
    <3>1. m \in 1..(n - 1) /\ r2[w][m] = k /\ m + 1 \in 1..PipeCapacity /\ m + 1 <= n /\ m + 1 # 1
      BY <1>0, <1>2, <1>3, <1>n, <2>1
    <3>2. r[w][m + 1] = k
      BY <1>2, <3>1
    <3> QED
      BY <1>3, <3>1, <3>2
  <2>2. ASSUME NEW m, <<w, m>> \in Returned(r, k) \ {first}
        PROVE  m \in Nat /\ <<w, m - 1>> \in Returned(r2, k) /\ (m - 1) + 1 = m
    <3>1. m # 1 /\ m \in 1..PipeCapacity /\ m <= n /\ r[w][m] = k
      BY <1>3, <2>2
    <3>2. m - 1 \in 1..(n - 1) /\ m - 1 \in 1..PipeCapacity /\ (m - 1) + 1 = m
      <4>1. n \in Nat /\ PipeCapacity \in Nat
        BY <1>0, <1>2
      <4>2. m \in Nat /\ m >= 1 /\ m # 1 /\ m <= n /\ m <= PipeCapacity
        BY <4>1, <3>1
      <4> QED
        BY <4>1, <4>2
    <3>3. r2[w][m - 1] = k
      BY <1>2, <3>1, <3>2
    <3> QED
      BY <1>3, <3>1, <3>2, <3>3
  <2> QED
    BY <2>1, <2>2
<1>5. /\ \A x \in Returned(r, k) : x = <<x[1], x[2]>> /\ x[1] \in PipeWorker
      /\ \A x \in Returned(r2, k) : x = <<x[1], x[2]>> /\ x[1] \in PipeWorker
      /\ \A x : x[1] # w => (x \in Returned(r2, k) <=> x \in Returned(r, k))
  BY <1>1 DEF Returned
<1>6. f \in [Returned(r2, k) -> Returned(r, k) \ {first}]
  <2>1. ASSUME NEW x \in Returned(r2, k)
        PROVE  (IF x[1] = w THEN <<w, x[2] + 1>> ELSE x) \in Returned(r, k) \ {first}
    <3>1. CASE x[1] = w
      BY <1>4, <1>5, <3>1
    <3>2. CASE x[1] # w
      BY <1>5, <3>2
    <3> QED
      BY <3>1, <3>2
  <2> QED
    BY <2>1
<1>7. ASSUME NEW x \in Returned(r2, k), NEW y \in Returned(r2, k), f[x] = f[y]
      PROVE  x = y
  <2>1. x[2] \in Nat /\ y[2] \in Nat
    BY <1>0 DEF Returned
  <2>2. x = <<x[1], x[2]>> /\ y = <<y[1], y[2]>>
    BY <1>5
  <2>3. CASE x[1] = w /\ y[1] = w
    <3>1. x[2] + 1 = y[2] + 1
      BY <1>7, <2>3
    <3> QED
      BY <2>1, <2>2, <2>3, <3>1
  <2>4. CASE x[1] # w /\ y[1] # w
    BY <1>7, <2>4
  <2>5. CASE x[1] = w /\ y[1] # w
    <3>1. y = <<w, x[2] + 1>>
      BY <1>7, <2>5
    <3> QED
      BY <2>5, <3>1
  <2>6. CASE x[1] # w /\ y[1] = w
    <3>1. x = <<w, y[2] + 1>>
      BY <1>7, <2>6
    <3> QED
      BY <2>6, <3>1
  <2> QED
    BY <2>3, <2>4, <2>5, <2>6
<1>8. ASSUME NEW y \in Returned(r, k) \ {first}
      PROVE  \E x \in Returned(r2, k) : f[x] = y
  <2>1. CASE y[1] = w
    <3>1. y = <<w, y[2]>>
      BY <1>5, <2>1
    <3>2. <<w, y[2] - 1>> \in Returned(r2, k) /\ (y[2] - 1) + 1 = y[2]
      BY <1>4, <3>1
    <3>3. f[<<w, y[2] - 1>>] = <<w, (y[2] - 1) + 1>>
      BY <3>2
    <3> QED
      BY <3>1, <3>2, <3>3
  <2>2. CASE y[1] # w
    <3>1. y \in Returned(r2, k) /\ f[y] = y
      BY <1>5, <2>2
    <3> QED
      BY <3>1
  <2> QED
    BY <2>1, <2>2
<1>9. IsFiniteSet(Returned(r, k)) /\ Cardinality(Returned(r, k)) \in Nat
      /\ IsFiniteSet(Returned(r2, k)) /\ Cardinality(Returned(r2, k)) \in Nat
  BY ReturnedFinite
<1>10. Cardinality(Returned(r, k) \ {first}) = Cardinality(Returned(r2, k))
  <2> HIDE DEF f, first
  <2> QED
    BY <1>6, <1>7, <1>8, <1>9, SameNumber
<1>11. first \in Returned(r, k) <=> e = k
  BY <1>0, <1>2, <1>3, <1>n
<1>12. Cardinality(Returned(r, k) \ {first}) =
         IF first \in Returned(r, k) THEN Cardinality(Returned(r, k)) - 1
                                     ELSE Cardinality(Returned(r, k))
  BY <1>9, FS_RemoveElement
<1> QED
  BY <1>9, <1>10, <1>11, <1>12

-----------------------------------------------------------------------------
(* PipePool: the invariant.                                                *)

Holders(k) == {w \in PipeWorker : taken[w] = k}

\* An interval that has been written is in one place, any other in none.
OnePlace == \A k \in Interval : Whereabouts(k) = IF k <= written THEN 1 ELSE 0

\* A worker holds an interval just while it is at work on it.
Hands == \A w \in PipeWorker : taken[w] # 0 <=> worker[w] = "answer"

\* The parent forks its workers in order, then writes, and then sums up.
Stages ==
  /\ master \in {"off", "write"} => stream = 0
  /\ master = "off" <=> intervals = 0
  /\ master \in {"sum", "done"} => written = intervals
  /\ \A w \in PipeWorker : master = "off" \/ (master = "fork" /\ w >= stream) => worker[w] = "unborn"

\* A worker leaves when the data pipe is empty for good.
NoneLeaves ==
  \A w \in PipeWorker : worker[w] = "exited" => master \in {"sum", "done"} /\ data_pipe = <<>>

\* The streams the parent has read to the end stay at their end.
StreamsRead ==
  \A w \in PipeWorker : master = "done" \/ (master = "sum" /\ w < stream) =>
    return_pipe[w] = <<>> /\ worker[w] \in {"exited", "missing"}

PipeInv ==
  /\ PipeTypeOK
  /\ OnePlace
  /\ Hands
  /\ Stages
  /\ NoneLeaves
  /\ StreamsRead

LEMMA PipeConstants ==
  /\ NumPipeWorkers \in Nat \ {0} /\ PipeCapacity \in Nat \ {0}
  /\ IsFiniteSet(PipeWorker) /\ PipeWorker \subseteq Nat /\ 0 \in PipeWorker
  /\ Interval \subseteq Nat \ {0}
<1>1. NumPipeWorkers \in Nat \ {0} /\ PipeCapacity \in Nat \ {0}
  BY PipeAssumption
<1> QED
  BY <1>1, FS_Interval DEF PipeWorker, Interval

\* The four numbers that make up the whereabouts.
LEMMA Places ==
  ASSUME PipeTypeOK, NEW k \in Interval
  PROVE  /\ Whereabouts(k) = Copies(data_pipe, k) + sum[k] + Cardinality(Holders(k))
                               + Cardinality(Returned(return_pipe, k))
         /\ Copies(data_pipe, k) \in Nat /\ sum[k] \in Nat
         /\ IsFiniteSet(Holders(k)) /\ Cardinality(Holders(k)) \in Nat
         /\ Cardinality(Returned(return_pipe, k)) \in Nat
<1>1. IsFiniteSet(Holders(k)) /\ Cardinality(Holders(k)) \in Nat
  BY PipeConstants, FS_Subset, FS_CardinalityType DEF Holders
<1>2. Copies(data_pipe, k) \in Nat /\ sum[k] \in Nat
  BY CopiesType DEF PipeTypeOK
<1>3. Cardinality(Returned(return_pipe, k)) \in Nat
  BY ReturnedFinite
<1>4. Whereabouts(k) = Copies(data_pipe, k) + sum[k] + Cardinality(Holders(k))
                         + Cardinality(Returned(return_pipe, k))
  BY DEF Whereabouts, Holders, Returned
<1> QED
  BY <1>1, <1>2, <1>3, <1>4

\* The same after a step.
LEMMA PlacesAfter ==
  ASSUME PipeTypeOK', NEW k \in Interval
  PROVE  /\ Whereabouts(k)' = Copies(data_pipe', k) + sum'[k] + Cardinality(Holders(k)')
                                + Cardinality(Returned(return_pipe', k))
         /\ Copies(data_pipe', k) \in Nat /\ sum'[k] \in Nat
         /\ IsFiniteSet(Holders(k)') /\ Cardinality(Holders(k)') \in Nat
         /\ Cardinality(Returned(return_pipe', k)) \in Nat
<1>1. IsFiniteSet(Holders(k)') /\ Cardinality(Holders(k)') \in Nat
  BY PipeConstants, FS_Subset, FS_CardinalityType DEF Holders
<1>2. Copies(data_pipe', k) \in Nat /\ sum'[k] \in Nat
  BY CopiesType DEF PipeTypeOK
<1>3. Cardinality(Returned(return_pipe', k)) \in Nat
  BY ReturnedFinite
<1>4. Whereabouts(k)' = Copies(data_pipe', k) + sum'[k] + Cardinality(Holders(k)')
                          + Cardinality(Returned(return_pipe', k))
  BY DEF Whereabouts, Holders, Returned, Copies
<1> QED
  BY <1>1, <1>2, <1>3, <1>4

-----------------------------------------------------------------------------
(* PipePool: the steps.                                                    *)

\* A step that moves no interval.
LEMMA Unmoved ==
  ASSUME OnePlace, UNCHANGED <<data_pipe, sum, taken, return_pipe, written>>
  PROVE  OnePlace'
BY DEF OnePlace, Whereabouts, Copies

\* The parent goes from one worker to the next.
LEMMA OneStreamOn ==
  ASSUME PipeTypeOK, NEW l, NextStream(l)
  PROVE  /\ stream' \in PipeWorker
         /\ \/ stream' = stream + 1 /\ master' = master
            \/ stream' = 0 /\ master' = l /\ stream = NumPipeWorkers - 1
BY PipeConstants DEF PipeTypeOK, NextStream, PipeWorker

LEMMA PipeStartKeeps ==
  ASSUME PipeInv, PipeStart
  PROVE  PipeInv'
<1>1. PipeTypeOK'
  <2>1. written = 0
    BY DEF PipeInv, PipeTypeOK, Stages, PipeStart
  <2> QED
    BY PipeConstants, <2>1 DEF PipeInv, PipeTypeOK, PipeStart
<1>2. OnePlace'
  BY Unmoved DEF PipeInv, PipeStart
<1>3. Hands' /\ NoneLeaves' /\ StreamsRead'
  BY DEF PipeInv, Hands, NoneLeaves, StreamsRead, PipeStart
<1>4. Stages'
  BY PipeConstants DEF PipeInv, Stages, PipeStart
<1> QED
  BY <1>1, <1>2, <1>3, <1>4 DEF PipeInv

LEMMA PipeForkKeeps ==
  ASSUME PipeInv, ForkWorker
  PROVE  PipeInv'
<1>0. /\ PipeTypeOK /\ Stages /\ NoneLeaves /\ Hands
      /\ master = "fork" /\ stream \in PipeWorker /\ worker[stream] = "unborn"
      /\ UNCHANGED <<intervals, written, data_pipe, taken, return_pipe, sum>>
      /\ intervals # 0
  BY PipeConstants DEF PipeInv, PipeTypeOK, Stages, ForkWorker, PipeWorker
<1>1. PICK s \in {"born", "missing"} : worker' = [worker EXCEPT ![stream] = s]
  BY DEF ForkWorker
<1>2. /\ stream' \in PipeWorker
      /\ \/ stream' = stream + 1 /\ master' = "fork"
         \/ stream' = 0 /\ master' = "write" /\ stream = NumPipeWorkers - 1
  BY <1>0, OneStreamOn DEF ForkWorker
<1>3. PipeTypeOK'
  BY <1>0, <1>1, <1>2 DEF PipeTypeOK
<1>4. OnePlace'
  BY <1>0, Unmoved DEF PipeInv
<1>5. Hands' /\ NoneLeaves' /\ StreamsRead'
  BY <1>0, <1>1, <1>2 DEF PipeTypeOK, Hands, NoneLeaves, StreamsRead
<1>6. Stages'
  BY <1>0, <1>1, <1>2, PipeConstants DEF PipeTypeOK, Stages
<1> QED
  BY <1>3, <1>4, <1>5, <1>6 DEF PipeInv

LEMMA WriteIntervalKeeps ==
  ASSUME PipeInv, WriteInterval
  PROVE  PipeInv'
<1>0. /\ PipeTypeOK /\ master = "write" /\ written < intervals /\ Len(data_pipe) < PipeCapacity
      /\ written' = written + 1 /\ data_pipe' = Append(data_pipe, written + 1)
      /\ UNCHANGED <<master, stream, intervals, worker, taken, return_pipe, sum>>
      /\ data_pipe \in Seq(Interval) /\ written \in Nat
  BY PipeConstants DEF PipeInv, PipeTypeOK, WriteInterval
<1>1. written + 1 \in Interval /\ written' \in 0..intervals
  BY <1>0, PipeConstants DEF PipeTypeOK, Interval
<1>2. data_pipe' \in Seq(Interval) /\ Len(data_pipe') = Len(data_pipe) + 1 /\ Len(data_pipe) \in Nat
  BY <1>0, <1>1, AppendElements
<1>3. PipeTypeOK'
  BY <1>0, <1>1, <1>2, PipeConstants DEF PipeTypeOK
<1>4. OnePlace'
  <2> SUFFICES ASSUME NEW k \in Interval
               PROVE  Whereabouts(k)' = IF k <= written' THEN 1 ELSE 0
    BY DEF OnePlace
  <2>1. Copies(data_pipe', k) = Copies(data_pipe, k) + (IF written + 1 = k THEN 1 ELSE 0)
    BY <1>0, <1>1, CopiesAppend
  <2>2. Holders(k)' = Holders(k) /\ sum' = sum /\ return_pipe' = return_pipe
    BY <1>0 DEF Holders
  <2>3. Whereabouts(k)' = Whereabouts(k) + (IF written + 1 = k THEN 1 ELSE 0)
    <3>1. /\ Whereabouts(k) = Copies(data_pipe, k) + sum[k] + Cardinality(Holders(k))
                               + Cardinality(Returned(return_pipe, k))
          /\ Copies(data_pipe, k) \in Nat /\ sum[k] \in Nat
          /\ Cardinality(Holders(k)) \in Nat /\ Cardinality(Returned(return_pipe, k)) \in Nat
      BY <1>0, Places
    <3>2. Whereabouts(k)' = Copies(data_pipe', k) + sum'[k] + Cardinality(Holders(k)')
                              + Cardinality(Returned(return_pipe', k))
      BY <1>3, PlacesAfter
    <3> QED
      BY <2>1, <2>2, <3>1, <3>2
  <2>4. Whereabouts(k) = IF k <= written THEN 1 ELSE 0
    BY DEF PipeInv, OnePlace
  <2>5. k \in Nat
    BY PipeConstants
  <2> QED
    BY <1>0, <2>3, <2>4, <2>5
<1>5. Hands' /\ StreamsRead'
  BY <1>0 DEF PipeInv, Hands, StreamsRead
<1>6. NoneLeaves' /\ Stages'
  BY <1>0 DEF PipeInv, NoneLeaves, Stages
<1> QED
  BY <1>3, <1>4, <1>5, <1>6 DEF PipeInv

LEMMA CloseKeeps ==
  ASSUME PipeInv, CloseDataPipe
  PROVE  PipeInv'
<1>0. /\ PipeTypeOK /\ master = "write" /\ written = intervals /\ master' = "sum" /\ stream = 0
      /\ UNCHANGED <<stream, intervals, written, data_pipe, worker, taken, return_pipe, sum>>
  BY DEF PipeInv, Stages, CloseDataPipe
<1>1. PipeTypeOK'
  BY <1>0 DEF PipeTypeOK
<1>2. OnePlace'
  BY <1>0, Unmoved DEF PipeInv
<1>3. Hands' /\ NoneLeaves' /\ Stages'
  BY <1>0 DEF PipeInv, Hands, NoneLeaves, Stages
<1>4. StreamsRead'
  BY <1>0, PipeConstants DEF StreamsRead, PipeWorker
<1> QED
  BY <1>1, <1>2, <1>3, <1>4 DEF PipeInv

LEMMA AddResultKeeps ==
  ASSUME PipeInv, AddResult
  PROVE  PipeInv'
<1> DEFINE q == return_pipe[stream]
           h == Head(q)
<1>0. /\ PipeTypeOK /\ master = "sum" /\ q # <<>>
      /\ sum' = [sum EXCEPT ![h] = @ + 1]
      /\ return_pipe' = [return_pipe EXCEPT ![stream] = Tail(@)]
      /\ UNCHANGED <<master, stream, intervals, written, data_pipe, worker, taken>>
      /\ stream \in PipeWorker /\ return_pipe \in [PipeWorker -> Seq(Interval)]
      /\ Len(q) <= PipeCapacity /\ sum \in [Interval -> Nat]
  BY DEF PipeInv, PipeTypeOK, AddResult
<1>1. /\ Tail(q) \in Seq(Interval) /\ Len(Tail(q)) = Len(q) - 1 /\ Len(q) \in Nat
      /\ h \in Interval
  BY <1>0, TailElements
<1>2. PipeTypeOK'
  <2>1. return_pipe' \in [PipeWorker -> Seq(Interval)]
    BY <1>0, <1>1
  <2>2. \A w \in PipeWorker : Len(return_pipe'[w]) <= PipeCapacity
    BY <1>0, <1>1, PipeConstants DEF PipeTypeOK
  <2>3. sum' \in [Interval -> Nat]
    BY <1>0, <1>1
  <2> QED
    BY <1>0, <2>1, <2>2, <2>3 DEF PipeTypeOK
<1>3. OnePlace'
  <2> SUFFICES ASSUME NEW k \in Interval
               PROVE  Whereabouts(k)' = IF k <= written' THEN 1 ELSE 0
    BY DEF OnePlace
  <2>1. Cardinality(Returned(return_pipe, k)) =
          Cardinality(Returned(return_pipe', k)) + (IF h = k THEN 1 ELSE 0)
    <3>1. q \in Seq(Interval) /\ q # <<>> /\ Len(q) <= PipeCapacity
      BY <1>0
    <3>2. /\ Len(Tail(q)) = Len(q) - 1 /\ Len(q) \in Nat \ {0} /\ h = q[1]
          /\ \A m \in 1..(Len(q) - 1) : Tail(q)[m] = q[m + 1]
      BY <3>1, TailElements
    <3>3. PICK r \in [PipeWorker -> Seq(Interval)] : r = return_pipe
      BY <1>0
    <3>4. PICK r2 : r2 = return_pipe'
      OBVIOUS
    <3>5. r2[stream] = Tail(q) /\ r[stream] = q /\ \A v \in PipeWorker : v # stream => r2[v] = r[v]
      BY <1>0, <3>3, <3>4
    <3>6. Len(r[stream]) \in 1..PipeCapacity
      BY <3>1, <3>2, <3>5
    <3>7. /\ Len(r2[stream]) = Len(r[stream]) - 1
          /\ \A m \in 1..(Len(r[stream]) - 1) : r2[stream][m] = r[stream][m + 1]
      BY <3>2, <3>5
    <3>8. stream \in PipeWorker
      BY <1>0
    <3> HIDE DEF q, h
    <3>9. PICK first : first = h
      OBVIOUS
    <3>10. r[stream][1] = first
      BY <3>2, <3>5, <3>9
    <3>11. PICK w \in PipeWorker : w = stream
      BY <3>8
    <3>12. /\ Len(r[w]) \in 1..PipeCapacity
           /\ \A v \in PipeWorker : v # w => r2[v] = r[v]
           /\ Len(r2[w]) = Len(r[w]) - 1
           /\ \A m \in 1..(Len(r[w]) - 1) : r2[w][m] = r[w][m + 1]
           /\ r[w][1] = first
      BY <3>5, <3>6, <3>7, <3>10, <3>11
    <3>13. Cardinality(Returned(r, k)) = Cardinality(Returned(r2, k)) + (IF first = k THEN 1 ELSE 0)
      BY <3>12, ReturnedTail
    <3> QED
      BY <3>3, <3>4, <3>9, <3>13
  <2>2. Holders(k)' = Holders(k) /\ data_pipe' = data_pipe
    BY <1>0 DEF Holders
  <2>3. sum'[k] = sum[k] + (IF h = k THEN 1 ELSE 0)
    BY <1>0
  <2>4. Whereabouts(k)' = Whereabouts(k)
    <3>1. /\ Whereabouts(k) = Copies(data_pipe, k) + sum[k] + Cardinality(Holders(k))
                               + Cardinality(Returned(return_pipe, k))
          /\ Copies(data_pipe, k) \in Nat /\ sum[k] \in Nat
          /\ Cardinality(Holders(k)) \in Nat
      BY <1>0, Places
    <3>2. /\ Whereabouts(k)' = Copies(data_pipe', k) + sum'[k] + Cardinality(Holders(k)')
                              + Cardinality(Returned(return_pipe', k))
          /\ Cardinality(Returned(return_pipe', k)) \in Nat
      BY <1>2, PlacesAfter
    <3> HIDE DEF h, q
    <3> QED
      BY <2>1, <2>2, <2>3, <3>1, <3>2
  <2> QED
    BY <1>0, <2>4 DEF PipeInv, OnePlace
<1>4. Hands' /\ NoneLeaves' /\ Stages'
  BY <1>0 DEF PipeInv, Hands, NoneLeaves, Stages
<1>5. StreamsRead'
  <2>1. \A w \in PipeWorker : w < stream => w # stream
    BY <1>0, PipeConstants
  <2> QED
    BY <1>0, <2>1 DEF PipeInv, StreamsRead
<1> QED
  BY <1>2, <1>3, <1>4, <1>5 DEF PipeInv

LEMMA NextWorkerKeeps ==
  ASSUME PipeInv, NextWorker
  PROVE  PipeInv'
<1>0. /\ PipeTypeOK /\ master = "sum" /\ NoMoreResults(stream) /\ stream \in PipeWorker
      /\ UNCHANGED <<intervals, written, data_pipe, worker, taken, return_pipe, sum>>
  BY DEF PipeInv, PipeTypeOK, NextWorker
<1>1. /\ stream' \in PipeWorker
      /\ \/ stream' = stream + 1 /\ master' = "sum"
         \/ stream' = 0 /\ master' = "done" /\ stream = NumPipeWorkers - 1
  BY <1>0, OneStreamOn DEF NextWorker
<1>2. PipeTypeOK'
  BY <1>0, <1>1 DEF PipeTypeOK
<1>3. OnePlace'
  BY <1>0, Unmoved DEF PipeInv
<1>4. Hands' /\ NoneLeaves' /\ Stages'
  BY <1>0, <1>1 DEF PipeInv, Hands, NoneLeaves, Stages
<1>5. StreamsRead'
  <2>1. \A w \in PipeWorker :
          (master' = "done" \/ (master' = "sum" /\ w < stream')) => w < stream \/ w = stream
    BY <1>0, <1>1, PipeConstants DEF PipeWorker
  <2>2. \A w \in PipeWorker : w < stream \/ w = stream =>
          return_pipe[w] = <<>> /\ worker[w] \in {"exited", "missing"}
    BY <1>0 DEF PipeInv, StreamsRead, NoMoreResults
  <2> QED
    BY <1>0, <2>1, <2>2 DEF StreamsRead
<1> QED
  BY <1>2, <1>3, <1>4, <1>5 DEF PipeInv

\* The steps of a worker that move nothing.
LEMMA CloseOrExitKeeps ==
  ASSUME PipeInv, NEW w \in PipeWorker, CloseWriteEnd(w) \/ ExitWorker(w)
  PROVE  PipeInv'
<1>0. /\ PipeTypeOK /\ UNCHANGED <<masterVars, data_pipe, taken, return_pipe>>
      /\ \/ worker[w] = "born" /\ worker' = [worker EXCEPT ![w] = "read"]
         \/ /\ worker[w] = "read" /\ worker' = [worker EXCEPT ![w] = "exited"]
            /\ data_pipe = <<>> /\ ~DataPipeOpen
  BY DEF PipeInv, CloseWriteEnd, ExitWorker
<1>1. UNCHANGED <<master, stream, intervals, written, sum>>
  BY <1>0 DEF masterVars
<1>2. PipeTypeOK'
  BY <1>0, <1>1 DEF PipeTypeOK
<1>3. OnePlace'
  BY <1>0, <1>1, Unmoved DEF PipeInv
<1>4. Hands' /\ Stages' /\ StreamsRead'
  BY <1>0, <1>1 DEF PipeInv, PipeTypeOK, Hands, Stages, StreamsRead
<1>5. NoneLeaves'
  <2>1. master # "off"
    BY <1>0 DEF PipeInv, Stages
  <2>2. ~DataPipeOpen => master \in {"sum", "done"}
    BY <1>0, <2>1 DEF PipeTypeOK, DataPipeOpen
  <2> QED
    BY <1>0, <1>1, <2>2 DEF PipeInv, PipeTypeOK, NoneLeaves
<1> QED
  BY <1>2, <1>3, <1>4, <1>5 DEF PipeInv

LEMMA TakeKeeps ==
  ASSUME PipeInv, NEW w \in PipeWorker, TakeInterval(w)
  PROVE  PipeInv'
<1> DEFINE h == Head(data_pipe)
<1>0. /\ PipeTypeOK /\ worker[w] = "read" /\ data_pipe # <<>>
      /\ taken' = [taken EXCEPT ![w] = h] /\ data_pipe' = Tail(data_pipe)
      /\ worker' = [worker EXCEPT ![w] = "answer"]
      /\ UNCHANGED <<master, stream, intervals, written, sum, return_pipe>>
      /\ data_pipe \in Seq(Interval)
      /\ taken \in [PipeWorker -> Interval \cup {0}] /\ taken[w] = 0
  BY DEF PipeInv, PipeTypeOK, TakeInterval, masterVars, Hands
<1>1. /\ data_pipe' \in Seq(Interval) /\ Len(data_pipe') = Len(data_pipe) - 1
      /\ Len(data_pipe) \in Nat /\ h \in Interval
  BY <1>0, TailElements
<1>2. PipeTypeOK'
  <2>1. Len(data_pipe') <= PipeCapacity
    BY <1>0, <1>1, PipeConstants DEF PipeTypeOK
  <2> QED
    BY <1>0, <1>1, <2>1 DEF PipeTypeOK
<1>3. OnePlace'
  <2> SUFFICES ASSUME NEW k \in Interval
               PROVE  Whereabouts(k)' = IF k <= written' THEN 1 ELSE 0
    BY DEF OnePlace
  <2>1. Copies(data_pipe, k) = Copies(data_pipe', k) + (IF h = k THEN 1 ELSE 0)
    BY <1>0, CopiesTail
  <2>2. k # 0
    BY PipeConstants
  <2>3. Cardinality(Holders(k)') = Cardinality(Holders(k)) + (IF h = k THEN 1 ELSE 0)
    <3>1. Holders(k)' = Holders(k) \cup (IF h = k THEN {w} ELSE {})
      BY <1>0, <2>2 DEF Holders
    <3>2. w \notin Holders(k)
      BY <1>0, <2>2 DEF Holders
    <3>3. IsFiniteSet(Holders(k)) /\ Cardinality(Holders(k)) \in Nat
      BY <1>0, Places
    <3>4. CASE h = k
      <4>1. Holders(k)' = Holders(k) \cup {w}
        BY <3>1, <3>4
      <4> QED
        BY <3>2, <3>3, <3>4, <4>1, FS_AddElement
    <3>5. CASE h # k
      <4>1. Holders(k)' = Holders(k)
        BY <3>1, <3>5
      <4> QED
        BY <3>3, <3>5, <4>1
    <3> QED
      BY <3>4, <3>5
  <2>4. Whereabouts(k)' = Whereabouts(k)
    <3>1. /\ Whereabouts(k) = Copies(data_pipe, k) + sum[k] + Cardinality(Holders(k))
                               + Cardinality(Returned(return_pipe, k))
          /\ sum[k] \in Nat
          /\ Cardinality(Holders(k)) \in Nat /\ Cardinality(Returned(return_pipe, k)) \in Nat
      BY <1>0, Places
    <3>2. /\ Whereabouts(k)' = Copies(data_pipe', k) + sum'[k] + Cardinality(Holders(k)')
                              + Cardinality(Returned(return_pipe', k))
          /\ Copies(data_pipe', k) \in Nat
      BY <1>2, PlacesAfter
    <3>3. return_pipe' = return_pipe /\ sum' = sum
      BY <1>0
    <3> HIDE DEF h
    <3> QED
      BY <2>1, <2>3, <3>1, <3>2, <3>3
  <2> QED
    BY <1>0, <2>4 DEF PipeInv, OnePlace
<1>4. Hands' /\ Stages' /\ StreamsRead'
  <2>1. h # 0
    BY <1>1, PipeConstants
  <2> QED
    BY <1>0, <2>1 DEF PipeInv, PipeTypeOK, Hands, Stages, StreamsRead
<1>5. NoneLeaves'
  BY <1>0 DEF PipeInv, PipeTypeOK, NoneLeaves
<1> QED
  BY <1>2, <1>3, <1>4, <1>5 DEF PipeInv

LEMMA AnswerKeeps ==
  ASSUME PipeInv, NEW w \in PipeWorker, Answer(w)
  PROVE  PipeInv'
<1> DEFINE e == taken[w]
<1>0. /\ PipeTypeOK /\ worker[w] = "answer" /\ Len(return_pipe[w]) < PipeCapacity
      /\ return_pipe' = [return_pipe EXCEPT ![w] = Append(@, e)]
      /\ taken' = [taken EXCEPT ![w] = 0]
      /\ worker' = [worker EXCEPT ![w] = "read"]
      /\ UNCHANGED <<master, stream, intervals, written, sum, data_pipe>>
      /\ return_pipe \in [PipeWorker -> Seq(Interval)]
      /\ taken \in [PipeWorker -> Interval \cup {0}] /\ e \in Interval
  BY DEF PipeInv, PipeTypeOK, Answer, masterVars, Hands
<1>1. /\ Append(return_pipe[w], e) \in Seq(Interval)
      /\ Len(Append(return_pipe[w], e)) = Len(return_pipe[w]) + 1
      /\ Len(return_pipe[w]) \in Nat
  BY <1>0, AppendElements
<1>2. PipeTypeOK'
  <2>1. return_pipe' \in [PipeWorker -> Seq(Interval)]
    BY <1>0, <1>1
  <2>2. \A v \in PipeWorker : Len(return_pipe'[v]) <= PipeCapacity
    BY <1>0, <1>1, PipeConstants DEF PipeTypeOK
  <2> QED
    BY <1>0, <2>1, <2>2 DEF PipeTypeOK
<1>3. OnePlace'
  <2> SUFFICES ASSUME NEW k \in Interval
               PROVE  Whereabouts(k)' = IF k <= written' THEN 1 ELSE 0
    BY DEF OnePlace
  <2>1. Cardinality(Returned(return_pipe', k)) =
          Cardinality(Returned(return_pipe, k)) + (IF e = k THEN 1 ELSE 0)
    <3>1. /\ \A v \in PipeWorker : v # w => return_pipe'[v] = return_pipe[v]
          /\ return_pipe \in [PipeWorker -> Seq(Interval)] /\ e \in Interval
          /\ Len(return_pipe[w]) < PipeCapacity
      BY <1>0
    <3>2. return_pipe'[w] = Append(return_pipe[w], e) /\ return_pipe[w] \in Seq(Interval)
      BY <1>0
    <3>3. /\ Len(return_pipe'[w]) = Len(return_pipe[w]) + 1
          /\ return_pipe'[w][Len(return_pipe[w]) + 1] = e
          /\ \A m \in 1..Len(return_pipe[w]) : return_pipe'[w][m] = return_pipe[w][m]
      BY <3>1, <3>2, AppendElements
    <3>4. PICK d \in Interval : d = e
      BY <3>1
    <3>5. PICK r \in [PipeWorker -> Seq(Interval)] : r = return_pipe
      BY <3>1
    <3>6. PICK r2 : r2 = return_pipe'
      OBVIOUS
    <3>7. Cardinality(Returned(r2, k)) = Cardinality(Returned(r, k)) + (IF d = k THEN 1 ELSE 0)
      <4>1. /\ \A v \in PipeWorker : v # w => r2[v] = r[v]
            /\ Len(r[w]) < PipeCapacity
            /\ Len(r2[w]) = Len(r[w]) + 1 /\ r2[w][Len(r[w]) + 1] = d
            /\ \A m \in 1..Len(r[w]) : r2[w][m] = r[w][m]
        BY <3>1, <3>3, <3>4, <3>5, <3>6
      <4> QED
        BY <4>1, ReturnedAppend
    <3> QED
      BY <3>4, <3>5, <3>6, <3>7
  <2>2. k # 0
    BY PipeConstants
  <2>3. Cardinality(Holders(k)') = Cardinality(Holders(k)) - (IF e = k THEN 1 ELSE 0)
    <3>1. Holders(k)' = Holders(k) \ {w}
      BY <1>0, <2>2 DEF Holders
    <3>2. w \in Holders(k) <=> e = k
      BY DEF Holders
    <3>3. IsFiniteSet(Holders(k)) /\ Cardinality(Holders(k)) \in Nat
      BY <1>0, Places
    <3>4. Cardinality(Holders(k) \ {w}) =
            IF w \in Holders(k) THEN Cardinality(Holders(k)) - 1 ELSE Cardinality(Holders(k))
      BY <3>3, FS_RemoveElement
    <3> QED
      BY <3>1, <3>2, <3>3, <3>4
  <2>4. Whereabouts(k)' = Whereabouts(k)
    <3>1. /\ Whereabouts(k) = Copies(data_pipe, k) + sum[k] + Cardinality(Holders(k))
                               + Cardinality(Returned(return_pipe, k))
          /\ Copies(data_pipe, k) \in Nat /\ sum[k] \in Nat
          /\ Cardinality(Holders(k)) \in Nat /\ Cardinality(Returned(return_pipe, k)) \in Nat
      BY <1>0, Places
    <3>2. Whereabouts(k)' = Copies(data_pipe', k) + sum'[k] + Cardinality(Holders(k)')
                              + Cardinality(Returned(return_pipe', k))
      BY <1>2, PlacesAfter
    <3> HIDE DEF e
    <3> QED
      BY <1>0, <2>1, <2>3, <3>1, <3>2
  <2> QED
    BY <1>0, <2>4 DEF PipeInv, OnePlace
<1>4. Hands' /\ Stages' /\ NoneLeaves'
  BY <1>0 DEF PipeInv, PipeTypeOK, Hands, Stages, NoneLeaves
<1>5. StreamsRead'
  BY <1>0 DEF PipeInv, PipeTypeOK, StreamsRead
<1> QED
  BY <1>2, <1>3, <1>4, <1>5 DEF PipeInv

-----------------------------------------------------------------------------
(* PipePool: the properties.                                               *)

\* The invariant is inductive.
THEOREM PipeInvariant == PipeSpec => []PipeInv
<1>1. ASSUME PipeInit
      PROVE  PipeInv
  <2>1. PipeTypeOK
    <3>1. /\ master \in {"off", "fork", "write", "sum", "done"}
          /\ stream \in PipeWorker /\ intervals = 0 /\ written \in 0..intervals
          /\ data_pipe \in Seq(Interval) /\ Len(data_pipe) <= PipeCapacity
      BY <1>1, PipeConstants DEF PipeInit
    <3>2. /\ worker \in [PipeWorker -> {"unborn", "born", "missing", "read", "answer", "exited"}]
          /\ taken \in [PipeWorker -> Interval \cup {0}]
          /\ sum \in [Interval -> Nat]
      BY <1>1 DEF PipeInit
    <3>3. /\ return_pipe \in [PipeWorker -> Seq(Interval)]
          /\ \A w \in PipeWorker : Len(return_pipe[w]) <= PipeCapacity
      BY <1>1, PipeConstants DEF PipeInit
    <3> QED
      BY <3>1, <3>2, <3>3 DEF PipeTypeOK
  <2>2. OnePlace
    <3> SUFFICES ASSUME NEW k \in Interval
                 PROVE  Whereabouts(k) = 0
      BY <1>1, PipeConstants DEF OnePlace, PipeInit
    <3>1. Copies(data_pipe, k) = 0 /\ sum[k] = 0
      BY <1>1, <2>1, CopiesType DEF PipeInit, PipeTypeOK
    <3>2. Holders(k) = {}
      BY <1>1, PipeConstants DEF PipeInit, Holders
    <3>3. Returned(return_pipe, k) = {}
      <4>1. \A w \in PipeWorker, n \in 1..PipeCapacity : ~(n <= Len(return_pipe[w]))
        BY <1>1, PipeConstants DEF PipeInit
      <4> QED
        BY <4>1 DEF Returned
    <3>4. Cardinality({}) = 0
      BY FS_EmptySet
    <3>5. Whereabouts(k) = Copies(data_pipe, k) + sum[k] + Cardinality(Holders(k))
                             + Cardinality(Returned(return_pipe, k))
      BY <2>1, Places
    <3> QED
      BY <3>1, <3>2, <3>3, <3>4, <3>5
  <2>3. Hands /\ NoneLeaves /\ StreamsRead /\ Stages
    BY <1>1 DEF PipeInit, Hands, NoneLeaves, StreamsRead, Stages
  <2> QED
    BY <2>1, <2>2, <2>3 DEF PipeInv
<1>2. ASSUME PipeInv, [PipeNext]_pipeVars
      PROVE  PipeInv'
  <2>1. CASE UNCHANGED pipeVars
    BY <1>2, <2>1
       DEF pipeVars, PipeInv, PipeTypeOK, OnePlace, Whereabouts, Copies, Hands, Stages,
           NoneLeaves, StreamsRead
  <2>2. CASE PipeStart
    BY <1>2, <2>2, PipeStartKeeps
  <2>3. CASE Master
    BY <1>2, <2>3, PipeForkKeeps, WriteIntervalKeeps, CloseKeeps, AddResultKeeps, NextWorkerKeeps
       DEF Master
  <2>4. ASSUME NEW w \in PipeWorker, WorkerOfPipe(w)
        PROVE  PipeInv'
    BY <1>2, <2>4, CloseOrExitKeeps, TakeKeeps, AnswerKeeps DEF WorkerOfPipe
  <2> QED
    BY <1>2, <2>1, <2>2, <2>3, <2>4 DEF PipeNext, PipeStep
<1> QED
  BY <1>1, <1>2, PTL DEF PipeSpec

\* Types are kept; no pipe ever holds more than its capacity.
THEOREM PipeTypeCorrect == PipeSpec => []PipeTypeOK
<1>1. PipeInv => PipeTypeOK
  BY DEF PipeInv
<1> QED
  BY <1>1, PipeInvariant, PTL

\* Whatever the workers compete for and however the pipes fill up, each
\* interval is in exactly one place, and the sum of a parent that has a worker
\* is complete in the end (main.cpp:59-79).
THEOREM IntervalsOnceHolds == PipeSpec => []IntervalsOnce
<1>1. ASSUME PipeInv
      PROVE  IntervalsOnce
  <2>1. ASSUME master = "done", Employed # {}, NEW k \in Interval
        PROVE  sum[k] = IF k <= intervals THEN 1 ELSE 0
    <3>1. \A w \in PipeWorker : return_pipe[w] = <<>> /\ worker[w] \in {"exited", "missing"}
      BY <1>1, <2>1 DEF PipeInv, StreamsRead
    <3>2. \E w \in PipeWorker : worker[w] = "exited"
      BY <2>1, <3>1 DEF Employed
    <3>3. data_pipe = <<>> /\ written = intervals
      BY <1>1, <2>1, <3>2 DEF PipeInv, NoneLeaves, Stages
    <3>4. Copies(data_pipe, k) = 0
      BY <1>1, <3>3, CopiesType DEF PipeInv, PipeTypeOK
    <3>5. Holders(k) = {}
      BY <1>1, <3>1, PipeConstants DEF PipeInv, Hands, Holders
    <3>6. Returned(return_pipe, k) = {}
      <4>1. \A w \in PipeWorker : Len(return_pipe[w]) = 0
        BY <3>1, EmptySeq
      <4>2. \A n \in 1..PipeCapacity : ~(n <= 0)
        BY PipeConstants
      <4> QED
        BY <4>1, <4>2 DEF Returned
    <3>7. Cardinality({}) = 0
      BY FS_EmptySet
    <3>8. /\ Whereabouts(k) = Copies(data_pipe, k) + sum[k] + Cardinality(Holders(k))
                                + Cardinality(Returned(return_pipe, k))
          /\ sum[k] \in Nat
      BY <1>1, Places DEF PipeInv
    <3>9. Whereabouts(k) = sum[k]
      BY <3>4, <3>5, <3>6, <3>7, <3>8
    <3> QED
      BY <1>1, <3>3, <3>9 DEF PipeInv, OnePlace
  <2> QED
    BY <1>1, <2>1 DEF PipeInv, OnePlace, IntervalsOnce
<1> QED
  BY <1>1, PipeInvariant, PTL

-----------------------------------------------------------------------------
(* ModeCatcher: the invariant.                                             *)

\* Nothing has happened before the programs are started.
Quiet ==
  catcher = "off" => mode_change_ctr = 0 /\ \A s \in ModeSender : mode_sender[s] = "off"

\* The requests the senders' users have still to enter.
ToCome == {e \in ModeSender \X (1..MaxRequests) : e[2] <= input[e[1]]}

\* Every change of the mode is one request of those there may be at most.
ChangesBounded ==
  mode_change_ctr + Cardinality(sigusr1) + Cardinality(ToCome)
    <= MaxRequests * Cardinality(ModeSender)

\* The types of the variables, but for the bound of the counter.
CatcherTypes ==
  /\ catcher \in {"off", "start", "switch", "sleep", "print", "suspended", "exited"}
  /\ {branch, working_mode} \subseteq CatcherMode \cup {0}
  /\ mode_change_ctr \in Nat
  /\ sender_PID \in {{}} \cup {{s} : s \in ModeSender}
  /\ sigusr1 \in {{}} \cup {{r} : r \in Request}
  /\ mode_sender \in [ModeSender -> {"off", "read", "wait", "thrown", "done"}]
  /\ input \in [ModeSender -> 0..MaxRequests]
  /\ answer \subseteq ModeSender
  /\ discarded \subseteq ModeSender

CatcherInv ==
  /\ CatcherTypes
  /\ ChangesBounded
  /\ Quiet
  /\ AnswersMatch

-----------------------------------------------------------------------------
(* ModeCatcher: the steps.                                                 *)

\* Every action keeps the types.
LEMMA TypesStep ==
  ASSUME CatcherInv, [CatcherNext]_catcherVars
  PROVE  CatcherTypes'
<1> USE CatcherAssumption DEF CatcherInv, CatcherTypes, senderVars
<1>1. CASE CatcherStart
  BY <1>1 DEF CatcherStart
<1>2. CASE Catcher
  BY <1>2 DEF Catcher, InstallHandler, Switch, SecondOver, Suspend
<1>3. CASE HandleSignal
  BY <1>3 DEF HandleSignal, CatcherRuns, Answered, Request
<1>4. ASSUME NEW s \in ModeSender, Sender(s)
      PROVE  CatcherTypes'
  <2>1. CASE SendMode(s)
    BY <2>1 DEF SendMode, Request
  <2>2. CASE ReceiveAnswer(s)
    BY <2>2 DEF ReceiveAnswer
  <2>3. CASE EndOfInput(s)
    BY <2>3 DEF EndOfInput
  <2> QED
    BY <1>4, <2>1, <2>2, <2>3 DEF Sender
<1>5. CASE UNCHANGED catcherVars
  BY <1>5 DEF catcherVars
<1> QED
  BY <1>1, <1>2, <1>3, <1>4, <1>5 DEF CatcherNext, CatcherStep

\* Sender by sender, nobody but the one that takes a step changes what it is
\* about to do; and the start is over once and for all.
LEMMA QuietStep ==
  ASSUME CatcherInv, [CatcherNext]_catcherVars
  PROVE  Quiet'
<1> USE DEF CatcherInv, CatcherTypes, Quiet, senderVars
<1>1. CASE CatcherStart
  BY <1>1 DEF CatcherStart
<1>2. CASE Catcher
  BY <1>2 DEF Catcher, InstallHandler, Switch, SecondOver, Suspend
<1>3. CASE HandleSignal
  BY <1>3 DEF HandleSignal, CatcherRuns
<1>4. ASSUME NEW s \in ModeSender, Sender(s)
      PROVE  Quiet'
  BY <1>4 DEF Sender, SendMode, ReceiveAnswer, EndOfInput
<1>5. CASE UNCHANGED catcherVars
  BY <1>5 DEF catcherVars
<1> QED
  BY <1>1, <1>2, <1>3, <1>4, <1>5 DEF CatcherNext, CatcherStep

\* What the steps of the catcher and the senders do to a request and its answer.
LEMMA MatchStep ==
  ASSUME CatcherInv, [CatcherNext]_catcherVars
  PROVE  AnswersMatch'
<1> USE DEF CatcherInv, CatcherTypes, AnswersMatch, Asking, Waiting, senderVars
<1>1. CASE CatcherStart
  BY <1>1 DEF CatcherStart, Quiet
<1>2. CASE Catcher
  BY <1>2 DEF Catcher, InstallHandler, Switch, SecondOver, Suspend
<1>3. CASE HandleSignal
  <2>1. PICK r \in sigusr1 :
          /\ sigusr1' = {}
          /\ \/ catcher' = "exited" /\ answer' = answer
             \/ catcher # "exited" /\ answer' = answer \cup {r.from}
          /\ UNCHANGED <<mode_sender, discarded>>
    BY <1>3 DEF HandleSignal, CatcherRuns, Answered
  <2>2. Asking = {r.from} /\ Asking' = {} /\ Waiting' = Waiting
    BY <2>1
  <2> QED
    BY <2>1, <2>2
<1>4. ASSUME NEW s \in ModeSender, Sender(s)
      PROVE  AnswersMatch'
  <2>1. CASE SendMode(s)
    <3>1. s \notin Waiting /\ s \notin Asking \cup answer \cup discarded /\ answer' = answer
      BY <2>1 DEF SendMode
    <3>2. CASE catcher = "exited"
      <4>1. Waiting' = Waiting /\ Asking' = Asking
        BY <2>1, <3>2 DEF SendMode
      <4> QED
        BY <2>1, <3>2, <4>1 DEF SendMode
    <3>3. CASE catcher # "exited"
      <4>1. Waiting' = Waiting \cup {s}
        BY <2>1, <3>3 DEF SendMode
      <4>2. CASE sigusr1 = {}
        <5>1. PICK m \in CatcherMode :
                 sigusr1' = {[mode |-> m, from |-> s]} /\ discarded' = discarded
          BY <2>1, <3>3, <4>2 DEF SendMode
        <5>2. Asking = {} /\ Asking' = {s} /\ discarded' = discarded
          BY <4>2, <5>1
        <5> QED
          BY <2>1, <3>1, <3>3, <4>1, <5>2 DEF SendMode
      <4>3. CASE sigusr1 # {}
        <5>1. Asking' = Asking /\ discarded' = discarded \cup {s}
          BY <2>1, <3>3, <4>3 DEF SendMode
        <5> QED
          BY <2>1, <3>1, <3>3, <4>1, <5>1 DEF SendMode
      <4> QED
        BY <4>2, <4>3
    <3> QED
      BY <3>2, <3>3
  <2>2. CASE ReceiveAnswer(s)
    BY <2>2 DEF ReceiveAnswer
  <2>3. CASE EndOfInput(s)
    BY <2>3 DEF EndOfInput
  <2> QED
    BY <1>4, <2>1, <2>2, <2>3 DEF Sender
<1>5. CASE UNCHANGED catcherVars
  BY <1>5 DEF catcherVars
<1> QED
  BY <1>1, <1>2, <1>3, <1>4, <1>5 DEF CatcherNext, CatcherStep

-----------------------------------------------------------------------------
(* ModeCatcher: the counter of mode changes.                               *)

\* What is still to come is finite, and at most what the users may enter.
LEMMA ToComeFinite ==
  ASSUME CatcherInv
  PROVE  /\ IsFiniteSet(ToCome)
         /\ Cardinality(ToCome) \in Nat
         /\ Cardinality(ToCome) <= MaxRequests * Cardinality(ModeSender)
         /\ IsFiniteSet(ToCome')
         /\ Cardinality(ToCome') \in Nat
         /\ Cardinality(ToCome') <= MaxRequests * Cardinality(ModeSender)
         /\ sigusr1 = {} => Cardinality(sigusr1) = 0
         /\ sigusr1' = {} => Cardinality(sigusr1') = 0
         /\ \A r : sigusr1 = {r} => Cardinality(sigusr1) = 1
         /\ \A r : sigusr1' = {r} => Cardinality(sigusr1') = 1
<1> DEFINE All == ModeSender \X (1..MaxRequests)
<1>1. /\ IsFiniteSet(1..MaxRequests) /\ Cardinality(1..MaxRequests) = MaxRequests
      /\ Cardinality(ModeSender) \in Nat /\ MaxRequests \in Nat
  <2>1. MaxRequests \in Nat /\ MaxRequests \in Int /\ 1 \in Int
    BY CatcherAssumption
  <2>2. /\ IsFiniteSet(1..MaxRequests)
        /\ Cardinality(1..MaxRequests) = IF 1 > MaxRequests THEN 0 ELSE MaxRequests - 1 + 1
    BY <2>1, FS_Interval
  <2>3. Cardinality(ModeSender) \in Nat
    BY CatcherAssumption, FS_CardinalityType
  <2> QED
    BY <2>1, <2>2, <2>3
<1>2. IsFiniteSet(All) /\ Cardinality(All) = Cardinality(ModeSender) * MaxRequests
  BY <1>1, CatcherAssumption, FS_Product
<1>3. Cardinality(ModeSender) * MaxRequests = MaxRequests * Cardinality(ModeSender)
  BY <1>1
<1>4. ToCome \subseteq All /\ ToCome' \subseteq All
  BY DEF ToCome
<1>5. \A S \in SUBSET All : /\ IsFiniteSet(S) /\ Cardinality(S) \in Nat
                            /\ Cardinality(S) <= MaxRequests * Cardinality(ModeSender)
  BY <1>2, <1>3, FS_Subset, FS_CardinalityType
<1> QED
  BY <1>4, <1>5, FS_EmptySet, FS_Singleton

\* The counter grows only when a pending request is taken over.
LEMMA ChangesStep ==
  ASSUME CatcherInv, [CatcherNext]_catcherVars
  PROVE  ChangesBounded'
<1> DEFINE Max == MaxRequests * Cardinality(ModeSender)
<1> USE DEF senderVars
<1>0. /\ CatcherTypes /\ CatcherTypes'
      /\ mode_change_ctr + Cardinality(sigusr1) + Cardinality(ToCome) <= Max
      /\ Max \in Nat
      /\ Cardinality(sigusr1) \in {0, 1} /\ Cardinality(sigusr1') \in {0, 1}
  <2>1. CatcherTypes /\ CatcherTypes'
    BY TypesStep DEF CatcherInv
  <2>2. Max \in Nat
    BY CatcherAssumption, FS_CardinalityType
  <2> QED
    BY <2>1, <2>2, ToComeFinite DEF CatcherInv, ChangesBounded, CatcherTypes
<1>1. CASE CatcherStart
  <2>1. mode_change_ctr' = 0 /\ sigusr1' = {}
    BY <1>1 DEF CatcherStart, CatcherInv, Quiet, AnswersMatch, Asking, Waiting
  <2> QED
    BY <2>1, <1>0, ToComeFinite DEF ChangesBounded
<1>2. CASE UNCHANGED <<mode_change_ctr, sigusr1, input>>
  BY <1>0, <1>2 DEF ChangesBounded, ToCome
<1>3. CASE HandleSignal
  <2>1. /\ input' = input /\ sigusr1' = {}
        /\ Cardinality(sigusr1) = 1 /\ Cardinality(sigusr1') = 0
        /\ mode_change_ctr' \in {mode_change_ctr, mode_change_ctr + 1}
    <3>1. PICK r \in sigusr1 : sigusr1' = {}
      BY <1>3 DEF HandleSignal
    <3>2. sigusr1 = {r}
      BY <3>1, <1>0 DEF CatcherTypes
    <3>3. mode_change_ctr' \in {mode_change_ctr, mode_change_ctr + 1} /\ input' = input
      BY <1>3, <1>0 DEF HandleSignal, CatcherTypes
    <3> QED
      BY <3>1, <3>2, <3>3, ToComeFinite
  <2>2. ToCome' = ToCome
    BY <2>1 DEF ToCome
  <2> QED
    BY <2>1, <2>2, <1>0, ToComeFinite DEF ChangesBounded, CatcherTypes
<1>4. ASSUME NEW s \in ModeSender, SendMode(s), catcher # "exited"
      PROVE  ChangesBounded'
  <2> DEFINE e == <<s, input[s]>>
  <2>1. /\ input[s] \in 1..MaxRequests
        /\ input' = [input EXCEPT ![s] = @ - 1]
        /\ mode_change_ctr' = mode_change_ctr
        /\ sigusr1' # sigusr1 => sigusr1 = {}
    BY <1>4, <1>0, CatcherAssumption DEF SendMode, CatcherTypes
  <2>2. e \in ToCome /\ ToCome' = ToCome \ {e}
    BY <2>1, <1>0, CatcherAssumption DEF ToCome, CatcherTypes
  <2>3. Cardinality(ToCome') = Cardinality(ToCome) - 1
    BY <2>2, ToComeFinite, FS_RemoveElement
  <2>4. Cardinality(sigusr1') <= Cardinality(sigusr1) + 1
    BY <1>0
  <2> QED
    BY <2>1, <2>3, <2>4, <1>0, ToComeFinite DEF ChangesBounded, CatcherTypes
<1>5. ASSUME NEW s \in ModeSender, Sender(s), ~ (SendMode(s) /\ catcher # "exited")
      PROVE  UNCHANGED <<mode_change_ctr, sigusr1, input>>
  BY <1>5 DEF Sender, SendMode, ReceiveAnswer, EndOfInput
<1>6. CASE Catcher
  BY <1>2, <1>6 DEF Catcher, InstallHandler, Switch, SecondOver, Suspend
<1>7. CASE UNCHANGED catcherVars
  BY <1>2, <1>7 DEF catcherVars
<1> QED
  BY <1>1, <1>2, <1>3, <1>4, <1>5, <1>6, <1>7 DEF CatcherNext, CatcherStep, Sender

-----------------------------------------------------------------------------
(* ModeCatcher: the theorems.                                              *)

\* The invariant is inductive.
THEOREM CatcherInvariant == CatcherSpec => []CatcherInv
<1>1. ASSUME CatcherInit
      PROVE  CatcherInv
  <2> USE <1>1, CatcherAssumption DEF CatcherInit
  <2>1. CatcherTypes
    BY DEF CatcherTypes
  <2>2. ToCome = {}
    BY DEF ToCome
  <2>3. Cardinality(ToCome) = 0 /\ Cardinality(sigusr1) = 0
    BY <2>2, FS_EmptySet
  <2>4. MaxRequests * Cardinality(ModeSender) \in Nat
    BY FS_CardinalityType
  <2>5. Quiet /\ AnswersMatch
    BY DEF Quiet, AnswersMatch, Asking, Waiting
  <2> QED
    BY <2>1, <2>3, <2>4, <2>5 DEF CatcherInv, ChangesBounded
<1>2. ASSUME CatcherInv, [CatcherNext]_catcherVars
      PROVE  CatcherInv'
  BY <1>2, TypesStep, ChangesStep, QuietStep, MatchStep DEF CatcherInv
<1> QED
  BY <1>1, <1>2, PTL DEF CatcherSpec

\* Types are kept, and the mode changes at most once per request.
THEOREM CatcherTypeCorrect == CatcherSpec => []CatcherTypeOK
<1>1. ASSUME CatcherInv
      PROVE  CatcherTypeOK
  <2>1. /\ mode_change_ctr \in Nat
        /\ Cardinality(sigusr1) \in Nat
        /\ Cardinality(ToCome) \in Nat
        /\ MaxRequests * Cardinality(ModeSender) \in Nat
        /\ mode_change_ctr + Cardinality(sigusr1) + Cardinality(ToCome)
             <= MaxRequests * Cardinality(ModeSender)
    <3>1. Cardinality(sigusr1) \in Nat
      <4>1. sigusr1 = {} \/ \E r : sigusr1 = {r}
        BY <1>1 DEF CatcherInv, CatcherTypes
      <4> QED
        BY <1>1, <4>1, ToComeFinite
    <3>2. MaxRequests * Cardinality(ModeSender) \in Nat
      BY CatcherAssumption, FS_CardinalityType
    <3> QED
      BY <1>1, <3>1, <3>2, ToComeFinite DEF CatcherInv, CatcherTypes, ChangesBounded
  <2>2. mode_change_ctr \in 0..(MaxRequests * Cardinality(ModeSender))
    BY <2>1
  <2> QED
    BY <1>1, <2>2 DEF CatcherInv, CatcherTypes, CatcherTypeOK
<1> QED
  BY <1>1, CatcherInvariant, PTL

\* A sender that waits has its request, its answer or its bad luck, and one of
\* them only; so no answer is taken for that of a later request
\* (zad3_catcher/main.cpp:17-24, zad3_sender/main.cpp:25-36).
THEOREM AnswersMatchHolds == CatcherSpec => []AnswersMatch
<1>1. CatcherInv => AnswersMatch
  BY DEF CatcherInv
<1> QED
  BY <1>1, CatcherInvariant, PTL

-----------------------------------------------------------------------------
(* DirWalk: the directories above a directory.                             *)

\* A directory is inside one with a smaller number, but for the first.
Tree ==
  /\ parent \in [Dir -> Dir]
  /\ parent[0] = 0
  /\ \A d \in Dir \ {0} : parent[d] < d

\* A nonempty set of natural numbers has a least element.
LEMMA LeastNumber ==
  ASSUME NEW S, S \subseteq Nat, S # {}
  PROVE  \E x \in S : \A y \in S : x <= y
<1>1. PICK x \in S : \A y \in S : ~ (<<y, x>> \in OpToRel(<, Nat))
  BY NatLessThanWellFounded, WFMin
<1>2. ASSUME NEW y \in S
      PROVE  x <= y
  <2>1. <<y, x>> \in Nat \X Nat
    OBVIOUS
  <2>2. ~ (y < x)
    BY <1>1, <2>1 DEF OpToRel
  <2> QED
    BY <2>2
<1> QED
  BY <1>2

\* g says what is above the first n + 1 directories.
IsAbove(g, n) ==
  g = [d \in 0..n |-> {d} \cup (IF d = 0 THEN {} ELSE g[parent[d]])]

\* There is such a function for all directories.
LEMMA AboveExists ==
  ASSUME Tree
  PROVE  \E g : IsAbove(g, DirCount)
<1> DEFINE Bad == {n \in Dir : ~ \E g : IsAbove(g, n)}
<1> SUFFICES ASSUME Bad # {}
             PROVE  FALSE
  BY DirAssumption DEF Dir
<1>1. PICK n \in Bad : \A m \in Bad : n <= m
  <2>1. Bad \subseteq Nat /\ Bad # {}
    BY DirAssumption DEF Dir
  <2> HIDE DEF Bad
  <2> QED
    BY <2>1, LeastNumber
<1>2. n \in Nat /\ n <= DirCount /\ DirCount \in Nat
  BY DirAssumption DEF Dir
<1>3. CASE n = 0
  <2> DEFINE g == [d \in 0..0 |-> {d}]
  <2>1. g = [d \in 0..0 |-> {d} \cup (IF d = 0 THEN {} ELSE g[parent[d]])]
    OBVIOUS
  <2> HIDE DEF g
  <2>2. IsAbove(g, n)
    BY <1>3, <2>1 DEF IsAbove
  <2> QED
    BY <2>2
<1>4. CASE n # 0
  <2>1. n - 1 \in Dir /\ n - 1 \notin Bad
    BY <1>1, <1>2, <1>4 DEF Dir
  <2>2. PICK h : IsAbove(h, n - 1)
    BY <2>1
  <2> DEFINE g == [d \in 0..n |-> IF d = n THEN {n} \cup h[parent[n]] ELSE h[d]]
  <2>3. ASSUME NEW d \in 0..n
        PROVE  g[d] = {d} \cup (IF d = 0 THEN {} ELSE g[parent[d]])
    <3>1. d \in Dir /\ (d # 0 => parent[d] \in 0..(n - 1) /\ parent[d] # n)
      BY <1>2, <2>3 DEF Tree, Dir
    <3>2. CASE d = n
      BY <1>4, <3>1, <3>2, <1>2
    <3>3. CASE d # n
      <4>1. d \in 0..(n - 1)
        BY <1>2, <3>3
      <4>2. h[d] = {d} \cup (IF d = 0 THEN {} ELSE h[parent[d]])
        BY <2>2, <4>1 DEF IsAbove
      <4> QED
        BY <3>1, <3>3, <4>2, <1>2
    <3> QED
      BY <3>2, <3>3
  <2>4. g = [d \in 0..n |-> {d} \cup (IF d = 0 THEN {} ELSE g[parent[d]])]
    <3>1. g = [d \in 0..n |-> g[d]]
      OBVIOUS
    <3> HIDE DEF g
    <3> QED
      BY <2>3, <3>1
  <2> HIDE DEF g
  <2>5. IsAbove(g, n)
    BY <2>4 DEF IsAbove
  <2> QED
    BY <2>5
<1> QED
  BY <1>3, <1>4

\* So Above is what its definition says.
LEMMA AboveIs ==
  ASSUME Tree, NEW d \in Dir
  PROVE  Above[d] = {d} \cup (IF d = 0 THEN {} ELSE Above[parent[d]])
<1>1. PICK g : IsAbove(g, DirCount)
  BY AboveExists
<1>2. g = [e \in Dir |-> {e} \cup (IF e = 0 THEN {} ELSE g[parent[e]])]
  BY <1>1 DEF IsAbove, Dir
<1>3. Above = [e \in Dir |-> {e} \cup (IF e = 0 THEN {} ELSE Above[parent[e]])]
  BY <1>2 DEF Above
<1> QED
  BY <1>3

-----------------------------------------------------------------------------
(* DirWalk: the invariant.                                                 *)

\* What d has still to visit.
ToFork(d)  == {c \in Dir : [sub |-> c] \in entries[d]}
ToPrint(d) == {f \in WalkFile : [file |-> f] \in entries[d]}

DirTypes ==
  /\ home \in [WalkFile -> Dir]
  /\ mounted \subseteq Dir /\ broken \subseteq Dir
  /\ terminal \in BOOLEAN
  /\ walker \in [Dir -> {"off", "open", "walk", "exited", "aborted"}]
  /\ entries \in [Dir -> SUBSET ([sub : Dir] \cup [file : WalkFile])]
  /\ stdout_buff \in [Dir -> SUBSET WalkFile]
  /\ printed \in [WalkFile -> Nat]

\* Until the search starts, nothing has happened.
NothingStarted ==
  walker[0] = "off" =>
    /\ \A d \in Dir : walker[d] = "off" /\ entries[d] = {} /\ stdout_buff[d] = {}
    /\ \A f \in WalkFile : printed[f] = 0

\* A directory has its process from the process of the one it is in, or has
\* none and is still to be visited there.
ForkedByParent ==
  \A c \in Dir :
    /\ c # 0 /\ walker[c] # "off" => walker[parent[c]] \notin {"off", "open"}
    /\ \A d \in Dir : c \in ToFork(d) => c # 0 /\ parent[c] = d /\ walker[c] = "off"

\* A line in a buffer is of the process's directory or of one above it.
BuffersBelow ==
  \A d \in Dir : \A f \in stdout_buff[d] : home[f] \in Above[d] /\ walker[d] \in {"open", "walk"}

NotYetFound(f) == walker[home[f]] \in {"off", "open"} \/ f \in ToPrint(home[f])

\* A file is found once: before that, there is no line of it.
FoundOnce ==
  /\ \A d \in Dir : \A f \in ToPrint(d) : home[f] = d
  /\ \A f \in WalkFile : NotYetFound(f) =>
       printed[f] = 0 /\ \A d \in Dir : f \notin stdout_buff[d]

\* A line that has been found is in the buffer or has been written.
NoneForgotten ==
  \A f \in WalkFile :
    /\ walker[home[f]] = "walk" =>
         f \in ToPrint(home[f]) \/ f \in stdout_buff[home[f]] \/ printed[f] > 0
    /\ walker[home[f]] = "exited" /\ home[f] \notin mounted => printed[f] > 0

\* The processes that may ever write the line of f.
Reached(f) == {d \in Dir : walker[d] # "off" /\ home[f] \in Above[d]}

\* Each of them has it in its buffer or has written it, but not both.
OneCopyEach ==
  \A f \in WalkFile : printed[f] + Cardinality(Copied(f)) <= Cardinality(Reached(f))

DirInv ==
  /\ Tree
  /\ DirTypes
  /\ NothingStarted
  /\ ForkedByParent
  /\ BuffersBelow
  /\ FoundOnce
  /\ NoneForgotten
  /\ OneCopyEach

-----------------------------------------------------------------------------
(* DirWalk: the steps.                                                     *)

LEMMA DirsFinite ==
  /\ IsFiniteSet(Dir) /\ 0 \in Dir /\ Cardinality(Dir) \in Nat
  /\ \A S : S \subseteq Dir => IsFiniteSet(S) /\ Cardinality(S) \in Nat
                               /\ Cardinality(S) <= Cardinality(Dir)
<1>1. IsFiniteSet(Dir) /\ 0 \in Dir
  BY DirAssumption, FS_Interval DEF Dir
<1>2. ASSUME NEW S, S \subseteq Dir
      PROVE  IsFiniteSet(S) /\ Cardinality(S) \in Nat /\ Cardinality(S) <= Cardinality(Dir)
  BY <1>1, <1>2, FS_Subset, FS_CardinalityType
<1> QED
  BY <1>1, <1>2, FS_CardinalityType

\* An entry is a directory or a file.
LEMMA EntryKinds ==
  ASSUME NEW e \in [sub : Dir] \cup [file : WalkFile]
  PROVE  /\ "sub" \in DOMAIN e => e.sub \in Dir /\ e = [sub |-> e.sub]
         /\ "file" \in DOMAIN e => e.file \in WalkFile /\ e = [file |-> e.file]
OBVIOUS

LEMMA EntriesDiffer ==
  /\ \A c, f : [sub |-> c] # [file |-> f]
  /\ \A c, d : [sub |-> c] = [sub |-> d] => c = d
  /\ \A f, g : [file |-> f] = [file |-> g] => f = g
OBVIOUS

\* Removing an entry.
LEMMA EntryVisited ==
  ASSUME DirTypes, NEW d \in Dir, NEW e \in entries[d],
         entries' = [entries EXCEPT ![d] = @ \ {e}]
  PROVE  /\ entries' \in [Dir -> SUBSET ([sub : Dir] \cup [file : WalkFile])]
         /\ "sub" \in DOMAIN e =>
              /\ e.sub \in ToFork(d)
              /\ ToFork(d)' = ToFork(d) \ {e.sub} /\ ToPrint(d)' = ToPrint(d)
         /\ "file" \in DOMAIN e =>
              /\ e.file \in ToPrint(d)
              /\ ToPrint(d)' = ToPrint(d) \ {e.file} /\ ToFork(d)' = ToFork(d)
         /\ \A b \in Dir \ {d} : ToFork(b)' = ToFork(b) /\ ToPrint(b)' = ToPrint(b)
<1>1. /\ entries \in [Dir -> SUBSET ([sub : Dir] \cup [file : WalkFile])]
      /\ e \in [sub : Dir] \cup [file : WalkFile]
  BY DEF DirTypes
<1>2. entries' \in [Dir -> SUBSET ([sub : Dir] \cup [file : WalkFile])]
  BY <1>1
<1>3. entries'[d] = entries[d] \ {e} /\ \A b \in Dir \ {d} : entries'[b] = entries[b]
  BY <1>1
<1>4. ASSUME "sub" \in DOMAIN e
      PROVE  /\ e.sub \in ToFork(d)
             /\ ToFork(d)' = ToFork(d) \ {e.sub} /\ ToPrint(d)' = ToPrint(d)
  <2>1. e.sub \in Dir /\ e = [sub |-> e.sub]
    BY <1>1, <1>4, EntryKinds
  <2>2. \A c : [sub |-> c] \in entries'[d] <=> [sub |-> c] \in entries[d] /\ c # e.sub
    BY <1>3, <2>1, EntriesDiffer
  <2>3. \A f : [file |-> f] \in entries'[d] <=> [file |-> f] \in entries[d]
    BY <1>3, <2>1, EntriesDiffer
  <2> QED
    BY <2>1, <2>2, <2>3 DEF ToFork, ToPrint
<1>5. ASSUME "file" \in DOMAIN e
      PROVE  /\ e.file \in ToPrint(d)
             /\ ToPrint(d)' = ToPrint(d) \ {e.file} /\ ToFork(d)' = ToFork(d)
  <2>1. e.file \in WalkFile /\ e = [file |-> e.file]
    BY <1>1, <1>5, EntryKinds
  <2>2. \A f : [file |-> f] \in entries'[d] <=> [file |-> f] \in entries[d] /\ f # e.file
    BY <1>3, <2>1, EntriesDiffer
  <2>3. \A c : [sub |-> c] \in entries'[d] <=> [sub |-> c] \in entries[d]
    BY <1>3, <2>1, EntriesDiffer
  <2> QED
    BY <2>1, <2>2, <2>3 DEF ToFork, ToPrint
<1>6. \A b \in Dir \ {d} : ToFork(b)' = ToFork(b) /\ ToPrint(b)' = ToPrint(b)
  BY <1>3 DEF ToFork, ToPrint
<1> QED
  BY <1>2, <1>4, <1>5, <1>6

\* Opening a directory.
LEMMA EntriesListed ==
  ASSUME DirTypes, NEW d \in Dir,
         entries' = [entries EXCEPT ![d] = [sub : Subdirectories(d)] \cup [file : Files(d)]]
  PROVE  /\ entries' \in [Dir -> SUBSET ([sub : Dir] \cup [file : WalkFile])]
         /\ ToFork(d)' = Subdirectories(d) /\ ToPrint(d)' = Files(d)
         /\ \A b \in Dir \ {d} : ToFork(b)' = ToFork(b) /\ ToPrint(b)' = ToPrint(b)
<1> DEFINE S == Subdirectories(d)
           F == Files(d)
<1>1. S \subseteq Dir /\ F \subseteq WalkFile
  BY DEF Subdirectories, Files
<1>2. entries \in [Dir -> SUBSET ([sub : Dir] \cup [file : WalkFile])]
  BY DEF DirTypes
<1> HIDE DEF S, F
<1>3. [sub : S] \cup [file : F] \subseteq [sub : Dir] \cup [file : WalkFile]
  BY <1>1
<1>4. entries' = [entries EXCEPT ![d] = [sub : S] \cup [file : F]]
  BY DEF S, F
<1>5. entries' \in [Dir -> SUBSET ([sub : Dir] \cup [file : WalkFile])]
  BY <1>2, <1>3, <1>4
<1>6. /\ entries'[d] = [sub : S] \cup [file : F]
      /\ \A b \in Dir \ {d} : entries'[b] = entries[b]
  BY <1>2, <1>4
<1>7. /\ \A c : [sub |-> c] \in [sub : S] \cup [file : F] <=> c \in S
      /\ \A f : [file |-> f] \in [sub : S] \cup [file : F] <=> f \in F
  OBVIOUS
<1>8. ToFork(d)' = S /\ ToPrint(d)' = F
  BY <1>1, <1>6, <1>7 DEF ToFork, ToPrint
<1>9. \A b \in Dir \ {d} : ToFork(b)' = ToFork(b) /\ ToPrint(b)' = ToPrint(b)
  BY <1>6 DEF ToFork, ToPrint
<1> QED
  BY <1>5, <1>8, <1>9 DEF S, F

LEMMA OneDirectory ==
  ASSUME NEW S, S \subseteq Dir, NEW d \in Dir
  PROVE  /\ Cardinality(S) \in Nat
         /\ Cardinality(S \ {d}) = IF d \in S THEN Cardinality(S) - 1 ELSE Cardinality(S)
         /\ Cardinality(S \cup {d}) = IF d \in S THEN Cardinality(S) ELSE Cardinality(S) + 1
BY DirsFinite, FS_RemoveElement, FS_AddElement

LEMMA InAbove ==
  ASSUME Tree, NEW d \in Dir
  PROVE  d \in Above[d] /\ (d # 0 => Above[parent[d]] \subseteq Above[d])
BY AboveIs

\* Steps of a process leave the tree alone.
LEMMA SameTree ==
  ASSUME UNCHANGED treeVars
  PROVE  /\ Above' = Above
         /\ parent' = parent /\ home' = home /\ mounted' = mounted
         /\ Tree => Tree'
BY DEF treeVars, Above, Tree

\* The processes that may write a line, when the one of d only changes its step.
LEMMA ReachedSame ==
  ASSUME DirTypes, UNCHANGED treeVars, NEW d \in Dir, NEW to, walker[d] # "off", to # "off",
         walker' = [walker EXCEPT ![d] = to]
  PROVE  \A f \in WalkFile : Reached(f)' = Reached(f)
<1>1. home' = home /\ Above' = Above
  BY SameTree
<1>2. \A b \in Dir : walker'[b] = "off" <=> walker[b] = "off"
  BY DEF DirTypes
<1> QED
  BY <1>1, <1>2 DEF Reached

\* A process that ends writes what it has, once.
LEMMA ExitKeeps ==
  ASSUME DirInv, NEW d \in Dir, Exit(d), UNCHANGED <<treeVars, entries>>,
         \/ walker[d] = "open" /\ d \in mounted
         \/ walker[d] = "walk" /\ entries[d] = {}
  PROVE  DirInv'
<1>1. /\ walker' = [walker EXCEPT ![d] = "exited"] /\ entries' = entries
      /\ stdout_buff' = [stdout_buff EXCEPT ![d] = {}]
      /\ printed' = [f \in WalkFile |-> printed[f] + (IF f \in stdout_buff[d] THEN 1 ELSE 0)]
      /\ UNCHANGED treeVars
  BY DEF Exit, Written
<1>2. /\ Above' = Above /\ parent' = parent /\ home' = home /\ mounted' = mounted
      /\ Tree /\ Tree' /\ DirTypes
  BY <1>1, SameTree DEF DirInv
<1>3. DirTypes'
  BY <1>1, <1>2 DEF DirTypes, treeVars
<1>4. /\ \A b \in Dir : ToFork(b)' = ToFork(b) /\ ToPrint(b)' = ToPrint(b)
      /\ walker[d] = "walk" => ToPrint(d) = {}
      /\ walker[d] \in {"open", "walk"}
  BY <1>1 DEF ToFork, ToPrint
<1>5. /\ walker'[d] = "exited" /\ \A b \in Dir \ {d} : walker'[b] = walker[b]
      /\ stdout_buff'[d] = {} /\ \A b \in Dir \ {d} : stdout_buff'[b] = stdout_buff[b]
      /\ \A f \in WalkFile :
           printed'[f] = IF f \in stdout_buff[d] THEN printed[f] + 1 ELSE printed[f]
      /\ \A f \in WalkFile : printed[f] \in Nat /\ home[f] \in Dir
  BY <1>1, <1>2 DEF DirTypes
<1>6. NothingStarted'
  BY <1>4, <1>5, DirsFinite DEF NothingStarted, DirInv
<1>7. ForkedByParent'
  <2>1. \A c \in Dir \ {0} : parent[c] \in Dir
    BY <1>2 DEF Tree
  <2> QED
    BY <1>2, <1>4, <1>5, <2>1 DEF ForkedByParent, DirInv
<1>8. BuffersBelow'
  BY <1>2, <1>5 DEF BuffersBelow, DirInv
<1>9. FoundOnce'
  <2>1. \A f \in WalkFile : NotYetFound(f)' => NotYetFound(f)
    BY <1>2, <1>4, <1>5 DEF NotYetFound
  <2> QED
    BY <1>2, <1>4, <1>5, <2>1 DEF FoundOnce, DirInv
<1>10. NoneForgotten'
  <2> SUFFICES ASSUME NEW f \in WalkFile
               PROVE  NoneForgotten!(f)'
    BY DEF NoneForgotten
  <2>1. CASE home[f] = d
    BY <1>2, <1>4, <1>5, <2>1 DEF NoneForgotten, DirInv
  <2>2. CASE home[f] # d
    BY <1>2, <1>4, <1>5, <2>2 DEF NoneForgotten, DirInv
  <2> QED
    BY <2>1, <2>2
<1>11. OneCopyEach'
  <2> SUFFICES ASSUME NEW f \in WalkFile
               PROVE  printed'[f] + Cardinality(Copied(f)') <= Cardinality(Reached(f)')
    BY DEF OneCopyEach
  <2>1. Copied(f)' = Copied(f) \ {d} /\ (d \in Copied(f) <=> f \in stdout_buff[d])
    BY <1>5 DEF Copied
  <2>2. Reached(f)' = Reached(f) /\ Reached(f) \subseteq Dir /\ Copied(f) \subseteq Dir
    BY <1>1, <1>2, <1>4, ReachedSame DEF Reached, Copied
  <2>3. /\ Cardinality(Copied(f)) \in Nat
        /\ Cardinality(Copied(f) \ {d}) =
             IF d \in Copied(f) THEN Cardinality(Copied(f)) - 1 ELSE Cardinality(Copied(f))
        /\ Cardinality(Reached(f)) \in Nat
    BY <2>2, OneDirectory
  <2>4. printed[f] + Cardinality(Copied(f)) <= Cardinality(Reached(f))
    BY DEF DirInv, OneCopyEach
  <2> QED
    BY <1>5, <2>1, <2>2, <2>3, <2>4
<1> QED
  BY <1>2, <1>3, <1>6, <1>7, <1>8, <1>9, <1>10, <1>11 DEF DirInv

\* A process that aborts loses what it has.
LEMMA AbortKeeps ==
  ASSUME DirInv, NEW d \in Dir, Abort(d)
  PROVE  DirInv'
<1>1. /\ walker' = [walker EXCEPT ![d] = "aborted"] /\ walker[d] \in {"open", "walk"}
      /\ stdout_buff' = [stdout_buff EXCEPT ![d] = {}]
      /\ UNCHANGED treeVars /\ entries' = entries /\ printed' = printed
      /\ d \notin mounted
  BY DEF Abort
<1>2. /\ Above' = Above /\ parent' = parent /\ home' = home /\ mounted' = mounted
      /\ Tree /\ Tree' /\ DirTypes
  BY <1>1, SameTree DEF DirInv
<1>3. DirTypes'
  BY <1>1, <1>2 DEF DirTypes, treeVars
<1>4. \A b \in Dir : ToFork(b)' = ToFork(b) /\ ToPrint(b)' = ToPrint(b)
  BY <1>1 DEF ToFork, ToPrint
<1>5. /\ walker'[d] = "aborted" /\ \A b \in Dir \ {d} : walker'[b] = walker[b]
      /\ stdout_buff'[d] = {} /\ \A b \in Dir \ {d} : stdout_buff'[b] = stdout_buff[b]
      /\ \A f \in WalkFile : printed[f] \in Nat /\ home[f] \in Dir
  BY <1>1, <1>2 DEF DirTypes
<1>6. NothingStarted'
  BY <1>1, <1>5, DirsFinite DEF NothingStarted, DirInv
<1>7. ForkedByParent'
  <2>1. \A c \in Dir \ {0} : parent[c] \in Dir
    BY <1>2 DEF Tree
  <2> QED
    BY <1>1, <1>2, <1>4, <1>5, <2>1 DEF ForkedByParent, DirInv
<1>8. BuffersBelow'
  BY <1>2, <1>5 DEF BuffersBelow, DirInv
<1>9. FoundOnce'
  <2>1. \A f \in WalkFile : NotYetFound(f)' => NotYetFound(f)
    BY <1>1, <1>2, <1>4, <1>5 DEF NotYetFound
  <2> QED
    BY <1>1, <1>2, <1>4, <1>5, <2>1 DEF FoundOnce, DirInv
<1>10. NoneForgotten'
  BY <1>1, <1>2, <1>4, <1>5 DEF NoneForgotten, DirInv
<1>11. OneCopyEach'
  <2> SUFFICES ASSUME NEW f \in WalkFile
               PROVE  printed'[f] + Cardinality(Copied(f)') <= Cardinality(Reached(f)')
    BY DEF OneCopyEach
  <2>1. Copied(f)' = Copied(f) \ {d}
    BY <1>5 DEF Copied
  <2>2. Reached(f)' = Reached(f) /\ Reached(f) \subseteq Dir /\ Copied(f) \subseteq Dir
    BY <1>1, <1>2, ReachedSame DEF Reached, Copied
  <2>3. /\ Cardinality(Copied(f)) \in Nat
        /\ Cardinality(Copied(f) \ {d}) =
             IF d \in Copied(f) THEN Cardinality(Copied(f)) - 1 ELSE Cardinality(Copied(f))
        /\ Cardinality(Reached(f)) \in Nat
    BY <2>2, OneDirectory
  <2>4. printed[f] + Cardinality(Copied(f)) <= Cardinality(Reached(f))
    BY DEF DirInv, OneCopyEach
  <2> QED
    BY <1>1, <1>5, <2>1, <2>2, <2>3, <2>4
<1> QED
  BY <1>2, <1>3, <1>6, <1>7, <1>8, <1>9, <1>10, <1>11 DEF DirInv

\* Opening a directory finds what lies in it, and nothing of it was found before.
LEMMA OpenKeeps ==
  ASSUME DirInv, NEW d \in Dir, Open(d)
  PROVE  DirInv'
<1>1. /\ walker' = [walker EXCEPT ![d] = "walk"] /\ walker[d] = "open"
      /\ entries' = [entries EXCEPT ![d] = [sub : Subdirectories(d)] \cup [file : Files(d)]]
      /\ UNCHANGED treeVars /\ stdout_buff' = stdout_buff /\ printed' = printed
  BY DEF Open
<1>2. /\ Above' = Above /\ parent' = parent /\ home' = home /\ mounted' = mounted
      /\ Tree /\ Tree' /\ DirTypes
  BY <1>1, SameTree DEF DirInv
<1>3. /\ entries' \in [Dir -> SUBSET ([sub : Dir] \cup [file : WalkFile])]
      /\ ToFork(d)' = Subdirectories(d) /\ ToPrint(d)' = Files(d)
      /\ \A b \in Dir \ {d} : ToFork(b)' = ToFork(b) /\ ToPrint(b)' = ToPrint(b)
  BY <1>1, <1>2, EntriesListed
<1>4. DirTypes'
  BY <1>1, <1>2, <1>3 DEF DirTypes, treeVars
<1>5. /\ walker'[d] = "walk" /\ \A b \in Dir \ {d} : walker'[b] = walker[b]
      /\ \A f \in WalkFile : printed[f] \in Nat /\ home[f] \in Dir
  BY <1>1, <1>2 DEF DirTypes
<1>6. NothingStarted'
  BY <1>1, <1>5, DirsFinite DEF NothingStarted, DirInv
<1>7. ForkedByParent'
  <2>1. \A c \in Dir \ {0} : parent[c] \in Dir /\ parent[c] # c
    BY <1>2 DEF Tree, Dir
  <2>2. ASSUME NEW c \in Dir, c # 0, walker'[c] # "off"
        PROVE  walker'[parent[c]] \notin {"off", "open"}
    <3>1. walker[c] # "off"
      BY <1>1, <1>5, <2>2
    <3> QED
      BY <1>5, <2>1, <2>2, <3>1 DEF ForkedByParent, DirInv
  <2>3. ASSUME NEW c \in Dir, NEW b \in Dir, c \in ToFork(b)'
        PROVE  c # 0 /\ parent[c] = b /\ walker'[c] = "off"
    <3>1. CASE b = d
      <4>1. c \in Dir \ {0} /\ parent[c] = d
        BY <1>3, <2>3, <3>1 DEF Subdirectories
      <4>2. walker[c] = "off"
        BY <1>1, <4>1 DEF ForkedByParent, DirInv
      <4> QED
        BY <1>5, <2>1, <3>1, <4>1, <4>2
    <3>2. CASE b # d
      <4>1. c # 0 /\ parent[c] = b /\ walker[c] = "off"
        BY <1>3, <2>3, <3>2 DEF ForkedByParent, DirInv
      <4> QED
        BY <1>1, <1>5, <4>1
    <3> QED
      BY <3>1, <3>2
  <2> QED
    BY <1>2, <2>2, <2>3 DEF ForkedByParent
<1>8. BuffersBelow'
  BY <1>1, <1>2, <1>5 DEF BuffersBelow, DirInv
<1>9. FoundOnce'
  <2>1. \A f \in WalkFile : NotYetFound(f)' => NotYetFound(f)
    BY <1>1, <1>2, <1>3, <1>5 DEF NotYetFound
  <2>2. \A b \in Dir : \A f \in ToPrint(b)' : home[f] = b
    BY <1>3 DEF FoundOnce, DirInv, Files
  <2> QED
    BY <1>1, <1>2, <2>1, <2>2 DEF FoundOnce, DirInv
<1>10. NoneForgotten'
  <2>1. \A f \in WalkFile : home[f] = d => f \in ToPrint(d)'
    BY <1>3 DEF Files
  <2> QED
    BY <1>1, <1>2, <1>3, <1>5, <2>1 DEF NoneForgotten, DirInv
<1>11. OneCopyEach'
  <2>1. \A f \in WalkFile : Reached(f)' = Reached(f) /\ Copied(f)' = Copied(f)
    BY <1>1, <1>2, ReachedSame DEF Copied
  <2> QED
    BY <1>1, <2>1 DEF OneCopyEach, DirInv
<1> QED
  BY <1>2, <1>4, <1>6, <1>7, <1>8, <1>9, <1>10, <1>11 DEF DirInv

\* A file that is found leaves its line in the buffer.
LEMMA FoundKeeps ==
  ASSUME DirInv, NEW d \in Dir, Found(d)
  PROVE  DirInv'
<1>1. PICK e \in entries[d], write \in BOOLEAN :
        /\ "file" \in DOMAIN e
        /\ walker[d] = "walk"
        /\ entries' = [entries EXCEPT ![d] = @ \ {e}]
        /\ printed' = IF write THEN Written(d) ELSE printed
        /\ stdout_buff' = [stdout_buff EXCEPT ![d] = {e.file} \cup (IF write THEN {} ELSE @)]
        /\ UNCHANGED <<treeVars, walker>>
  BY DEF Found
<1>2. /\ Above' = Above /\ parent' = parent /\ home' = home /\ mounted' = mounted
      /\ Tree /\ Tree' /\ DirTypes
  BY <1>1, SameTree DEF DirInv
<1>3. PICK x : x = e.file
  OBVIOUS
<1>4. /\ entries' \in [Dir -> SUBSET ([sub : Dir] \cup [file : WalkFile])]
      /\ x \in ToPrint(d)
      /\ ToPrint(d)' = ToPrint(d) \ {x} /\ ToFork(d)' = ToFork(d)
      /\ \A b \in Dir \ {d} : ToFork(b)' = ToFork(b) /\ ToPrint(b)' = ToPrint(b)
  BY <1>1, <1>2, <1>3, EntryVisited
<1>5. /\ x \in WalkFile /\ home[x] = d /\ printed[x] = 0
      /\ \A b \in Dir : x \notin stdout_buff[b]
  <2>1. x \in WalkFile /\ home[x] = d
    BY <1>4 DEF DirInv, FoundOnce, ToPrint
  <2>2. NotYetFound(x)
    BY <1>4, <2>1 DEF NotYetFound
  <2> QED
    BY <2>1, <2>2 DEF DirInv, FoundOnce
<1>6. /\ stdout_buff'[d] = {x} \cup (IF write THEN {} ELSE stdout_buff[d])
      /\ \A b \in Dir \ {d} : stdout_buff'[b] = stdout_buff[b]
      /\ walker' = walker /\ walker[d] = "walk"
      /\ \A f \in WalkFile : printed[f] \in Nat /\ home[f] \in Dir
  BY <1>1, <1>2, <1>3 DEF DirTypes
<1>7. \A f \in WalkFile :
        printed'[f] = IF write /\ f \in stdout_buff[d] THEN printed[f] + 1 ELSE printed[f]
  BY <1>1, <1>6 DEF Written
<1>8. DirTypes'
  <2>1. stdout_buff' \in [Dir -> SUBSET WalkFile]
    <3>1. {x} \cup (IF write THEN {} ELSE stdout_buff[d]) \subseteq WalkFile
      BY <1>2, <1>5 DEF DirTypes
    <3>2. stdout_buff' = [stdout_buff EXCEPT ![d] = {x} \cup (IF write THEN {} ELSE stdout_buff[d])]
      BY <1>1, <1>3
    <3> QED
      BY <1>2, <3>1, <3>2 DEF DirTypes
  <2>2. printed' \in [WalkFile -> Nat]
    BY <1>1, <1>2 DEF DirTypes, Written
  <2> QED
    BY <1>1, <1>2, <1>4, <2>1, <2>2 DEF DirTypes, treeVars
<1>9. NothingStarted'
  BY <1>6, DirsFinite DEF NothingStarted, DirInv
<1>10. ForkedByParent'
  <2>1. \A b \in Dir : ToFork(b)' = ToFork(b)
    BY <1>4
  <2> QED
    BY <1>2, <1>6, <2>1 DEF ForkedByParent, DirInv
<1>11. BuffersBelow'
  <2>1. x \in WalkFile /\ d \in Above[d]
    BY <1>2, <1>5, InAbove
  <2> QED
    BY <1>2, <1>5, <1>6, <2>1 DEF BuffersBelow, DirInv
<1>12. FoundOnce'
  <2>1. \A f \in WalkFile : NotYetFound(f)' => NotYetFound(f) /\ f # x
    BY <1>2, <1>4, <1>5, <1>6 DEF NotYetFound
  <2>2. \A b \in Dir : \A f \in ToPrint(b)' : home[f] = b
    BY <1>4 DEF FoundOnce, DirInv
  <2>3. ASSUME NEW f \in WalkFile, NotYetFound(f)'
        PROVE  printed'[f] = 0 /\ \A b \in Dir : f \notin stdout_buff'[b]
    <3>1. f # x /\ printed[f] = 0 /\ \A b \in Dir : f \notin stdout_buff[b]
      BY <2>1, <2>3 DEF FoundOnce, DirInv
    <3> QED
      BY <1>6, <1>7, <3>1
  <2> QED
    BY <1>2, <2>2, <2>3 DEF FoundOnce
<1>13. NoneForgotten'
  <2> SUFFICES ASSUME NEW f \in WalkFile
               PROVE  NoneForgotten!(f)'
    BY DEF NoneForgotten
  <2>0. NoneForgotten!(f)
    BY DEF NoneForgotten, DirInv
  <2>1. CASE f = x
    BY <1>2, <1>5, <1>6, <2>1
  <2>2. CASE f # x /\ home[f] = d
    BY <1>2, <1>4, <1>6, <1>7, <2>0, <2>2
  <2>3. CASE home[f] # d
    BY <1>2, <1>4, <1>6, <1>7, <2>0, <2>3
  <2> QED
    BY <2>1, <2>2, <2>3
<1>14. OneCopyEach'
  <2> SUFFICES ASSUME NEW f \in WalkFile
               PROVE  printed'[f] + Cardinality(Copied(f)') <= Cardinality(Reached(f)')
    BY DEF OneCopyEach
  <2>1. Reached(f)' = Reached(f) /\ Reached(f) \subseteq Dir /\ Copied(f) \subseteq Dir
    BY <1>2, <1>6 DEF Reached, Copied
  <2>2. /\ Cardinality(Copied(f)) \in Nat
        /\ Cardinality(Copied(f) \ {d}) =
             IF d \in Copied(f) THEN Cardinality(Copied(f)) - 1 ELSE Cardinality(Copied(f))
        /\ Cardinality(Reached(f)) \in Nat
    BY <2>1, OneDirectory
  <2>3. printed[f] + Cardinality(Copied(f)) <= Cardinality(Reached(f))
    BY DEF DirInv, OneCopyEach
  <2>4. CASE f = x
    <3>1. Copied(f)' = {d}
      BY <1>5, <1>6, <2>4 DEF Copied
    <3>2. printed'[f] = 0
      BY <1>5, <1>7, <2>4
    <3>3. d \in Reached(f)
      BY <1>2, <1>5, <1>6, <2>4, InAbove DEF Reached
    <3>4. Cardinality({d}) = 1 /\ Cardinality(Reached(f)) >= 1
      <4>1. Cardinality({d}) = 1
        BY FS_Singleton
      <4>2. IsFiniteSet(Reached(f)) /\ {d} \in SUBSET Reached(f)
        BY <2>1, <3>3, DirsFinite
      <4> QED
        BY <4>1, <4>2, FS_Subset, <2>2
    <3> QED
      BY <2>1, <3>1, <3>2, <3>4
  <2>5. CASE f # x /\ write
    <3>1. Copied(f)' = Copied(f) \ {d} /\ (d \in Copied(f) <=> f \in stdout_buff[d])
      BY <1>6, <2>5 DEF Copied
    <3> QED
      BY <1>6, <1>7, <2>1, <2>2, <2>3, <2>5, <3>1
  <2>6. CASE f # x /\ ~ write
    <3>1. Copied(f)' = Copied(f)
      BY <1>6, <2>6 DEF Copied
    <3> QED
      BY <1>6, <1>7, <2>1, <2>3, <2>6, <3>1
  <2> QED
    BY <2>4, <2>5, <2>6
<1> QED
  BY <1>2, <1>8, <1>9, <1>10, <1>11, <1>12, <1>13, <1>14 DEF DirInv

\* A fork gives the child the lines of its parent, which lie above both.
LEMMA ForkKeeps ==
  ASSUME DirInv, NEW d \in Dir, Fork(d)
  PROVE  DirInv'
<1>1. PICK e \in entries[d] :
        /\ "sub" \in DOMAIN e
        /\ walker[d] = "walk"
        /\ entries' = [entries EXCEPT ![d] = @ \ {e}]
        /\ \/ /\ walker' = [walker EXCEPT ![e.sub] = "open"]
              /\ stdout_buff' = [stdout_buff EXCEPT ![e.sub] = stdout_buff[d]]
           \/ UNCHANGED <<walker, stdout_buff>>
        /\ UNCHANGED <<treeVars, printed>>
  BY DEF Fork
<1>2. /\ Above' = Above /\ parent' = parent /\ home' = home /\ mounted' = mounted
      /\ Tree /\ Tree' /\ DirTypes
  BY <1>1, SameTree DEF DirInv
<1>3. PICK c : c = e.sub
  OBVIOUS
<1>4. /\ entries' \in [Dir -> SUBSET ([sub : Dir] \cup [file : WalkFile])]
      /\ c \in ToFork(d)
      /\ ToFork(d)' = ToFork(d) \ {c} /\ ToPrint(d)' = ToPrint(d)
      /\ \A b \in Dir \ {d} : ToFork(b)' = ToFork(b) /\ ToPrint(b)' = ToPrint(b)
  BY <1>1, <1>2, <1>3, EntryVisited
<1>5. c \in Dir /\ c # 0 /\ parent[c] = d /\ walker[c] = "off" /\ c # d /\ stdout_buff[c] = {}
  <2>1. c \in Dir /\ c # 0 /\ parent[c] = d /\ walker[c] = "off"
    BY <1>4 DEF ToFork, DirInv, ForkedByParent
  <2>2. stdout_buff[c] = {}
    BY <2>1 DEF DirInv, BuffersBelow
  <2> QED
    BY <1>1, <2>1, <2>2
<1>6. /\ \A b \in Dir : ToPrint(b)' = ToPrint(b)
      /\ \A b \in Dir : ToFork(b)' \subseteq ToFork(b) /\ c \notin ToFork(b)'
  <2>1. \A b \in Dir \ {d} : c \notin ToFork(b)
    BY <1>5 DEF DirInv, ForkedByParent
  <2> QED
    BY <1>4, <2>1
<1>7. \A f \in WalkFile : printed'[f] = printed[f] /\ printed[f] \in Nat /\ home[f] \in Dir
  BY <1>1, <1>2 DEF DirTypes
<1>8. \A b \in Dir \ {0} : parent[b] \in Dir
  BY <1>2 DEF Tree
<1>9. CASE UNCHANGED <<walker, stdout_buff>>
  <2>1. DirTypes'
    BY <1>1, <1>2, <1>4, <1>9 DEF DirTypes, treeVars
  <2>2. NothingStarted'
    BY <1>1, <1>9, DirsFinite DEF NothingStarted, DirInv
  <2>3. ForkedByParent'
    BY <1>2, <1>6, <1>8, <1>9 DEF ForkedByParent, DirInv
  <2>4. BuffersBelow'
    BY <1>2, <1>9 DEF BuffersBelow, DirInv
  <2>5. FoundOnce'
    BY <1>2, <1>6, <1>7, <1>9 DEF FoundOnce, DirInv, NotYetFound
  <2>6. NoneForgotten'
    BY <1>2, <1>6, <1>7, <1>9 DEF NoneForgotten, DirInv
  <2>7. OneCopyEach'
    <3>1. \A f \in WalkFile : Reached(f)' = Reached(f) /\ Copied(f)' = Copied(f)
      BY <1>2, <1>9 DEF Reached, Copied
    <3> QED
      BY <1>7, <3>1 DEF OneCopyEach, DirInv
  <2> QED
    BY <1>2, <2>1, <2>2, <2>3, <2>4, <2>5, <2>6, <2>7 DEF DirInv
<1>10. CASE /\ walker' = [walker EXCEPT ![e.sub] = "open"]
            /\ stdout_buff' = [stdout_buff EXCEPT ![e.sub] = stdout_buff[d]]
  <2>1. /\ walker'[c] = "open" /\ \A b \in Dir \ {c} : walker'[b] = walker[b]
        /\ stdout_buff'[c] = stdout_buff[d]
        /\ \A b \in Dir \ {c} : stdout_buff'[b] = stdout_buff[b]
        /\ stdout_buff[d] \subseteq WalkFile
    BY <1>2, <1>3, <1>5, <1>10 DEF DirTypes
  <2>2. DirTypes'
    <3>1. /\ walker' \in [Dir -> {"off", "open", "walk", "exited", "aborted"}]
          /\ stdout_buff' \in [Dir -> SUBSET WalkFile]
      BY <1>2, <1>3, <1>5, <1>10 DEF DirTypes
    <3> QED
      BY <1>1, <1>2, <1>4, <3>1 DEF DirTypes, treeVars
  <2>3. NothingStarted'
    BY <1>1, <1>5, <2>1, DirsFinite DEF NothingStarted, DirInv
  <2>4. ForkedByParent'
    <3>1. ASSUME NEW b \in Dir, b # 0, walker'[b] # "off"
          PROVE  walker'[parent[b]] \notin {"off", "open"}
      <4>1. CASE b = c
        BY <1>1, <1>5, <2>1, <4>1
      <4>2. CASE b # c
        <5>1. walker[parent[b]] \notin {"off", "open"} /\ parent[b] \in Dir
          BY <1>8, <2>1, <3>1, <4>2 DEF DirInv, ForkedByParent
        <5> QED
          BY <1>5, <2>1, <5>1
      <4> QED
        BY <4>1, <4>2
    <3>2. ASSUME NEW a \in Dir, NEW b \in Dir, a \in ToFork(b)'
          PROVE  a # 0 /\ parent[a] = b /\ walker'[a] = "off"
      <4>1. a \in ToFork(b) /\ a # c
        BY <1>6, <3>2
      <4> QED
        BY <2>1, <4>1 DEF DirInv, ForkedByParent
    <3> QED
      BY <1>2, <3>1, <3>2 DEF ForkedByParent
  <2>5. BuffersBelow'
    <3>1. Above[d] \subseteq Above[c]
      BY <1>2, <1>5, InAbove
    <3> QED
      BY <1>2, <2>1, <3>1 DEF BuffersBelow, DirInv
  <2>6. FoundOnce'
    <3>1. \A f \in WalkFile : NotYetFound(f)' => NotYetFound(f)
      BY <1>2, <1>5, <1>6, <1>7, <2>1 DEF NotYetFound
    <3> QED
      BY <1>2, <1>6, <1>7, <2>1, <3>1 DEF FoundOnce, DirInv
  <2>7. NoneForgotten'
    BY <1>2, <1>6, <1>7, <2>1 DEF NoneForgotten, DirInv
  <2>8. OneCopyEach'
    <3> SUFFICES ASSUME NEW f \in WalkFile
                 PROVE  printed'[f] + Cardinality(Copied(f)') <= Cardinality(Reached(f)')
      BY DEF OneCopyEach
    <3>1. /\ Reached(f) \subseteq Dir /\ Copied(f) \subseteq Dir
          /\ c \notin Reached(f) /\ c \notin Copied(f)
          /\ printed[f] + Cardinality(Copied(f)) <= Cardinality(Reached(f))
      BY <1>5 DEF Reached, Copied, DirInv, OneCopyEach
    <3>2. Reached(f)' = IF home[f] \in Above[c] THEN Reached(f) \cup {c} ELSE Reached(f)
      BY <1>2, <1>5, <2>1 DEF Reached
    <3>3. Copied(f)' = IF f \in stdout_buff[d] THEN Copied(f) \cup {c} ELSE Copied(f)
      BY <1>5, <2>1 DEF Copied
    <3>4. f \in stdout_buff[d] => home[f] \in Above[c]
      BY <1>2, <1>5, InAbove DEF DirInv, BuffersBelow
    <3>5. /\ Cardinality(Copied(f)) \in Nat /\ Cardinality(Reached(f)) \in Nat
          /\ Cardinality(Copied(f) \cup {c}) = Cardinality(Copied(f)) + 1
          /\ Cardinality(Reached(f) \cup {c}) = Cardinality(Reached(f)) + 1
      BY <1>5, <3>1, OneDirectory
    <3> QED
      BY <1>7, <3>1, <3>2, <3>3, <3>4, <3>5
  <2> QED
    BY <1>2, <2>2, <2>3, <2>4, <2>5, <2>6, <2>7, <2>8 DEF DirInv
<1> QED
  BY <1>1, <1>9, <1>10

\* The tree is any, when nothing has happened in it yet.
LEMMA DirStartKeeps ==
  ASSUME DirInv, DirStart
  PROVE  DirInv'
<1>1. /\ walker[0] = "off" /\ walker' = [walker EXCEPT ![0] = "open"]
      /\ UNCHANGED <<entries, stdout_buff, printed>>
      /\ Tree' /\ home' \in [WalkFile -> Dir] /\ mounted' \subseteq Dir /\ broken' \subseteq Dir
      /\ terminal' \in BOOLEAN
  BY DEF DirStart, Tree
<1>2. DirTypes'
  BY <1>1, DirsFinite DEF DirInv, DirTypes
<1>3. /\ \A d \in Dir : ToFork(d)' = {} /\ ToPrint(d)' = {} /\ stdout_buff'[d] = {}
      /\ \A f \in WalkFile : printed'[f] = 0
      /\ walker'[0] = "open" /\ \A d \in Dir \ {0} : walker'[d] = "off"
  BY <1>1, DirsFinite DEF DirInv, NothingStarted, DirTypes, ToFork, ToPrint
<1>4. \A d \in Dir : walker'[d] \in {"off", "open"}
  BY <1>3
<1>5. NothingStarted' /\ ForkedByParent' /\ BuffersBelow'
  BY <1>3 DEF NothingStarted, ForkedByParent, BuffersBelow
<1>6. FoundOnce' /\ NoneForgotten'
  <2>1. \A f \in WalkFile : home'[f] \in Dir
    BY <1>1
  <2> QED
    BY <1>3, <1>4, <2>1 DEF FoundOnce, NoneForgotten
<1>7. OneCopyEach'
  <2> SUFFICES ASSUME NEW f \in WalkFile
               PROVE  printed'[f] + Cardinality(Copied(f)') <= Cardinality(Reached(f)')
    BY DEF OneCopyEach
  <2>1. Copied(f)' = {} /\ Reached(f)' \subseteq Dir
    BY <1>3 DEF Copied, Reached
  <2>2. Cardinality(Copied(f)') = 0 /\ Cardinality(Reached(f)') \in Nat
    BY <2>1, FS_EmptySet, DirsFinite
  <2> QED
    BY <1>3, <2>2
<1> QED
  BY <1>1, <1>2, <1>5, <1>6, <1>7 DEF DirInv

LEMMA DirInitHolds ==
  ASSUME DirInit
  PROVE  DirInv
<1>1. DirTypes
  BY DirsFinite DEF DirInit, DirTypes
<1>5. Tree
  BY DirAssumption DEF DirInit, Tree, Dir
<1>2. NothingStarted /\ ForkedByParent /\ BuffersBelow
  BY DEF DirInit, NothingStarted, ForkedByParent, BuffersBelow, ToFork
<1>3. FoundOnce /\ NoneForgotten
  BY DirsFinite DEF DirInit, FoundOnce, NoneForgotten, ToPrint
<1>4. OneCopyEach
  <2> SUFFICES ASSUME NEW f \in WalkFile
               PROVE  printed[f] + Cardinality(Copied(f)) <= Cardinality(Reached(f))
    BY DEF OneCopyEach
  <2>1. Copied(f) = {} /\ Reached(f) \subseteq Dir /\ printed[f] = 0
    BY DEF DirInit, Copied, Reached
  <2> QED
    BY <2>1, FS_EmptySet, DirsFinite
<1> QED
  BY <1>1, <1>2, <1>3, <1>4, <1>5 DEF DirInv

-----------------------------------------------------------------------------
(* DirWalk: the theorems.                                                  *)

\* The invariant is inductive.
THEOREM DirInvariant == DirSpec => []DirInv
<1>1. ASSUME DirInv, [DirNext]_dirVars
      PROVE  DirInv'
  <2>1. ASSUME NEW d \in Dir, Walker(d)
        PROVE  DirInv'
    <3>1. CASE Skip(d)
      BY <1>1, <3>1, ExitKeeps DEF Skip
    <3>2. CASE EndOfDirectory(d)
      BY <1>1, <3>2, ExitKeeps DEF EndOfDirectory
    <3> QED
      BY <1>1, <2>1, <3>1, <3>2, OpenKeeps, AbortKeeps, ForkKeeps, FoundKeeps DEF Walker
  <2>2. CASE UNCHANGED dirVars
    <3>1. UNCHANGED treeVars /\ UNCHANGED <<walker, entries, stdout_buff, printed>>
      BY <2>2 DEF dirVars, treeVars
    <3>2. Above' = Above
      BY <3>1, SameTree
    <3>3. /\ Tree' /\ DirTypes' /\ NothingStarted' /\ ForkedByParent'
          /\ FoundOnce' /\ NoneForgotten'
      BY <1>1, <3>1 DEF DirInv, treeVars, Tree, DirTypes, NothingStarted, ForkedByParent,
                        FoundOnce, NotYetFound, NoneForgotten, ToFork, ToPrint
    <3>4. BuffersBelow' /\ OneCopyEach'
      BY <1>1, <3>1, <3>2 DEF DirInv, treeVars, BuffersBelow, OneCopyEach, Copied, Reached
    <3> QED
      BY <3>3, <3>4 DEF DirInv
  <2> QED
    BY <1>1, <2>1, <2>2, DirStartKeeps DEF DirNext, DirStep
<1> QED
  BY <1>1, DirInitHolds, PTL DEF DirSpec

\* Types, for any tree and files; no line is written more often than there are
\* directories.
THEOREM DirTypeCorrect == DirSpec => []DirTypeOK
<1>1. ASSUME DirInv
      PROVE  DirTypeOK
  <2>1. \A d \in Dir : entries[d] \subseteq [sub : Dir] \cup [file : WalkFile]
    BY <1>1 DEF DirInv, DirTypes
  <2>2. ASSUME NEW f \in WalkFile
        PROVE  printed[f] \in 0..Cardinality(Dir)
    <3>1. Reached(f) \subseteq Dir /\ Copied(f) \subseteq Dir
      BY DEF Reached, Copied
    <3>2. /\ Cardinality(Reached(f)) \in Nat /\ Cardinality(Reached(f)) <= Cardinality(Dir)
          /\ Cardinality(Copied(f)) \in Nat /\ Cardinality(Dir) \in Nat
      BY <3>1, DirsFinite
    <3> QED
      BY <1>1, <3>2 DEF DirInv, DirTypes, OneCopyEach
  <2>3. printed \in [WalkFile -> 0..Cardinality(Dir)]
    BY <1>1, <2>2 DEF DirInv, DirTypes
  <2> QED
    BY <1>1, <2>1, <2>3 DEF DirInv, DirTypes, Tree, DirTypeOK
<1> QED
  BY <1>1, DirInvariant, PTL

\* However the processes interleave, fork copies buffers and processes abort, a
\* line is written once at most by each process of its directory or below, and
\* once at least if its own process ends well (main.cpp:20-36).
THEOREM LinesWrittenHolds == DirSpec => []LinesWritten
<1>1. DirInv => LinesWritten
  BY DEF DirInv, OneCopyEach, NoneForgotten, LinesWritten, Reached
<1> QED
  BY <1>1, DirInvariant, PTL
=============================================================================
