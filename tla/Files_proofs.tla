---------------------------- MODULE Files_proofs ----------------------------
(***************************************************************************)
(* Proofs about the programs that work on files: the file statistics of    *)
(* cw01 for a container of any size and any number of records, and the two *)
(* copies of cw02 for any block size and any length of the input.          *)
(*                                                                         *)
(* FileData: that erase moves pointers without losing or doubling one      *)
(* needs the pointers below size to differ (Distinct), and that a new      *)
(* record has no owner yet needs all of them to be old (RecordsCounted).   *)
(* A container that does not exist owns nothing, and destroy is the last   *)
(* word on it (NoLeftover).                                                *)
(*                                                                         *)
(* ReverseCopy: what has been written is always the end of the input       *)
(* backwards, as long as what has been counted (Counted); so both loops    *)
(* end with the same file.                                                 *)
(*                                                                         *)
(* ReplaceCopy: the file and the buffer of its stream together are what    *)
(* has been read, byte for byte (Transferred).                             *)
(***************************************************************************)
EXTENDS FileData, ReverseCopy, ReplaceCopy, FiniteSetTheorems, SequenceTheorems, TLAPS

-----------------------------------------------------------------------------
(* FileData: the invariant.                                                *)

\* Types, but for the history variables that the other conjuncts describe.
FileTypes ==
  /\ statistics \in {"off", "run", "delete", "ended", "thrown", "undefined", "wild"}
  /\ fd \in {"null", "live", "dangling"}
  /\ last_word \in {"none", "init", "count", "show", "delete", "destroy"}
  /\ maxSize \in 0..MaxSize /\ size \in 0..maxSize
  /\ dataPointers \in [Index -> Record \cup {0}]
  /\ recordCtr \in 0..MaxRecords

\* Every record that anybody knows has been counted.
RecordsCounted ==
  /\ heap \subseteq 1..recordCtr
  /\ dropped \subseteq 1..recordCtr
  /\ Owned \subseteq 1..recordCtr

\* The container does not hold a record twice.
Distinct ==
  \A i, j \in 0..(size - 1) : dataPointers[i] = dataPointers[j] => i = j

NoLeftover ==
  /\ fd # "live" => size = 0
  /\ last_word = "destroy" => fd # "live"

FileInv ==
  /\ FileTypes
  /\ RecordsCounted
  /\ Distinct
  /\ NoLeftover
  /\ RecordsOwned
  /\ ListFaithful

-----------------------------------------------------------------------------
(* FileData: the container.                                                *)

\* The bounds of the numbers.
LEMMA Sizes ==
  ASSUME FileTypes
  PROVE  /\ size \in Nat /\ maxSize \in Nat /\ MaxSize \in Nat
         /\ size <= maxSize /\ maxSize <= MaxSize
         /\ recordCtr \in Nat /\ recordCtr <= MaxRecords /\ MaxRecords \in Nat
<1>1. MaxSize \in Nat /\ MaxRecords \in Nat
  BY FileDataAssumption
<1>2. maxSize \in Nat /\ maxSize <= MaxSize
  BY <1>1 DEF FileTypes
<1>3. size \in Nat /\ size <= maxSize
  BY <1>2 DEF FileTypes
<1>4. recordCtr \in Nat /\ recordCtr <= MaxRecords
  BY <1>1 DEF FileTypes
<1> QED
  BY <1>1, <1>2, <1>3, <1>4

\* The part of the array in use.
LEMMA InUse ==
  ASSUME FileInv
  PROVE  /\ 0..(size - 1) \subseteq Index
         /\ size \in Nat /\ maxSize \in Nat /\ MaxSize \in Nat
         /\ \A i \in 0..(size - 1) :
              /\ dataPointers[i] \in Owned
              /\ dataPointers[i] \in 1..recordCtr
              /\ dataPointers[i] \in Record
         /\ IsFiniteSet(Owned)
<1>1. /\ size \in Nat /\ maxSize \in Nat /\ MaxSize \in Nat
      /\ size <= maxSize /\ maxSize <= MaxSize
      /\ recordCtr \in Nat /\ recordCtr <= MaxRecords /\ MaxRecords \in Nat
  BY Sizes DEF FileInv
<1>2. 0..(size - 1) \subseteq Index
  BY <1>1 DEF Index
<1>3. \A i \in 0..(size - 1) : dataPointers[i] \in Owned
  BY DEF Owned
<1>4. Owned \subseteq 1..recordCtr
  BY DEF FileInv, RecordsCounted
<1>5. 1..recordCtr \subseteq Record
  BY <1>1 DEF Record
<1>6. IsFiniteSet(Owned)
  <2>1. IsFiniteSet(1..recordCtr)
    BY <1>1, FS_Interval
  <2> QED
    BY <1>4, <2>1, FS_Subset
<1> QED
  BY <1>1, <1>2, <1>3, <1>4, <1>5, <1>6

\* A push adds one record at the end.
LEMMA PushEffect ==
  ASSUME FileInv, size < maxSize, recordCtr < MaxRecords,
         recordCtr' = recordCtr + 1,
         dataPointers' = [dataPointers EXCEPT ![size] = recordCtr'],
         size' = size + 1
  PROVE  /\ Owned' = Owned \cup {recordCtr + 1}
         /\ recordCtr + 1 \notin Owned
         /\ dataPointers'[size] = recordCtr + 1
         /\ \A i \in 0..(size - 1) : dataPointers'[i] = dataPointers[i]
         /\ Cardinality(Owned') = size + 1
         /\ Distinct'
<1>1. /\ size \in Nat /\ maxSize \in Nat /\ MaxSize \in Nat /\ recordCtr \in Nat
      /\ size \in Index
      /\ dataPointers \in [Index -> Record \cup {0}]
  BY Sizes DEF FileInv, FileTypes, Index
<1>2. /\ dataPointers'[size] = recordCtr + 1
      /\ \A i \in 0..(size - 1) : dataPointers'[i] = dataPointers[i]
  BY <1>1, InUse
<1>3. recordCtr + 1 \notin Owned
  BY <1>1 DEF FileInv, RecordsCounted
<1>4. Owned' = {dataPointers'[i] : i \in 0..size}
  BY <1>1 DEF Owned
<1>5. Owned' = Owned \cup {recordCtr + 1}
  BY <1>1, <1>2, <1>4 DEF Owned
<1>6. Cardinality(Owned') = size + 1
  BY <1>3, <1>5, InUse, FS_AddElement DEF FileInv, RecordsOwned
<1>7. Distinct'
  <2>1. \A i \in 0..(size - 1) : dataPointers'[i] # recordCtr + 1
    BY <1>2, <1>3, InUse
  <2> QED
    BY <1>1, <1>2, <2>1 DEF Distinct, FileInv
<1> QED
  BY <1>2, <1>3, <1>5, <1>6, <1>7

\* An erase takes out one record and moves those after it.
LEMMA EraseEffect ==
  ASSUME FileInv, NEW index \in 0..(size - 1),
         dataPointers' = Moved(index),
         size' = size - 1
  PROVE  /\ dataPointers' \in [Index -> Record \cup {0}]
         /\ \A i \in 0..(size - 2) :
              dataPointers'[i] = dataPointers[IF i < index THEN i ELSE i + 1]
         /\ Owned' = Owned \ {dataPointers[index]}
         /\ Cardinality(Owned') = size - 1
         /\ Distinct'
<1> DEFINE From(i) == IF i < index THEN i ELSE i + 1
<1>1. /\ size \in Nat /\ size > 0 /\ index \in Nat /\ index < size
      /\ size <= MaxSize /\ MaxSize \in Nat
      /\ dataPointers \in [Index -> Record \cup {0}]
  BY Sizes DEF FileInv, FileTypes
<1>2. dataPointers' \in [Index -> Record \cup {0}]
  <2>1. \A i \in Index : (IF i \in index..(size - 2) THEN i + 1 ELSE i) \in Index
    BY <1>1 DEF Index
  <2> QED
    BY <1>1, <2>1 DEF Moved
<1>3. \A i \in 0..(size - 2) : dataPointers'[i] = dataPointers[From(i)]
  BY <1>1 DEF Moved, Index
<1>4. \A i \in 0..(size - 2) : From(i) \in 0..(size - 1) /\ From(i) # index
  BY <1>1
<1>5. \A j \in 0..(size - 1) : j # index => \E i \in 0..(size - 2) : j = From(i)
  <2>1. ASSUME NEW j \in 0..(size - 1), j # index
        PROVE  \E i \in 0..(size - 2) : j = From(i)
    <3>1. CASE j < index
      BY <1>1, <3>1
    <3>2. CASE j > index
      <4>1. j - 1 \in 0..(size - 2) /\ ~ (j - 1 < index) /\ (j - 1) + 1 = j
        BY <1>1, <3>2
      <4> QED
        BY <4>1
    <3> QED
      BY <1>1, <2>1, <3>1, <3>2
  <2> QED
    BY <2>1
<1>6. \A i, j \in 0..(size - 1) : dataPointers[i] = dataPointers[j] => i = j
  BY DEF FileInv, Distinct
<1>7. Owned' = Owned \ {dataPointers[index]}
  <2>1. Owned' = {dataPointers'[i] : i \in 0..(size - 2)}
    BY <1>1 DEF Owned
  <2>2. Owned = {dataPointers[i] : i \in 0..(size - 1)}
    BY DEF Owned
  <2> HIDE DEF From
  <2> QED
    BY <1>3, <1>4, <1>5, <1>6, <2>1, <2>2
<1>8. Cardinality(Owned') = size - 1
  BY <1>1, <1>7, InUse, FS_RemoveElement DEF FileInv, RecordsOwned
<1>9. Distinct'
  <2>1. \A i, j \in 0..(size - 2) : From(i) = From(j) => i = j
    BY <1>1
  <2>2. \A i, j \in 0..(size - 2) : dataPointers'[i] = dataPointers'[j] => i = j
    <3> HIDE DEF From
    <3> QED
      BY <1>3, <1>4, <1>6, <2>1
  <2>3. size' - 1 = size - 2
    BY <1>1
  <2> QED
    BY <2>2, <2>3 DEF Distinct
<1> QED
  BY <1>2, <1>3, <1>7, <1>8, <1>9

\* The list the user expects grows and shrinks like the array.
LEMMA ListIs ==
  ASSUME FileInv
  PROVE  /\ listing \in Seq(Record)
         /\ Len(listing) = size
         /\ \A n \in 1..size : listing[n] = dataPointers[n - 1]
<1>1. size \in Nat
  BY InUse
<1>2. \A n \in 1..size : n - 1 \in 0..(size - 1)
  BY <1>1
<1>3. listing = [n \in 1..size |-> dataPointers[n - 1]]
  BY DEF FileInv, ListFaithful
<1> QED
  BY <1>1, <1>2, <1>3, InUse

\* Appending the new record keeps the list faithful.
LEMMA ListGrows ==
  ASSUME FileInv, NEW r \in Record,
         listing' = Append(listing, r),
         size' = size + 1,
         dataPointers'[size] = r,
         \A i \in 0..(size - 1) : dataPointers'[i] = dataPointers[i]
  PROVE  ListFaithful'
<1> DEFINE l == [n \in 1..(size + 1) |-> dataPointers'[n - 1]]
<1>1. size \in Nat /\ listing \in Seq(Record) /\ Len(listing) = size
  BY InUse, ListIs
<1>2. \A n \in 1..(size + 1) : l[n] = IF n <= size THEN listing[n] ELSE r
  <2>1. ASSUME NEW n \in 1..(size + 1)
        PROVE  l[n] = IF n <= size THEN listing[n] ELSE r
    <3>1. CASE n <= size
      <4>1. n \in 1..size /\ n - 1 \in 0..(size - 1)
        BY <1>1, <3>1
      <4> QED
        BY <3>1, <4>1, ListIs
    <3>2. CASE n = size + 1
      <4>1. n - 1 = size /\ ~ (n <= size)
        BY <1>1, <3>2
      <4> QED
        BY <4>1
    <3> QED
      BY <1>1, <3>1, <3>2
  <2> QED
    BY <2>1
<1>3. l \in Seq(Record) /\ Len(l) = size + 1
  <2>1. \A n \in 1..(size + 1) : l[n] \in Record
    <3>1. \A n \in 1..size : listing[n] \in Record
      BY <1>1, ElementOfSeq
    <3> HIDE DEF l
    <3> QED
      BY <1>1, <1>2, <3>1
  <2>2. l = [n \in 1..(size + 1) |-> l[n]]
    OBVIOUS
  <2> HIDE DEF l
  <2> QED
    BY <1>1, <2>1, <2>2
<1>4. /\ listing' \in Seq(Record) /\ Len(listing') = size + 1
      /\ \A n \in 1..(size + 1) : listing'[n] = IF n <= size THEN listing[n] ELSE r
  <2>1. \A n \in 1..size : listing'[n] = listing[n]
    BY <1>1, AppendProperties
  <2>2. listing'[size + 1] = r /\ listing' \in Seq(Record) /\ Len(listing') = size + 1
    BY <1>1, AppendProperties
  <2> QED
    BY <1>1, <2>1, <2>2
<1>5. listing' = l
  <2> HIDE DEF l
  <2> QED
    BY <1>2, <1>3, <1>4, SeqEqual
<1> QED
  BY <1>5 DEF ListFaithful

\* Removing the erased record keeps the list faithful.
LEMMA ListShrinks ==
  ASSUME FileInv, NEW index \in 0..(size - 1),
         listing' = RemoveNth(listing, index + 1),
         size' = size - 1,
         \A i \in 0..(size - 2) : dataPointers'[i] = dataPointers[IF i < index THEN i ELSE i + 1]
  PROVE  ListFaithful'
<1>1. size \in Nat /\ Len(listing) = size /\ index \in Nat /\ index < size
  BY InUse, ListIs
<1>2. ASSUME NEW n \in 1..(size - 1)
      PROVE  listing[IF n < index + 1 THEN n ELSE n + 1] = dataPointers'[n - 1]
  <2> DEFINE m == IF n < index + 1 THEN n ELSE n + 1
  <2>1. m \in 1..size /\ n - 1 \in 0..(size - 2)
    BY <1>1
  <2>2. m - 1 = IF n - 1 < index THEN n - 1 ELSE (n - 1) + 1
    BY <1>1
  <2>3. listing[m] = dataPointers[m - 1]
    BY <2>1, ListIs
  <2> QED
    BY <2>1, <2>2, <2>3
<1>3. listing' = [n \in 1..(size - 1) |-> listing[IF n < index + 1 THEN n ELSE n + 1]]
  BY <1>1 DEF RemoveNth
<1> QED
  BY <1>1, <1>2, <1>3 DEF ListFaithful

-----------------------------------------------------------------------------
(* FileData: the commands.                                                 *)

\* A command that leaves the container alone.
LEMMA ContainerSame ==
  ASSUME FileInv, UNCHANGED containerVars,
         statistics' \in {"off", "run", "delete", "ended", "thrown", "undefined", "wild"},
         fd' = fd,
         last_word' \in {"none", "init", "count", "show", "delete", "destroy"},
         last_word' = "destroy" => fd # "live",
         statistics' = "undefined" => fd # "live",
         statistics = "thrown" => statistics' = "thrown"
  PROVE  FileInv'
<1>1. Owned' = Owned
  BY DEF Owned, containerVars
<1>2. FileTypes' /\ RecordsCounted'
  BY <1>1 DEF FileInv, FileTypes, RecordsCounted, containerVars
<1>3. Distinct' /\ NoLeftover' /\ ListFaithful'
  BY DEF FileInv, Distinct, NoLeftover, ListFaithful, containerVars
<1>4. RecordsOwned'
  BY <1>1 DEF FileInv, RecordsOwned, containerVars
<1> QED
  BY <1>2, <1>3, <1>4 DEF FileInv

\* An empty container owns nothing.
LEMMA EmptyContainer ==
  ASSUME FileInv, size' = 0, listing' = <<>>
  PROVE  Owned' = {} /\ Cardinality(Owned') = 0 /\ Distinct' /\ ListFaithful'
<1>1. 0..(size' - 1) = {}
  OBVIOUS
<1>2. Owned' = {}
  BY <1>1 DEF Owned
<1>3. Distinct'
  BY <1>1 DEF Distinct
<1>4. ListFaithful'
  BY DEF ListFaithful
<1> QED
  BY <1>2, <1>3, <1>4, FS_EmptySet

\* init replaces the container, and drops what it owned.
LEMMA InitKeeps ==
  ASSUME FileInv, InitCommand
  PROVE  FileInv'
<1> USE DEF InitCommand, Command
<1>1. Owned' = {} /\ Cardinality(Owned') = 0 /\ Distinct' /\ ListFaithful' /\ NoLeftover'
  BY EmptyContainer DEF NoLeftover
<1>2. FileTypes'
  BY Sizes DEF FileInv, FileTypes, Index
<1>3. dropped' = dropped \cup Owned
  <2>1. CASE fd = "live"
    BY <2>1
  <2>2. CASE fd # "live"
    <3>1. 0..(size - 1) = {}
      BY <2>2 DEF FileInv, NoLeftover
    <3> QED
      BY <2>2, <3>1 DEF Owned
  <2> QED
    BY <2>1, <2>2
<1>4. RecordsCounted' /\ RecordsOwned'
  BY <1>1, <1>3 DEF FileInv, RecordsCounted, RecordsOwned
<1> QED
  BY <1>1, <1>2, <1>4 DEF FileInv

\* count allocates a record; if there is no room it is lost, and the program
\* ends.
LEMMA CountKeeps ==
  ASSUME FileInv, CountCommand
  PROVE  FileInv'
<1> USE DEF CountCommand, Command
<1>0. /\ recordCtr \in Nat /\ recordCtr' = recordCtr + 1 /\ recordCtr + 1 <= MaxRecords
      /\ MaxRecords \in Nat /\ recordCtr + 1 \in Record
      /\ heap' = heap \cup {recordCtr + 1} /\ dropped' = dropped
      /\ fd = "live" /\ fd' = "live" /\ statistics = "run"
  BY Sizes DEF FileInv, FileTypes, Record
<1>1. CASE Full
  <2>1. Owned' = Owned
    BY <1>1 DEF Owned
  <2>2. FileTypes'
    BY <1>0, <1>1 DEF FileInv, FileTypes
  <2>3. RecordsCounted' /\ RecordsOwned'
    BY <1>0, <1>1, <2>1 DEF FileInv, RecordsCounted, RecordsOwned
  <2>4. Distinct' /\ NoLeftover' /\ ListFaithful'
    BY <1>0, <1>1 DEF FileInv, Distinct, NoLeftover, ListFaithful
  <2> QED
    BY <2>2, <2>3, <2>4 DEF FileInv
<1>2. CASE ~ Full
  <2>0. /\ size < maxSize
        /\ dataPointers' = [dataPointers EXCEPT ![size] = recordCtr']
        /\ size' = size + 1 /\ maxSize' = maxSize
        /\ listing' = Append(listing, recordCtr + 1)
        /\ statistics' \in {"run", "thrown"}
    BY <1>0, <1>2, Sizes DEF Full, FileInv
  <2>1. /\ Owned' = Owned \cup {recordCtr + 1}
        /\ recordCtr + 1 \notin Owned
        /\ dataPointers'[size] = recordCtr + 1
        /\ \A i \in 0..(size - 1) : dataPointers'[i] = dataPointers[i]
        /\ Cardinality(Owned') = size + 1
        /\ Distinct'
    BY <1>0, <2>0, PushEffect
  <2>2. FileTypes'
    <3>1. size' \in 0..maxSize' /\ recordCtr' \in 0..MaxRecords
      BY <1>0, <2>0, Sizes DEF FileInv
    <3>2. dataPointers' \in [Index -> Record \cup {0}]
      BY <1>0, <2>0 DEF FileInv, FileTypes
    <3> QED
      BY <1>0, <2>0, <3>1, <3>2 DEF FileInv, FileTypes
  <2>3. ListFaithful'
    BY <1>0, <2>0, <2>1, ListGrows
  <2>4. recordCtr + 1 \notin dropped
    BY <1>0 DEF FileInv, RecordsCounted
  <2>5. RecordsCounted' /\ RecordsOwned'
    BY <1>0, <2>0, <2>1, <2>4 DEF FileInv, RecordsCounted, RecordsOwned
  <2>6. NoLeftover'
    BY <1>0 DEF NoLeftover
  <2> QED
    BY <2>1, <2>2, <2>3, <2>5, <2>6 DEF FileInv
<1> QED
  BY <1>1, <1>2

\* erase deletes the record it takes out, and that record exists.
LEMMA EraseKeeps ==
  ASSUME FileInv, Erase
  PROVE  FileInv'
<1>1. PICK index \in -1..MaxSize :
        /\ statistics = "delete"
        /\ fd = "live"
        /\ IF OutOfRange(index)
           THEN statistics' = "thrown" /\ UNCHANGED containerVars
           ELSE /\ statistics' = IF dataPointers[index] \in heap THEN "delete" ELSE "undefined"
                /\ heap' = heap \ {dataPointers[index]}
                /\ dataPointers' = Moved(index)
                /\ size' = size - 1
                /\ listing' = RemoveNth(listing, index + 1)
                /\ UNCHANGED <<maxSize, dropped, recordCtr>>
        /\ UNCHANGED <<fd, last_word>>
  BY DEF Erase
<1>2. CASE OutOfRange(index)
  <2>1. UNCHANGED containerVars /\ statistics' = "thrown" /\ fd' = fd /\ last_word' = last_word
    BY <1>1, <1>2
  <2> QED
    BY <2>1, ContainerSame DEF FileInv, FileTypes, NoLeftover
<1>3. CASE ~ OutOfRange(index)
  <2>0. index \in 0..(size - 1)
    BY <1>3, Sizes DEF OutOfRange, FileInv
  <2>1. /\ statistics' = IF dataPointers[index] \in heap THEN "delete" ELSE "undefined"
        /\ heap' = heap \ {dataPointers[index]}
        /\ dataPointers' = Moved(index)
        /\ size' = size - 1
        /\ listing' = RemoveNth(listing, index + 1)
        /\ UNCHANGED <<maxSize, dropped, recordCtr, fd, last_word>>
    BY <1>1, <1>3
  <2>2. /\ dataPointers' \in [Index -> Record \cup {0}]
        /\ \A i \in 0..(size - 2) :
             dataPointers'[i] = dataPointers[IF i < index THEN i ELSE i + 1]
        /\ Owned' = Owned \ {dataPointers[index]}
        /\ Cardinality(Owned') = size - 1
        /\ Distinct'
    BY <2>0, <2>1, EraseEffect
  <2>3. ListFaithful'
    BY <2>0, <2>1, <2>2, ListShrinks
  <2>4. dataPointers[index] \in Owned /\ dataPointers[index] \in heap
    BY <1>1, <2>0, InUse DEF FileInv, RecordsOwned
  <2>5. statistics' = "delete"
    BY <2>1, <2>4
  <2>6. RecordsCounted' /\ RecordsOwned'
    BY <1>1, <2>1, <2>2, <2>4, <2>5 DEF FileInv, RecordsCounted, RecordsOwned
  <2>7. size' \in 0..maxSize'
    BY <2>0, <2>1, Sizes DEF FileInv
  <2>8. FileTypes' /\ NoLeftover'
    BY <1>1, <2>1, <2>2, <2>5, <2>7 DEF FileInv, FileTypes, NoLeftover
  <2> QED
    BY <2>2, <2>3, <2>6, <2>8 DEF FileInv
<1> QED
  BY <1>2, <1>3

\* destroy deletes what the container owns, and nothing else.
LEMMA DestroyKeeps ==
  ASSUME FileInv, DestroyCommand
  PROVE  FileInv'
<1> USE DEF DestroyCommand, Command
<1>1. CASE fd # "live"
  <2>1. /\ UNCHANGED containerVars /\ fd' = fd /\ last_word' = "destroy"
        /\ statistics' \in {"run", "thrown", "undefined"} /\ statistics = "run"
    BY <1>1 DEF FileInv, FileTypes
  <2> QED
    BY <1>1, <2>1, ContainerSame
<1>2. CASE fd = "live"
  <2>1. /\ statistics' \in IF Owned \subseteq heap THEN {"run", "thrown"} ELSE {"undefined"}
        /\ statistics = "run" /\ last_word' = "destroy"
        /\ fd' = "dangling"
        /\ heap' = heap \ Owned
        /\ size' = 0
        /\ listing' = <<>>
        /\ UNCHANGED <<maxSize, dataPointers, dropped, recordCtr>>
    BY <1>2
  <2>2. Owned' = {} /\ Cardinality(Owned') = 0 /\ Distinct' /\ ListFaithful'
    BY <2>1, EmptyContainer
  <2>3. heap = Owned \cup dropped /\ Owned \cap dropped = {}
    BY <2>1 DEF FileInv, RecordsOwned
  <2>4. RecordsCounted' /\ RecordsOwned'
    BY <2>1, <2>2, <2>3 DEF FileInv, RecordsCounted, RecordsOwned
  <2>5. FileTypes' /\ NoLeftover'
    BY <2>1, <2>3, Sizes DEF FileInv, FileTypes, NoLeftover
  <2> QED
    BY <2>2, <2>4, <2>5 DEF FileInv
<1> QED
  BY <1>1, <1>2

\* The other commands only change what the program does next.
LEMMA OthersKeep ==
  ASSUME FileInv,
         \/ FileStart \/ BadLine \/ UseNoContainer \/ ShowCommand \/ DeleteCommand
         \/ EraseIntMax \/ EndDelete \/ EmptyLine \/ EndOfCommands \/ UNCHANGED fileVars
  PROVE  FileInv'
<1> USE DEF FileInv, FileTypes, NoLeftover, Command
<1>1. CASE FileStart \/ BadLine \/ EraseIntMax \/ EndDelete \/ EndOfCommands
  BY <1>1, ContainerSame
     DEF FileStart, BadLine, EraseIntMax, EndDelete, EndOfCommands, RecordsOwned
<1>2. CASE UseNoContainer
  BY <1>2, ContainerSame DEF UseNoContainer
<1>3. CASE ShowCommand
  <2>1. /\ UNCHANGED containerVars /\ fd' = fd /\ last_word' = "show"
        /\ statistics' \in {"run", "thrown"} /\ statistics = "run"
    BY <1>3 DEF ShowCommand
  <2> QED
    BY <2>1, ContainerSame
<1>4. CASE DeleteCommand
  BY <1>4, ContainerSame DEF DeleteCommand
<1>5. CASE EmptyLine
  BY <1>5, ContainerSame DEF EmptyLine
<1>6. CASE UNCHANGED fileVars
  <2>1. UNCHANGED containerVars /\ UNCHANGED <<statistics, fd, last_word>>
    BY <1>6 DEF fileVars
  <2>2. statistics = "undefined" => fd # "live"
    BY DEF RecordsOwned
  <2> QED
    BY <2>1, <2>2, ContainerSame
<1> QED
  BY <1>1, <1>2, <1>3, <1>4, <1>5, <1>6

-----------------------------------------------------------------------------
(* FileData: the theorems.                                                 *)

\* The invariant is inductive.
THEOREM FileInvariant == FileSpec => []FileInv
<1>1. ASSUME FileInit
      PROVE  FileInv
  <2> USE <1>1, FileDataAssumption DEF FileInit
  <2>1. 0..(size - 1) = {} /\ 1..size = {}
    OBVIOUS
  <2>2. Owned = {} /\ Cardinality(Owned) = 0
    <3>1. Owned = {}
      BY <2>1 DEF Owned
    <3> QED
      BY <3>1, FS_EmptySet
  <2>3. FileTypes /\ NoLeftover
    BY DEF FileTypes, NoLeftover
  <2>4. RecordsCounted /\ Distinct /\ RecordsOwned
    BY <2>1, <2>2 DEF RecordsCounted, Distinct, RecordsOwned
  <2>5. ListFaithful
    BY <2>1 DEF ListFaithful
  <2> QED
    BY <2>3, <2>4, <2>5 DEF FileInv
<1>2. ASSUME FileInv, [FileNext]_fileVars
      PROVE  FileInv'
  BY <1>2, InitKeeps, CountKeeps, EraseKeeps, DestroyKeeps, OthersKeep DEF FileNext, FileStep
<1> QED
  BY <1>1, <1>2, PTL DEF FileSpec

\* Types are kept: no index leaves the array, and the list holds records only.
THEOREM FileTypeCorrect == FileSpec => []FileTypeOK
<1>1. ASSUME FileInv
      PROVE  FileTypeOK
  <2>1. 1..recordCtr \subseteq Record
    BY <1>1, Sizes DEF FileInv, Record
  <2> QED
    BY <1>1, <2>1, ListIs DEF FileInv, FileTypes, RecordsCounted, FileTypeOK
<1> QED
  BY <1>1, FileInvariant, PTL

\* No record is deleted twice or lost by erase, whatever the commands, until
\* the container is gone or the index overflows (fileData.cpp:18-91).
THEOREM RecordsOwnedHolds == FileSpec => []RecordsOwned
<1>1. FileInv => RecordsOwned
  BY DEF FileInv
<1> QED
  BY <1>1, FileInvariant, PTL

\* The array holds the records the user has not deleted, in order
\* (main.cpp:64-81).
THEOREM ListFaithfulHolds == FileSpec => []ListFaithful
<1>1. FileInv => ListFaithful
  BY DEF FileInv
<1> QED
  BY <1>1, FileInvariant, PTL

-----------------------------------------------------------------------------
(* ReverseCopy: the invariant.                                             *)

\* s is the end of the input backwards.
Backwards(s) == \A k \in 1..Len(s) : s[k] = fileLen + 1 - k

\* Nothing is written at first; in the first loop the counter is the length of
\* the output, in the second one it is one ahead.
Counted ==
  /\ reversal = "off" => outFile = <<>> /\ totalBytesRead = 0
  /\ reversal = "blocks" => Len(outFile) = totalBytesRead /\ totalBytesRead <= fileLen
  /\ reversal = "reopen" => Len(outFile) = fileLen
  /\ reversal = "bytes" => totalBytesRead = Len(outFile) + 1 /\ Len(outFile) <= fileLen
  /\ reversal = "identical" => Len(outFile) = fileLen

\* The first copy is remembered by its contents.
FirstCopy ==
  reversal = "bytes" => Len(blockMd5) = fileLen /\ Backwards(blockMd5)

ReverseInv ==
  /\ ReverseTypeOK
  /\ reversal # "different"
  /\ Counted
  /\ Backwards(outFile)
  /\ FirstCopy

-----------------------------------------------------------------------------
(* ReverseCopy: the steps.                                                 *)

\* The bytes of a stretch of the input.
LEMMA Stretch ==
  ASSUME fileLen \in 0..MaxReverseLen, NEW first \in Nat, NEW n \in Nat, first + n <= fileLen
  PROVE  /\ Len(Bytes(first, n)) = n
         /\ \A k \in 1..n : Bytes(first, n)[k] = first + k
         /\ Bytes(first, n) \in Seq(1..MaxReverseLen)
<1>1. MaxReverseLen \in Nat
  BY ReverseAssumption
<1>2. Bytes(first, n) = [k \in 1..n |-> first + k]
  BY DEF Bytes
<1>3. \A k \in 1..n : first + k \in 1..MaxReverseLen
  BY <1>1
<1>4. [k \in 1..n |-> first + k] \in Seq(1..MaxReverseLen)
  BY <1>3
<1> QED
  BY <1>2, <1>4

LEMMA StretchReversed ==
  ASSUME NEW S, NEW s \in Seq(S)
  PROVE  /\ Reversed(s) \in Seq(S) /\ Len(Reversed(s)) = Len(s)
         /\ \A k \in 1..Len(s) : Reversed(s)[k] = s[Len(s) + 1 - k]
<1>1. Len(s) \in Nat
  BY LenProperties
<1>2. \A k \in 1..Len(s) : Len(s) + 1 - k \in 1..Len(s)
  BY <1>1
<1>3. \A k \in 1..Len(s) : s[Len(s) + 1 - k] \in S
  BY <1>2, ElementOfSeq
<1>4. [k \in 1..Len(s) |-> s[Len(s) + 1 - k]] \in Seq(S)
  BY <1>1, <1>3
<1> QED
  BY <1>1, <1>4 DEF Reversed

\* The end of the input backwards goes on with the bytes before it.
LEMMA GoesOn ==
  ASSUME ReverseTypeOK, Backwards(outFile), fileLen' = fileLen,
         NEW b \in Seq(1..MaxReverseLen), outFile' = outFile \o b,
         \A k \in 1..Len(b) : b[k] = fileLen + 1 - (Len(outFile) + k)
  PROVE  /\ Backwards(outFile)' /\ outFile' \in Seq(1..MaxReverseLen)
         /\ Len(outFile') = Len(outFile) + Len(b)
<1> DEFINE m == Len(outFile)
           n == Len(b)
<1>1. outFile \in Seq(1..MaxReverseLen) /\ fileLen \in Nat
  BY ReverseAssumption DEF ReverseTypeOK
<1>2. /\ outFile' \in Seq(1..MaxReverseLen) /\ Len(outFile') = m + n
      /\ \A i \in 1..(m + n) : outFile'[i] = IF i <= m THEN outFile[i] ELSE b[i - m]
      /\ m \in Nat /\ n \in Nat
  BY <1>1, ConcatProperties, LenProperties
<1>3. ASSUME NEW i \in 1..(m + n)
      PROVE  outFile'[i] = fileLen + 1 - i
  <2>1. CASE i <= m
    <3>1. i \in 1..m
      BY <1>2, <2>1
    <3> QED
      BY <1>2, <2>1, <3>1 DEF Backwards
  <2>2. CASE ~(i <= m)
    <3>1. i - m \in 1..n /\ m + (i - m) = i
      BY <1>2, <2>2
    <3> QED
      BY <1>2, <2>2, <3>1
  <2> QED
    BY <2>1, <2>2
<1> QED
  BY <1>2, <1>3 DEF Backwards

LEMMA BlocksKeep ==
  ASSUME ReverseInv, copyBackwardsBuffer
  PROVE  ReverseInv'
<1> DEFINE t == totalBytesRead
           n == Len(Block)
<1>0. /\ ReverseTypeOK /\ reversal = "blocks" /\ Len(outFile) = t /\ t <= fileLen
      /\ UNCHANGED <<fileLen, blockMd5>>
      /\ fileLen \in 0..MaxReverseLen /\ t \in Nat /\ fileLen \in Nat
      /\ MaxReverseLen \in Nat /\ ReverseBlock \in Nat \ {0}
      /\ outFile' = outFile \o Reversed(Block) /\ totalBytesRead' = t + n
  BY ReverseAssumption DEF ReverseInv, Counted, ReverseTypeOK, copyBackwardsBuffer
<1>1. PICK first \in Nat, len \in Nat :
        /\ Block = Bytes(first, len) /\ first + len = fileLen - t
        /\ t + ReverseBlock < fileLen => len = ReverseBlock
        /\ ~(t + ReverseBlock < fileLen) => first = 0
  <2>1. CASE t + ReverseBlock < fileLen
    <3>1. fileLen - (t + ReverseBlock) \in Nat
      BY <1>0, <2>1
    <3> QED
      BY <1>0, <2>1, <3>1 DEF Block
  <2>2. CASE ~(t + ReverseBlock < fileLen)
    <3>1. fileLen - t \in Nat
      BY <1>0
    <3> QED
      BY <1>0, <2>2, <3>1 DEF Block
  <2> QED
    BY <2>1, <2>2
<1>2. first + len <= fileLen
  BY <1>0, <1>1
<1>3. /\ n = len /\ Block \in Seq(1..MaxReverseLen)
      /\ \A k \in 1..len : Block[k] = first + k
  <2>1. fileLen \in 0..MaxReverseLen
    BY <1>0
  <2>2. /\ Len(Bytes(first, len)) = len
        /\ \A k \in 1..len : Bytes(first, len)[k] = first + k
        /\ Bytes(first, len) \in Seq(1..MaxReverseLen)
    BY <1>2, <2>1, Stretch
  <2> QED
    BY <1>1, <2>2
<1>4. /\ Reversed(Block) \in Seq(1..MaxReverseLen) /\ Len(Reversed(Block)) = len
      /\ \A k \in 1..len : Reversed(Block)[k] = Block[len + 1 - k]
  BY <1>3, StretchReversed
<1>5. \A k \in 1..len : Reversed(Block)[k] = fileLen + 1 - (t + k)
  <2> TAKE k \in 1..len
  <2>1. len + 1 - k \in 1..len
    BY <1>1
  <2>2. Reversed(Block)[k] = first + (len + 1 - k)
    BY <1>3, <1>4, <2>1
  <2> QED
    BY <1>0, <1>1, <2>2
<1>6. /\ Backwards(outFile)' /\ outFile' \in Seq(1..MaxReverseLen)
      /\ Len(outFile') = t + len
  BY <1>0, <1>4, <1>5, GoesOn DEF ReverseInv
<1>7. reversal' = IF t + ReverseBlock < fileLen THEN "blocks" ELSE "reopen"
  BY DEF copyBackwardsBuffer
<1>8. t + len <= fileLen /\ (reversal' = "reopen" => t + len = fileLen)
  BY <1>0, <1>1, <1>7
<1>9. ReverseTypeOK'
  BY <1>0, <1>3, <1>6, <1>7, <1>8, <1>1 DEF ReverseTypeOK
<1>10. Counted'
  BY <1>0, <1>3, <1>6, <1>7, <1>8 DEF Counted
<1> QED
  BY <1>6, <1>7, <1>9, <1>10 DEF ReverseInv, FirstCopy

LEMMA BytesKeep ==
  ASSUME ReverseInv, copyBackwardsByteByByte
  PROVE  ReverseInv'
<1> DEFINE t == totalBytesRead
           b == Bytes(fileLen - t, 1)
<1>0. /\ ReverseTypeOK /\ reversal = "bytes" /\ t = Len(outFile) + 1 /\ t <= fileLen
      /\ UNCHANGED <<reversal, fileLen, blockMd5>>
      /\ fileLen \in 0..MaxReverseLen /\ t \in Nat /\ fileLen \in Nat
      /\ MaxReverseLen \in Nat
      /\ outFile' = outFile \o b /\ totalBytesRead' = t + 1
      /\ Len(outFile) \in Nat
  BY ReverseAssumption, LenProperties
     DEF ReverseInv, Counted, ReverseTypeOK, copyBackwardsByteByByte
<1>1. fileLen - t \in Nat /\ (fileLen - t) + 1 <= fileLen
  BY <1>0
<1>2. /\ Len(b) = 1 /\ b \in Seq(1..MaxReverseLen)
      /\ \A k \in 1..1 : b[k] = (fileLen - t) + k
  BY <1>0, <1>1, Stretch
<1> HIDE DEF b
<1>3. \A k \in 1..Len(b) : b[k] = fileLen + 1 - (Len(outFile) + k)
  BY <1>0, <1>2
<1>4. /\ Backwards(outFile)' /\ outFile' \in Seq(1..MaxReverseLen)
      /\ Len(outFile') = Len(outFile) + 1
  BY <1>0, <1>2, <1>3, GoesOn DEF ReverseInv
<1>5. ReverseTypeOK'
  BY <1>0, <1>4 DEF ReverseTypeOK
<1>6. Counted'
  BY <1>0, <1>4 DEF Counted
<1>7. FirstCopy'
  BY <1>0 DEF ReverseInv, FirstCopy, Backwards
<1> QED
  BY <1>0, <1>4, <1>5, <1>6, <1>7 DEF ReverseInv

\* The two copies are the same.
LEMMA VerdictKeeps ==
  ASSUME ReverseInv, Verdict
  PROVE  ReverseInv'
<1>0. /\ ReverseTypeOK /\ UNCHANGED <<fileLen, totalBytesRead, outFile, blockMd5>>
      /\ fileLen \in Nat /\ Len(outFile) \in Nat
      /\ outFile \in Seq(1..MaxReverseLen) /\ blockMd5 \in Seq(1..MaxReverseLen)
  BY ReverseAssumption, LenProperties DEF ReverseInv, ReverseTypeOK, Verdict
<1>1. /\ Len(outFile) = fileLen /\ Backwards(outFile)
      /\ Len(blockMd5) = fileLen /\ Backwards(blockMd5)
  BY <1>0 DEF ReverseInv, Counted, FirstCopy, Verdict, ReverseTypeOK
<1>2. blockMd5 = outFile
  BY <1>0, <1>1, SeqEqual DEF Backwards
<1>3. reversal' = "identical"
  BY <1>2 DEF Verdict
<1> QED
  BY <1>0, <1>1, <1>3 DEF ReverseInv, ReverseTypeOK, Counted, FirstCopy, Backwards

-----------------------------------------------------------------------------
(* ReverseCopy: the properties.                                            *)

\* The invariant is inductive.
THEOREM ReverseInvariant == ReverseSpec => []ReverseInv
<1>0. MaxReverseLen \in Nat
  BY ReverseAssumption
<1>1. ASSUME ReverseInit
      PROVE  ReverseInv
  <2>1. <<>> \in Seq(1..MaxReverseLen) /\ Len(<<>>) = 0
    OBVIOUS
  <2> QED
    BY <1>0, <1>1, <2>1
       DEF ReverseInit, ReverseInv, ReverseTypeOK, Counted, Backwards, FirstCopy
<1>2. ASSUME ReverseInv, [ReverseNext]_reverseVars
      PROVE  ReverseInv'
  <2>1. CASE UNCHANGED reverseVars
    BY <1>2, <2>1
       DEF reverseVars, ReverseInv, ReverseTypeOK, Counted, Backwards, FirstCopy
  <2>2. CASE ReverseStart
    <3>1. /\ outFile = <<>> /\ outFile' = <<>> /\ totalBytesRead' = 0
          /\ reversal' = "blocks" /\ fileLen' \in 0..MaxReverseLen /\ blockMd5' = blockMd5
          /\ ReverseTypeOK
      BY <1>2, <2>2 DEF ReverseInv, Counted, ReverseStart
    <3>2. Len(outFile') = 0 /\ fileLen' \in Nat
      BY <3>1, <1>0
    <3> QED
      BY <1>0, <3>1, <3>2 DEF ReverseInv, ReverseTypeOK, Counted, Backwards, FirstCopy
  <2>3. CASE Reopen
    <3>1. /\ reversal = "reopen" /\ reversal' = "bytes" /\ blockMd5' = outFile /\ outFile' = <<>>
          /\ totalBytesRead' = 1 /\ fileLen' = fileLen
          /\ ReverseTypeOK /\ Backwards(outFile) /\ Len(outFile) = fileLen
      BY <1>2, <2>3 DEF ReverseInv, Counted, Reopen
    <3>2. Len(outFile') = 0 /\ fileLen \in Nat /\ outFile' \in Seq(1..MaxReverseLen)
      BY <1>0, <3>1 DEF ReverseTypeOK
    <3> QED
      BY <1>0, <3>1, <3>2 DEF ReverseInv, ReverseTypeOK, Counted, Backwards, FirstCopy
  <2> QED
    BY <1>2, <2>1, <2>2, <2>3, BlocksKeep, BytesKeep, VerdictKeeps DEF ReverseNext, ReverseStep
<1> QED
  BY <1>1, <1>2, PTL DEF ReverseSpec

\* Types are kept; nothing beyond the input is read or written.
THEOREM ReverseTypeCorrect == ReverseSpec => []ReverseTypeOK
<1>1. ReverseInv => ReverseTypeOK
  BY DEF ReverseInv
<1> QED
  BY <1>1, ReverseInvariant, PTL

\* For every block size and every length of the input both loops write the
\* whole input backwards, and are never found different (main.cpp:26-69,
\* 106-129).
THEOREM EndReversedHolds == ReverseSpec => []EndReversed
<1>1. ReverseInv => EndReversed
  BY DEF ReverseInv, Counted, Backwards, EndReversed
<1> QED
  BY <1>1, ReverseInvariant, PTL

-----------------------------------------------------------------------------
(* ReplaceCopy: the invariant.                                             *)

ReplacedByte(b) == IF b = "old" THEN "new" ELSE b

\* What has been written so far, wherever it is.
Output == outOnDisk \o streamBuff

\* The output is what the first copy has read, which is everything once its
\* loop has ended.
Transferred ==
  /\ Len(Output) = IF replacement \in {"off", "streams"} THEN position ELSE Len(inFile)
  /\ \A k \in 1..Len(Output) : Output[k] = ReplacedByte(inFile[k])

ReplaceInv ==
  /\ ReplaceTypeOK
  /\ Transferred
  /\ replacement = "off" => position = 0
  /\ replacement = "returned" => streamBuff = <<>>

-----------------------------------------------------------------------------
(* ReplaceCopy: the steps.                                                 *)

LEMMA ReplaceTypes ==
  ASSUME ReplaceTypeOK
  PROVE  /\ inFile \in Seq(Byte) /\ streamBuff \in Seq(Byte)
         /\ outOnDisk \in Seq(Byte) /\ streamMd5 \in Seq(Byte)
         /\ Len(inFile) \in Nat /\ Len(streamBuff) \in Nat /\ Len(outOnDisk) \in Nat
         /\ position \in Nat /\ position <= Len(inFile)
         /\ ReplaceBlock \in Nat \ {0} /\ MaxReplaceLen \in Nat
<1>1. /\ inFile \in Seq(Byte) /\ streamBuff \in Seq(Byte)
      /\ outOnDisk \in Seq(Byte) /\ streamMd5 \in Seq(Byte)
      /\ position \in 0..Len(inFile)
  BY DEF ReplaceTypeOK
<1>2. Len(inFile) \in Nat /\ Len(streamBuff) \in Nat /\ Len(outOnDisk) \in Nat
  BY <1>1, LenProperties
<1>3. position \in Nat /\ position <= Len(inFile)
  BY <1>1, <1>2
<1> QED
  BY <1>1, <1>2, <1>3, ReplaceAssumption

LEMMA ReplacedElements ==
  ASSUME NEW s \in Seq(Byte)
  PROVE  /\ ReplacedAll(s) \in Seq(Byte) /\ Len(ReplacedAll(s)) = Len(s)
         /\ \A k \in 1..Len(s) : ReplacedAll(s)[k] = ReplacedByte(s[k])
<1>1. Len(s) \in Nat /\ DOMAIN s = 1..Len(s)
  BY LenProperties
<1>2. ReplacedAll(s) = [k \in 1..Len(s) |-> ReplacedByte(s[k])]
  BY <1>1 DEF ReplacedAll, ReplacedByte
<1>3. \A k \in 1..Len(s) : s[k] \in Byte
  BY ElementOfSeq
<1>4. \A k \in 1..Len(s) : ReplacedByte(s[k]) \in Byte
  BY <1>3 DEF Byte, ReplacedByte
<1>5. [k \in 1..Len(s) |-> ReplacedByte(s[k])] \in Seq(Byte)
  BY <1>1, <1>4
<1> QED
  BY <1>1, <1>2, <1>5

\* A stretch of the input, from position p on.
LEMMA InputStretch ==
  ASSUME ReplaceTypeOK, NEW p \in Nat, NEW q \in Nat, p <= q, q <= Len(inFile)
  PROVE  /\ SubSeq(inFile, p + 1, q) \in Seq(Byte)
         /\ Len(SubSeq(inFile, p + 1, q)) = q - p
         /\ \A k \in 1..(q - p) : SubSeq(inFile, p + 1, q)[k] = inFile[p + k]
<1>1. inFile \in Seq(Byte) /\ Len(inFile) \in Nat
  BY LenProperties DEF ReplaceTypeOK
<1>2. \A i \in (p + 1)..q : inFile[i] \in Byte
  <2>1. \A i \in (p + 1)..q : i \in 1..Len(inFile)
    BY <1>1
  <2> QED
    BY <1>1, <2>1, ElementOfSeq
<1>3. /\ SubSeq(inFile, p + 1, q) \in Seq(Byte)
      /\ Len(SubSeq(inFile, p + 1, q)) = IF p + 1 <= q THEN q - (p + 1) + 1 ELSE 0
      /\ \A i \in 1..(q - (p + 1) + 1) : SubSeq(inFile, p + 1, q)[i] = inFile[(p + 1) + i - 1]
  BY <1>2, SubSeqProperties
<1>4. \A k \in 1..(q - p) : (p + 1) + k - 1 = p + k
  OBVIOUS
<1>5. q - (p + 1) + 1 = q - p /\ (~(p + 1 <= q) => q - p = 0)
  OBVIOUS
<1> QED
  BY <1>3, <1>4, <1>5

\* What the next read of the first copy finds.
LEMMA NextBlockElements ==
  ASSUME ReplaceTypeOK, copyByStreams
  PROVE  /\ NextBlock \in Seq(Byte) /\ position \in Nat /\ position' \in position..Len(inFile)
         /\ Len(NextBlock) = position' - position
         /\ \A k \in 1..(position' - position) : NextBlock[k] = ReplacedByte(inFile[position + k])
<1>1. /\ ReplaceBlock \in Nat \ {0} /\ Len(inFile) \in Nat
      /\ position \in Nat /\ position <= Len(inFile)
  BY ReplaceTypes
<1>2. position' = IF position + ReplaceBlock <= Len(inFile)
                  THEN position + ReplaceBlock ELSE Len(inFile)
  BY DEF copyByStreams
<1>3. position' \in Nat /\ position <= position' /\ position' <= Len(inFile)
  BY <1>1, <1>2
<1> DEFINE s == SubSeq(inFile, position + 1, position')
<1>4. NextBlock = ReplacedAll(s)
  BY <1>2 DEF NextBlock
<1>5. /\ s \in Seq(Byte) /\ Len(s) = position' - position
      /\ \A k \in 1..(position' - position) : s[k] = inFile[position + k]
  BY <1>1, <1>3, InputStretch
<1> HIDE DEF s
<1>6. /\ NextBlock \in Seq(Byte) /\ Len(NextBlock) = position' - position
      /\ \A k \in 1..Len(s) : NextBlock[k] = ReplacedByte(s[k])
  BY <1>4, <1>5, ReplacedElements
<1>7. \A k \in 1..(position' - position) : NextBlock[k] = ReplacedByte(inFile[position + k])
  <2>1. 1..Len(s) = 1..(position' - position)
    BY <1>5
  <2> QED
    BY <1>5, <1>6, <2>1
<1>8. position' \in position..Len(inFile)
  BY <1>1, <1>3
<1> QED
  BY <1>1, <1>6, <1>7, <1>8

\* Three stretches of bytes are joined in any order.
LEMMA BytesAssociate ==
  \A x, y, z \in Seq(Byte) : (x \o y) \o z = x \o (y \o z)
BY ConcatAssociative

\* A copy of the first p bytes goes on with one of the bytes up to q.
LEMMA CopyGoesOn ==
  ASSUME NEW o \in Seq(Byte), NEW b \in Seq(Byte), NEW p \in Nat, NEW q \in Nat, p <= q,
         Len(o) = p, Len(b) = q - p,
         \A i \in 1..p : o[i] = ReplacedByte(inFile[i]),
         \A i \in 1..(q - p) : b[i] = ReplacedByte(inFile[p + i])
  PROVE  /\ o \o b \in Seq(Byte) /\ Len(o \o b) = q
         /\ \A i \in 1..q : (o \o b)[i] = ReplacedByte(inFile[i])
<1>1. /\ o \o b \in Seq(Byte) /\ Len(o \o b) = q
      /\ \A i \in 1..q : (o \o b)[i] = IF i <= p THEN o[i] ELSE b[i - p]
  <2>1. p + (q - p) = q
    OBVIOUS
  <2>2. /\ o \o b \in Seq(Byte) /\ Len(o \o b) = Len(o) + Len(b)
        /\ \A i \in 1..(Len(o) + Len(b)) :
             (o \o b)[i] = IF i <= Len(o) THEN o[i] ELSE b[i - Len(o)]
    BY ConcatProperties
  <2>3. Len(o) + Len(b) = q
    BY <2>1
  <2> QED
    BY <2>2, <2>3
<1>2. ASSUME NEW i \in 1..q
      PROVE  (o \o b)[i] = ReplacedByte(inFile[i])
  <2>1. CASE i <= p
    <3>1. i \in 1..p /\ (o \o b)[i] = o[i]
      BY <1>1, <2>1
    <3> QED
      BY <3>1
  <2>2. CASE ~(i <= p)
    <3>1. i - p \in 1..(q - p) /\ p + (i - p) = i
      BY <2>2
    <3>2. (o \o b)[i] = b[i - p]
      BY <1>1, <2>2
    <3> QED
      BY <3>1, <3>2
  <2> QED
    BY <2>1, <2>2
<1> QED
  BY <1>1, <1>2

LEMMA StreamsKeep ==
  ASSUME ReplaceInv, copyByStreams
  PROVE  ReplaceInv'
<1>0. /\ ReplaceTypeOK /\ replacement = "streams" /\ UNCHANGED <<inFile, streamMd5>>
      /\ outOnDisk \in Seq(Byte) /\ streamBuff \in Seq(Byte) /\ streamMd5 \in Seq(Byte)
      /\ Len(inFile) \in Nat
      /\ Len(Output) = position
      /\ \A k \in 1..position : Output[k] = ReplacedByte(inFile[k])
  BY ReplaceTypes DEF ReplaceInv, Transferred, copyByStreams
<1>n. /\ NextBlock \in Seq(Byte) /\ position \in Nat /\ position' \in position..Len(inFile)
      /\ Len(NextBlock) = position' - position
      /\ \A k \in 1..(position' - position) : NextBlock[k] = ReplacedByte(inFile[position + k])
  BY <1>0, NextBlockElements
<1>p. PICK p \in Nat : p = position
  BY <1>n
<1>q. PICK q \in Nat : q = position' /\ p <= q /\ q <= Len(inFile)
  BY <1>0, <1>n, <1>p
<1>b. PICK b \in Seq(Byte) : b = NextBlock
  BY <1>n
<1>3. Output \in Seq(Byte) /\ <<>> \in Seq(Byte)
  BY <1>0, ConcatProperties DEF Output
<1>o. PICK o \in Seq(Byte) : o = Output
  BY <1>3
<1>4. /\ \/ replacement' = "streams"
         \/ replacement' = "md5" /\ q = Len(inFile)
      /\ \/ streamBuff' = streamBuff \o b /\ UNCHANGED outOnDisk
         \/ outOnDisk' = (outOnDisk \o streamBuff) \o b /\ streamBuff' = <<>>
  BY <1>0, <1>q, <1>b DEF copyByStreams
<1>5. /\ Output \o b \in Seq(Byte) /\ Len(Output \o b) = q
      /\ \A k \in 1..q : (Output \o b)[k] = ReplacedByte(inFile[k])
  <2>1. Len(o) = p /\ \A k \in 1..p : o[k] = ReplacedByte(inFile[k])
    BY <1>0, <1>p, <1>o
  <2>2. Len(b) = q - p /\ \A k \in 1..(q - p) : b[k] = ReplacedByte(inFile[p + k])
    BY <1>n, <1>p, <1>q, <1>b
  <2>3. /\ o \o b \in Seq(Byte) /\ Len(o \o b) = q
        /\ \A k \in 1..q : (o \o b)[k] = ReplacedByte(inFile[k])
    <3>1. p \in Nat /\ p <= q
      BY <1>p, <1>q
    <3> QED
      BY <2>1, <2>2, <3>1, CopyGoesOn
  <2> QED
    BY <1>o, <2>3
<1>6. /\ Output' = Output \o b
      /\ outOnDisk' \in Seq(Byte) /\ streamBuff' \in Seq(Byte)
  <2>1. CASE streamBuff' = streamBuff \o b /\ UNCHANGED outOnDisk
    <3>1. streamBuff \o b \in Seq(Byte)
      BY <1>0, ConcatProperties
    <3>2. (outOnDisk \o streamBuff) \o b = outOnDisk \o (streamBuff \o b)
      <4>1. outOnDisk \in Seq(Byte) /\ streamBuff \in Seq(Byte) /\ b \in Seq(Byte)
        BY <1>0
      <4> QED
        BY <4>1, BytesAssociate
    <3> QED
      BY <1>0, <2>1, <3>1, <3>2 DEF Output
  <2>2. CASE outOnDisk' = (outOnDisk \o streamBuff) \o b /\ streamBuff' = <<>>
    <3>1. outOnDisk' = Output \o b
      BY <2>2 DEF Output
    <3>2. (Output \o b) \o <<>> = Output \o b
      BY <1>5, ConcatEmptySeq
    <3> QED
      BY <1>3, <1>5, <2>2, <3>1, <3>2 DEF Output
  <2> QED
    BY <1>4, <2>1, <2>2
<1>7. Transferred'
  <2>1. q = IF replacement' \in {"off", "streams"} THEN position' ELSE Len(inFile')
    BY <1>0, <1>4, <1>q
  <2>2. inFile' = inFile
    BY <1>0
  <2>3. /\ Len(Output') = q
        /\ \A k \in 1..Len(Output') : Output'[k] = ReplacedByte(inFile'[k])
    BY <1>5, <1>6, <2>2
  <2> QED
    BY <2>1, <2>3 DEF Transferred
<1>8. ReplaceTypeOK'
  <2>1. position' \in 0..Len(inFile')
    BY <1>0, <1>q
  <2>2. /\ inFile' \in Seq(Byte) /\ Len(inFile') <= MaxReplaceLen /\ streamMd5' \in Seq(Byte)
    BY <1>0 DEF ReplaceTypeOK
  <2> QED
    BY <1>4, <1>6, <2>1, <2>2 DEF ReplaceTypeOK
<1> QED
  BY <1>4, <1>7, <1>8 DEF ReplaceInv

\* From then on the output stays what it is, until it is all in the file.
LEMMA AfterStreamsKeep ==
  ASSUME ReplaceInv, FirstMd5 \/ copyBySystemCalls \/ CompareMd5 \/ ReturnFromMain
  PROVE  ReplaceInv'
<1>0. /\ ReplaceTypeOK
      /\ outOnDisk \in Seq(Byte) /\ streamBuff \in Seq(Byte) /\ streamMd5 \in Seq(Byte)
      /\ Len(inFile) \in Nat /\ ReplaceBlock \in Nat /\ position \in Nat
      /\ <<>> \in Seq(Byte) /\ inFile' = inFile
  BY ReplaceTypes, EmptySeq
     DEF ReplaceInv, FirstMd5, copyBySystemCalls, CompareMd5, ReturnFromMain
<1>1. /\ replacement \in {"md5", "system calls", "compare", "same", "not the same"}
      /\ replacement' \in {"system calls", "compare", "same", "not the same", "returned"}
  BY DEF FirstMd5, copyBySystemCalls, CompareMd5, ReturnFromMain
<1>2. /\ Output' = Output
      /\ outOnDisk' \in Seq(Byte) /\ streamBuff' \in Seq(Byte)
      /\ replacement' = "returned" => streamBuff' = <<>>
  <2>1. CASE UNCHANGED <<streamBuff, outOnDisk>> /\ replacement' # "returned"
    BY <1>0, <2>1 DEF Output
  <2>2. CASE outOnDisk' = outOnDisk \o streamBuff /\ streamBuff' = <<>>
    <3>1. outOnDisk \o streamBuff \in Seq(Byte)
      BY <1>0, ConcatProperties
    <3>2. (outOnDisk \o streamBuff) \o <<>> = outOnDisk \o streamBuff
      BY <3>1, ConcatEmptySeq
    <3> QED
      BY <1>0, <2>2, <3>1, <3>2 DEF Output
  <2> QED
    BY <2>1, <2>2 DEF FirstMd5, copyBySystemCalls, CompareMd5, ReturnFromMain
<1>3. streamMd5' \in Seq(Byte) /\ position' \in 0..Len(inFile)
  <2>1. CASE FirstMd5
    <3>1. streamMd5' = outOnDisk /\ position' = 0
      BY <2>1 DEF FirstMd5
    <3>2. 0 \in 0..Len(inFile)
      BY <1>0
    <3> QED
      BY <1>0, <3>1, <3>2
  <2>2. CASE copyBySystemCalls
    <3>1. streamMd5' = streamMd5
      BY <2>2 DEF copyBySystemCalls
    <3>2. position' \in {position, position + ReplaceBlock, Len(inFile)}
          /\ (position' = position + ReplaceBlock => position + ReplaceBlock <= Len(inFile)
                                                      \/ position' = Len(inFile))
      BY <2>2 DEF copyBySystemCalls
    <3>3. position <= Len(inFile)
      BY <1>0, ReplaceTypes
    <3> QED
      BY <1>0, <3>1, <3>2, <3>3
  <2>3. CASE CompareMd5 \/ ReturnFromMain
    <3>1. position <= Len(inFile) /\ streamMd5' = streamMd5 /\ position' = position
      BY <1>0, <2>3, ReplaceTypes DEF CompareMd5, ReturnFromMain
    <3> QED
      BY <1>0, <3>1
  <2> QED
    BY <2>1, <2>2, <2>3
<1>4. ReplaceTypeOK'
  BY <1>0, <1>1, <1>2, <1>3 DEF ReplaceTypeOK
<1>5. Transferred'
  BY <1>0, <1>1, <1>2 DEF ReplaceInv, Transferred
<1> QED
  BY <1>1, <1>2, <1>4, <1>5 DEF ReplaceInv

LEMMA ReplaceStartKeeps ==
  ASSUME ReplaceInv, ReplaceStart
  PROVE  ReplaceInv'
<1>0. /\ ReplaceTypeOK /\ position = 0 /\ Len(Output) = 0
      /\ UNCHANGED <<position, streamBuff, outOnDisk, streamMd5>>
      /\ replacement' = "streams"
  BY DEF ReplaceInv, Transferred, ReplaceStart
<1>1. PICK n \in 0..MaxReplaceLen : inFile' \in [1..n -> Byte]
  BY DEF ReplaceStart
<1>2. inFile' \in Seq(Byte) /\ Len(inFile') = n /\ n \in Nat /\ n <= MaxReplaceLen
  <2>1. n \in Nat /\ n <= MaxReplaceLen
    BY <1>0, ReplaceTypes
  <2> QED
    BY <1>1, <2>1
<1>3. ReplaceTypeOK'
  <2>1. position' \in 0..Len(inFile') /\ replacement' = "streams"
    BY <1>0, <1>2
  <2>2. streamBuff' \in Seq(Byte) /\ outOnDisk' \in Seq(Byte) /\ streamMd5' \in Seq(Byte)
    BY <1>0, ReplaceTypes
  <2>3. inFile' \in Seq(Byte) /\ Len(inFile') <= MaxReplaceLen
    BY <1>2
  <2> QED
    BY <2>1, <2>2, <2>3 DEF ReplaceTypeOK
<1>4. Transferred'
  BY <1>0 DEF Transferred, Output
<1> QED
  BY <1>0, <1>3, <1>4 DEF ReplaceInv

-----------------------------------------------------------------------------
(* ReplaceCopy: the properties.                                            *)

\* The invariant is inductive.
THEOREM ReplaceInvariant == ReplaceSpec => []ReplaceInv
<1>1. ASSUME ReplaceInit
      PROVE  ReplaceInv
  <2>1. <<>> \in Seq(Byte) /\ Len(<<>>) = 0 /\ Output = <<>>
    BY <1>1, ConcatEmptySeq, EmptySeq DEF ReplaceInit, Output
  <2> QED
    BY <1>1, <2>1, ReplaceAssumption DEF ReplaceInit, ReplaceInv, ReplaceTypeOK, Transferred
<1>2. ASSUME ReplaceInv, [ReplaceNext]_replaceVars
      PROVE  ReplaceInv'
  <2>1. CASE UNCHANGED replaceVars
    BY <1>2, <2>1 DEF replaceVars, ReplaceInv, ReplaceTypeOK, Transferred, Output
  <2> QED
    BY <1>2, <2>1, ReplaceStartKeeps, StreamsKeep, AfterStreamsKeep DEF ReplaceNext, ReplaceStep
<1> QED
  BY <1>1, <1>2, PTL DEF ReplaceSpec

\* Types are kept; no byte is read from behind the end of the input.
THEOREM ReplaceTypeCorrect == ReplaceSpec => []ReplaceTypeOK
<1>1. ReplaceInv => ReplaceTypeOK
  BY DEF ReplaceInv
<1> QED
  BY <1>1, ReplaceInvariant, PTL

\* For every block size and every input, whenever the stream writes its buffer
\* out: what is in the file in the end is the input with its bytes replaced
\* (main.cpp:30-56, 97-119).
THEOREM CopiedInTheEndHolds == ReplaceSpec => []CopiedInTheEnd
<1>1. ASSUME ReplaceInv
      PROVE  CopiedInTheEnd
  <2> DEFINE n == Len(outOnDisk) + Len(streamBuff)
  <2>0. /\ ReplaceTypeOK /\ outOnDisk \in Seq(Byte) /\ streamBuff \in Seq(Byte)
        /\ Len(inFile) \in Nat /\ position \in Nat /\ position <= Len(inFile)
    BY <1>1, ReplaceTypes DEF ReplaceInv
  <2>1. Output \in Seq(Byte) /\ Len(Output) = n /\ n \in Nat
    BY <2>0, ConcatProperties, LenProperties DEF Output
  <2>2. n <= Len(inFile)
    BY <1>1, <2>0, <2>1 DEF ReplaceInv, Transferred
  <2> DEFINE s == SubSeq(inFile, 1, n)
  <2>3. s \in Seq(Byte) /\ Len(s) = n /\ \A k \in 1..n : s[k] = inFile[k]
    <3>1. /\ SubSeq(inFile, 0 + 1, n) \in Seq(Byte) /\ Len(SubSeq(inFile, 0 + 1, n)) = n - 0
          /\ \A k \in 1..(n - 0) : SubSeq(inFile, 0 + 1, n)[k] = inFile[0 + k]
      <4>1. n \in Nat /\ 0 \in Nat /\ 0 <= n /\ n <= Len(inFile) /\ ReplaceTypeOK
        BY <2>0, <2>1, <2>2
      <4> HIDE DEF n
      <4> QED
        BY <4>1, InputStretch
    <3>2. n - 0 = n /\ 0 + 1 = 1 /\ \A k \in 1..n : 0 + k = k
      BY <2>1
    <3> QED
      BY <3>1, <3>2
  <2> HIDE DEF s
  <2>4. /\ ReplacedAll(s) \in Seq(Byte) /\ Len(ReplacedAll(s)) = n
        /\ \A k \in 1..n : ReplacedAll(s)[k] = ReplacedByte(inFile[k])
    BY <2>3, ReplacedElements
  <2>5. \A k \in 1..n : Output[k] = ReplacedByte(inFile[k])
    BY <1>1, <2>1 DEF ReplaceInv, Transferred
  <2>6. Output = ReplacedAll(s)
    BY <2>1, <2>4, <2>5, SeqEqual
  <2>7. ASSUME replacement = "returned"
        PROVE  Len(outOnDisk) = Len(inFile)
    <3>1. Len(streamBuff) = 0 /\ n = Len(inFile) /\ Len(outOnDisk) \in Nat
      BY <1>1, <2>0, <2>1, <2>7, LenProperties DEF ReplaceInv, Transferred
    <3> QED
      BY <3>1
  <2> QED
    BY <2>2, <2>6, <2>7 DEF CopiedInTheEnd, Output, s
<1> QED
  BY <1>1, ReplaceInvariant, PTL
=============================================================================
