------------------------------ MODULE FileData ------------------------------
(***************************************************************************)
(* The file statistics of cw01: a container of pointers to records, and    *)
(* the program that reads one command per line and applies it to the       *)
(* container.  A record is a number and stands for one call of wc.         *)
(*                                                                         *)
(* An exception ends the program.  destroy deletes the container and keeps *)
(* the pointer; to use it afterwards, or before the first init, is         *)
(* undefined.  An empty line leaves the word before in place: it is taken  *)
(* for that command, and then the length of the line, less one, throws.    *)
(* To delete the largest int is undefined as well, container or not: the   *)
(* end of the range to erase overflows.                                    *)
(***************************************************************************)
EXTENDS Integers, Sequences, FiniteSets

CONSTANTS
  MaxSize,     \* the bound on the size of a container
  MaxRecords   \* the bound on the records counted

ASSUME FileDataAssumption == MaxSize \in Nat /\ MaxRecords \in Nat

VARIABLES
  statistics,    \* what the program is about to do
  fd,            \* "null", "live", or "dangling" after destroy
  last_word,     \* the word read last, where it is a command, or "none"
  maxSize,
  size,
  dataPointers,  \* the array; 0 where nothing was ever written
  heap,          \* the records allocated and not deleted
  dropped,       \* history: those of containers that init has replaced
  recordCtr,     \* history: how many there have been
  listing        \* history: the records the user expects, in order

containerVars == <<maxSize, size, dataPointers, heap, dropped, recordCtr, listing>>
fileVars == <<statistics, fd, last_word, containerVars>>

Index == 0..(MaxSize - 1)

FileInit ==
  /\ statistics = "off"
  /\ fd = "null"
  /\ last_word = "none"
  /\ maxSize = 0 /\ size = 0
  /\ dataPointers = [i \in Index |-> 0]
  /\ heap = {} /\ dropped = {}
  /\ recordCtr = 0
  /\ listing = <<>>

FileStart ==
  /\ statistics = "off"
  /\ statistics' = "run"
  /\ UNCHANGED <<fd, last_word, containerVars>>

-----------------------------------------------------------------------------
(* The container.                                                          *)

\* The records it has to delete.
Owned == {dataPointers[i] : i \in 0..(size - 1)}

\* Mutant: one record more than the array holds.
FullLate == size > maxSize

Full == size >= maxSize

\* Mutant: an index is checked against the length of the array.
OutOfArray(index) == index < 0 \/ index >= maxSize

\* The error of erase and of the index operator.
OutOfRange(index) == index < 0 \/ index >= size

\* Mutant: the record after the erased one is forgotten.
MovedShort(index) ==
  [i \in Index |-> dataPointers[IF i \in (index + 1)..(size - 2) THEN i + 1 ELSE i]]

\* The pointers after index move down by one.
Moved(index) ==
  [i \in Index |-> dataPointers[IF i \in index..(size - 2) THEN i + 1 ELSE i]]

\* What the user expects of the list s when its nth record is deleted.
RemoveNth(s, n) == [i \in 1..(Len(s) - 1) |-> s[IF i < n THEN i ELSE i + 1]]

-----------------------------------------------------------------------------
(* The commands.  A word too many throws when the command is done.         *)

Command(word) == statistics = "run" /\ last_word' = word

\* A line that throws before anything is done: an unknown command, a missing or
\* negative number, a file that cannot be read.
BadLine ==
  /\ statistics = "run"
  /\ statistics' = "thrown"
  /\ UNCHANGED <<fd, last_word, containerVars>>

\* init deletes nothing: the container before is dropped.
InitCommand ==
  /\ Command("init")
  /\ statistics' \in {"run", "thrown"}
  /\ fd' = "live"
  /\ maxSize' \in 0..MaxSize
  /\ size' = 0
  /\ dataPointers' = [i \in Index |-> 0]
  /\ dropped' = dropped \cup (IF fd = "live" THEN Owned ELSE {})
  /\ listing' = <<>>
  /\ UNCHANGED <<heap, recordCtr>>

\* count, show, and delete with an index, on no container.
UseNoContainer ==
  /\ statistics \in {"run", "delete"}
  /\ fd # "live"
  /\ statistics' = "undefined"
  /\ UNCHANGED <<fd, last_word, containerVars>>

\* The record is allocated before there is known to be room for it.
CountCommand ==
  /\ Command("count")
  /\ fd = "live"
  /\ recordCtr < MaxRecords
  /\ recordCtr' = recordCtr + 1
  /\ heap' = heap \cup {recordCtr'}
  /\ IF Full
     THEN /\ statistics' = "thrown"
          /\ UNCHANGED <<size, dataPointers, listing>>
     ELSE /\ statistics' \in {"run", "thrown"}
          /\ dataPointers' = [dataPointers EXCEPT ![size] = recordCtr']
          /\ size' = size + 1
          /\ listing' = Append(listing, recordCtr')
  /\ UNCHANGED <<fd, maxSize, dropped>>

ShowCommand ==
  \E index \in -1..MaxSize :
    /\ Command("show")
    /\ fd = "live"
    /\ statistics' \in IF OutOfRange(index) THEN {"thrown"} ELSE {"run", "thrown"}
    /\ UNCHANGED <<fd, containerVars>>

DeleteCommand ==
  /\ Command("delete")
  /\ statistics' = "delete"
  /\ UNCHANGED <<fd, containerVars>>

\* The next index of the delete command: it counts what is left by then.  To
\* delete a record twice is undefined.
Erase ==
  \E index \in -1..MaxSize :
    /\ statistics = "delete"
    /\ fd = "live"
    /\ IF OutOfRange(index)
       THEN statistics' = "thrown" /\ UNCHANGED containerVars
       ELSE /\ statistics' = IF dataPointers[index] \in heap THEN "delete" ELSE "undefined"
            /\ heap' = heap \ {dataPointers[index]}
            /\ dataPointers' = Moved(index)
            /\ size' = size - 1
            /\ listing' = RemoveNth(listing, index + 1)
            /\ UNCHANGED <<maxSize, dropped, recordCtr>>
    /\ UNCHANGED <<fd, last_word>>

\* The index is 2147483647, and the end of the range, one more, overflows.  Where
\* it wraps to a negative number the range passes the test, counts one record
\* and has no index, and what lies far below the array is moved far above it
\* ("wild"); a compiler that counts on there being no overflow may let the test
\* fail.
EraseIntMax ==
  /\ statistics = "delete"
  /\ fd = "live"
  /\ statistics' \in {"wild", "thrown"}
  /\ UNCHANGED <<fd, last_word, containerVars>>

EndDelete ==
  /\ statistics = "delete"
  /\ statistics' \in {"run", "thrown"}
  /\ UNCHANGED <<fd, last_word, containerVars>>

\* The destructor pops the records from the last to the first.
DestroyCommand ==
  /\ Command("destroy")
  /\ CASE fd = "null" ->
            statistics' \in {"run", "thrown"} /\ UNCHANGED <<fd, containerVars>>
       [] fd = "live" ->
            /\ statistics' \in IF Owned \subseteq heap THEN {"run", "thrown"} ELSE {"undefined"}
            /\ fd' = "dangling"
            /\ heap' = heap \ Owned
            /\ size' = 0
            /\ listing' = <<>>
            /\ UNCHANGED <<maxSize, dataPointers, dropped, recordCtr>>
       [] fd = "dangling" ->
            statistics' = "undefined" /\ UNCHANGED <<fd, containerVars>>

\* After destroy, an empty line destroys once more.
EmptyLine ==
  /\ statistics = "run"
  /\ statistics' = IF last_word = "destroy" /\ fd # "null" THEN "undefined" ELSE "thrown"
  /\ UNCHANGED <<fd, last_word, containerVars>>

EndOfCommands ==
  /\ statistics = "run"
  /\ statistics' = "ended"
  /\ UNCHANGED <<fd, last_word, containerVars>>

-----------------------------------------------------------------------------
FileStep ==
  \/ BadLine \/ InitCommand \/ UseNoContainer \/ CountCommand \/ ShowCommand
  \/ DeleteCommand \/ Erase \/ EraseIntMax \/ EndDelete \/ DestroyCommand \/ EmptyLine \/ EndOfCommands

FileNext == FileStart \/ FileStep

FileSpec == FileInit /\ [][FileNext]_fileVars

-----------------------------------------------------------------------------
(* Properties.                                                             *)

Record == 1..MaxRecords

FileTypeOK ==
  /\ statistics \in {"off", "run", "delete", "ended", "thrown", "undefined", "wild"}
  /\ fd \in {"null", "live", "dangling"}
  /\ last_word \in {"none", "init", "count", "show", "delete", "destroy"}
  /\ maxSize \in 0..MaxSize /\ size \in 0..maxSize
  /\ dataPointers \in [Index -> Record \cup {0}]
  /\ heap \subseteq Record /\ dropped \subseteq Record
  /\ recordCtr \in 0..MaxRecords
  /\ listing \in Seq(Record)

\* Every record has one owner: the pointers below size are different, none is
\* left of a deleted record, and what the container does not own was dropped by
\* init, or by the push that threw.  So no command deletes a record twice or
\* reads one that is gone while there is a container, short of the overflow
\* that leads to "wild" (fileData.cpp:18-91).
RecordsOwned ==
  /\ Cardinality(Owned) = size
  /\ Owned \cap dropped = {}
  /\ statistics # "thrown" => heap = Owned \cup dropped
  /\ statistics = "undefined" => fd # "live"

\* The container lists the records as the user expects, whatever was deleted
\* before: an index counts what is left (main.cpp:64-81).
ListFaithful ==
  listing = [n \in 1..size |-> dataPointers[n - 1]]
=============================================================================
