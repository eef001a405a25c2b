------------------------------- MODULE FifoSum -------------------------------
(***************************************************************************)
(* The integral by a FIFO of cw05/zad3: the parent starts n worker         *)
(* programs, opens /tmp/sysopy_pipe for reading and reads n results.  A    *)
(* worker opens the FIFO for writing, computes, and writes its result when *)
(* it closes the FIFO.                                                     *)
(*                                                                         *)
(* Either open waits for the other side.  The parent sees the end of file  *)
(* whenever the FIFO is empty and nobody has it open for writing, although *)
(* workers are still to come; the end of file sticks to the stream, and    *)
(* fread then leaves the old value in the buffer, which is added again.    *)
(* The FIFO is never removed: workers that an earlier run has left behind  *)
(* wait in their open for the reader of a later run.                       *)
(***************************************************************************)
EXTENDS Integers, Sequences, FiniteSets

CONSTANTS
  FifoWorker,     \* the workers the parent starts: n_processes of them
  OldFifoWorker   \* those an earlier run may have left behind

ASSUME FifoAssumption ==
  /\ IsFiniteSet(FifoWorker) /\ FifoWorker # {}
  /\ IsFiniteSet(OldFifoWorker) /\ FifoWorker \cap OldFifoWorker = {}

VARIABLES
  reader,      \* what the parent is about to do
  sum_worker,  \* what each worker is about to do
  fifo,        \* the results in the FIFO, each named by its worker
  at_eof,      \* the end-of-file flag of the parent's stream
  buff,        \* the result in the parent's buffer, {} before the first one
  added        \* what has been added to the sum, in order

fifoVars == <<reader, sum_worker, fifo, at_eof, buff, added>>

SumWorker == FifoWorker \cup OldFifoWorker
n_processes == Cardinality(FifoWorker)

FifoInit ==
  /\ reader = "off"
  /\ sum_worker = [w \in SumWorker |-> "off"]
  /\ fifo = <<>>
  /\ at_eof = FALSE
  /\ buff = {}
  /\ added = <<>>

\* The parent forks its workers; a fork that fails is not noticed.  Some
\* workers of an earlier run may still be there.
FifoStart ==
  /\ reader = "off"
  /\ reader' = "open"
  /\ \E forked \in SUBSET FifoWorker, left \in SUBSET OldFifoWorker :
       sum_worker' = [w \in SumWorker |-> CASE w \in forked -> "come"
                                            [] w \in left   -> "opening"
                                            [] OTHER        -> "off"]
  /\ UNCHANGED <<fifo, at_eof, buff, added>>

-----------------------------------------------------------------------------
(* A worker.                                                               *)

\* Everybody in or after open: a worker counts as a writer while it still
\* waits for the reader.
Writers == {w \in SumWorker : sum_worker[w] \in {"opening", "opened", "written"}}

\* The worker's open ends at once if there is a reader, and it ends the open
\* of a reader that has been waiting.
OpenForWriting(w) ==
  /\ sum_worker[w] = "come"
  /\ IF reader \in {"opening", "read"}
     THEN reader' = "read" /\ sum_worker' = [sum_worker EXCEPT ![w] = "opened"]
     ELSE UNCHANGED reader /\ sum_worker' = [sum_worker EXCEPT ![w] = "opening"]
  /\ UNCHANGED <<fifo, at_eof, buff, added>>

\* fclose writes the result; without a reader SIGPIPE ends the worker.
WriteResult(w) ==
  /\ sum_worker[w] = "opened"
  /\ IF reader = "read"
     THEN fifo' = Append(fifo, w) /\ sum_worker' = [sum_worker EXCEPT ![w] = "written"]
     ELSE UNCHANGED fifo /\ sum_worker' = [sum_worker EXCEPT ![w] = "killed"]
  /\ UNCHANGED <<reader, at_eof, buff, added>>

CloseFifo(w) ==
  /\ sum_worker[w] = "written"
  /\ sum_worker' = [sum_worker EXCEPT ![w] = "closed"]
  /\ UNCHANGED <<reader, fifo, at_eof, buff, added>>

-----------------------------------------------------------------------------
(* The parent.                                                             *)

\* The other way round: waiting writers get through.
OpenForReading ==
  /\ reader = "open"
  /\ reader' = IF Writers # {} THEN "read" ELSE "opening"
  /\ sum_worker' = [w \in SumWorker |->
                      IF sum_worker[w] = "opening" THEN "opened" ELSE sum_worker[w]]
  /\ UNCHANGED <<fifo, at_eof, buff, added>>

\* Mutants: the parent holds the FIFO open for writing, too; it does not wait
\* for writers that have nothing written yet.
EndOfFileNever == FALSE
EndOfFileAtOnce == at_eof \/ fifo = <<>>

EndOfFile == at_eof \/ (fifo = <<>> /\ Writers = {})

\* One round of the loop; fread waits while the FIFO is empty and has a writer.
\* After the last round the FIFO is closed.
AddNext ==
  /\ reader = "read"
  /\ \/ /\ ~at_eof /\ fifo # <<>>
        /\ buff' = {Head(fifo)}
        /\ fifo' = Tail(fifo)
        /\ UNCHANGED at_eof
     \/ /\ EndOfFile
        /\ at_eof' = TRUE
        /\ UNCHANGED <<buff, fifo>>
  /\ added' = Append(added, buff')
  /\ reader' = IF Len(added') = n_processes THEN "done" ELSE "read"
  /\ UNCHANGED sum_worker

-----------------------------------------------------------------------------
Reader == OpenForReading \/ AddNext

Writer(w) == OpenForWriting(w) \/ WriteResult(w) \/ CloseFifo(w)

FifoStep == Reader \/ \E w \in SumWorker : Writer(w)

FifoNext == FifoStart \/ FifoStep

\* Parent and workers are scheduled.
FifoFairness == WF_fifoVars(Reader) /\ \A w \in SumWorker : WF_fifoVars(Writer(w))

FifoSpec == FifoInit /\ [][FifoNext]_fifoVars /\ FifoFairness

-----------------------------------------------------------------------------
(* Properties.                                                             *)

FifoTypeOK ==
  /\ reader \in {"off", "open", "opening", "read", "done"}
  /\ sum_worker \in [SumWorker -> {"off", "come", "opening", "opened", "written", "closed", "killed"}]
  /\ fifo \in Seq(SumWorker)
  /\ at_eof \in BOOLEAN
  /\ buff \in {{}} \cup {{w} : w \in SumWorker}
  /\ added \in Seq({{}} \cup {{w} : w \in SumWorker}) /\ Len(added) <= n_processes

AddedResults == UNION {added[k] : k \in 1..Len(added)}

\* The uninitialised buffer is never added, since no end of file comes before
\* the first result.  As long as no end of file has come, every result is added
\* once, so a sum without one is complete, unless an old worker has put in its
\* own; after an early end of file the last result fills up the sum
\* (main.cpp:76-88).
AddedOnce ==
  /\ \A k \in 1..Len(added) : added[k] # {}
  /\ ~at_eof => Cardinality(AddedResults) = Len(added)
  /\ reader = "done" /\ ~at_eof /\ AddedResults \cap OldFifoWorker = {} =>
       AddedResults = FifoWorker
  /\ at_eof => \A k \in (Cardinality(AddedResults) + 1)..Len(added) : added[k] = buff

\* The parent comes to its end if it has a worker at all: an early end of file
\* costs it the right sum, but it never waits for a result in vain.
SumEnds ==
  reader = "open" /\ (\E w \in SumWorker : sum_worker[w] # "off") ~> reader = "done"
=============================================================================
