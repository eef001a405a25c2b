------------------------------ MODULE PipePool ------------------------------
(***************************************************************************)
(* The integral by pipes of cw05/zad2: the parent forks workers, writes    *)
(* the beginnings of the intervals into one pipe, closes it, and then      *)
(* reads one worker's return pipe after the other to its end.              *)
(*                                                                         *)
(* A value is the number of its interval.  The intervals are counted by    *)
(* adding 1.0/n to a double until it reaches 1.0; by rounding there may be *)
(* n of them or n + 1.  A read from an empty pipe ends the worker's loop   *)
(* only when nobody can write any more: the worker itself inherits a write *)
(* end of data_pipe, which it has to close.  A write to a full pipe waits, *)
(* and since forks may fail, few workers may have to take all intervals.   *)
(***************************************************************************)
EXTENDS Integers, Sequences, FiniteSets

CONSTANTS
  NumPipeWorkers,   \* n_processes
  PipeCapacity      \* the values a pipe holds: 8192 in Linux

ASSUME PipeAssumption == {NumPipeWorkers, PipeCapacity} \subseteq Nat \ {0}

VARIABLES
  master,        \* what the parent is about to do
  stream,        \* the worker it is forking, or whose results it is reading
  intervals,     \* how many intervals there are
  written,       \* how many it has written
  data_pipe,
  worker,        \* what each worker is about to do
  taken,         \* the interval each worker has taken
  return_pipe,
  sum            \* how often each interval has been added

pipeVars == <<master, stream, intervals, written, data_pipe, worker, taken,
              return_pipe, sum>>
masterVars == <<master, stream, intervals, written, sum>>

PipeWorker == 0..(NumPipeWorkers - 1)
Interval   == 1..(NumPipeWorkers + 1)

PipeInit ==
  /\ master = "off"
  /\ stream = 0
  /\ intervals = 0
  /\ written = 0
  /\ data_pipe = <<>>
  /\ worker = [w \in PipeWorker |-> "unborn"]
  /\ taken = [w \in PipeWorker |-> 0]
  /\ return_pipe = [w \in PipeWorker |-> <<>>]
  /\ sum = [k \in Interval |-> 0]

PipeStart ==
  /\ master = "off"
  /\ master' = "fork"
  /\ intervals' \in {NumPipeWorkers, NumPipeWorkers + 1}
  /\ UNCHANGED <<stream, written, data_pipe, worker, taken, return_pipe, sum>>

-----------------------------------------------------------------------------
(* The parent.                                                             *)

\* From one worker to the next; after the last one to label l.
NextStream(l) ==
  IF stream + 1 < NumPipeWorkers
  THEN stream' = stream + 1 /\ UNCHANGED master
  ELSE stream' = 0 /\ master' = l

\* A fork that fails gives -1, which the code takes for the parent's side: the
\* worker is missing, and nobody can write into its return pipe.
ForkWorker ==
  /\ master = "fork"
  /\ worker' \in {[worker EXCEPT ![stream] = s] : s \in {"born", "missing"}}
  /\ NextStream("write")
  /\ UNCHANGED <<intervals, written, data_pipe, taken, return_pipe, sum>>

WriteInterval ==
  /\ master = "write"
  /\ written < intervals
  /\ Len(data_pipe) < PipeCapacity
  /\ written' = written + 1
  /\ data_pipe' = Append(data_pipe, written + 1)
  /\ UNCHANGED <<master, stream, intervals, worker, taken, return_pipe, sum>>

CloseDataPipe ==
  /\ master = "write"
  /\ written = intervals
  /\ master' = "sum"
  /\ UNCHANGED <<stream, intervals, written, data_pipe, worker, taken, return_pipe, sum>>

AddResult ==
  /\ master = "sum"
  /\ return_pipe[stream] # <<>>
  /\ sum' = [sum EXCEPT ![Head(return_pipe[stream])] = @ + 1]
  /\ return_pipe' = [return_pipe EXCEPT ![stream] = Tail(@)]
  /\ UNCHANGED <<master, stream, intervals, written, data_pipe, worker, taken>>

\* Mutant: the parent does not wait for a worker that is still at work.
NoMoreResultsYet(w) == return_pipe[w] = <<>>

\* The end of file: the pipe is empty and the worker has closed its end.
NoMoreResults(w) == return_pipe[w] = <<>> /\ worker[w] \in {"exited", "missing"}

NextWorker ==
  /\ master = "sum"
  /\ NoMoreResults(stream)
  /\ NextStream("done")
  /\ UNCHANGED <<intervals, written, data_pipe, worker, taken, return_pipe, sum>>

-----------------------------------------------------------------------------
(* A worker.                                                               *)

CloseWriteEnd(w) ==
  /\ worker[w] = "born"
  /\ worker' = [worker EXCEPT ![w] = "read"]
  /\ UNCHANGED <<masterVars, data_pipe, taken, return_pipe>>

TakeInterval(w) ==
  /\ worker[w] = "read"
  /\ data_pipe # <<>>
  /\ taken' = [taken EXCEPT ![w] = Head(data_pipe)]
  /\ data_pipe' = Tail(data_pipe)
  /\ worker' = [worker EXCEPT ![w] = "answer"]
  /\ UNCHANGED <<masterVars, return_pipe>>

Answer(w) ==
  /\ worker[w] = "answer"
  /\ Len(return_pipe[w]) < PipeCapacity
  /\ return_pipe' = [return_pipe EXCEPT ![w] = Append(@, taken[w])]
  /\ taken' = [taken EXCEPT ![w] = 0]
  /\ worker' = [worker EXCEPT ![w] = "read"]
  /\ UNCHANGED <<masterVars, data_pipe>>

\* Mutant: the workers keep the write end they have inherited.
DataPipeOpenInWorkers ==
  master \in {"fork", "write"} \/ \E w \in PipeWorker : worker[w] \notin {"unborn", "missing", "exited"}

\* Somebody can still write into data_pipe.
DataPipeOpen ==
  master \in {"fork", "write"} \/ \E w \in PipeWorker : worker[w] = "born"

ExitWorker(w) ==
  /\ worker[w] = "read"
  /\ data_pipe = <<>>
  /\ ~DataPipeOpen
  /\ worker' = [worker EXCEPT ![w] = "exited"]
  /\ UNCHANGED <<masterVars, data_pipe, taken, return_pipe>>

-----------------------------------------------------------------------------
Master == ForkWorker \/ WriteInterval \/ CloseDataPipe \/ AddResult \/ NextWorker

WorkerOfPipe(w) == CloseWriteEnd(w) \/ TakeInterval(w) \/ Answer(w) \/ ExitWorker(w)

PipeStep == Master \/ \E w \in PipeWorker : WorkerOfPipe(w)

PipeNext == PipeStart \/ PipeStep

\* Parent and workers are scheduled.
PipeFairness == WF_pipeVars(Master) /\ \A w \in PipeWorker : WF_pipeVars(WorkerOfPipe(w))

PipeSpec == PipeInit /\ [][PipeNext]_pipeVars /\ PipeFairness

-----------------------------------------------------------------------------
(* Properties.                                                             *)

PipeTypeOK ==
  /\ master \in {"off", "fork", "write", "sum", "done"}
  /\ stream \in PipeWorker
  /\ intervals \in {0, NumPipeWorkers, NumPipeWorkers + 1}
  /\ written \in 0..intervals
  /\ data_pipe \in Seq(Interval) /\ Len(data_pipe) <= PipeCapacity
  /\ worker \in [PipeWorker -> {"unborn", "born", "missing", "read", "answer", "exited"}]
  /\ taken \in [PipeWorker -> Interval \cup {0}]
  /\ return_pipe \in [PipeWorker -> Seq(Interval)]
  /\ \A w \in PipeWorker : Len(return_pipe[w]) <= PipeCapacity
  /\ sum \in [Interval -> Nat]

\* How often k is in a pipe.
Copies(q, k) == Cardinality({n \in 1..Len(q) : q[n] = k})

\* The places an interval can be at: the data pipe, a worker, a return pipe,
\* the sum.
Whereabouts(k) ==
  Copies(data_pipe, k) + sum[k]
    + Cardinality({w \in PipeWorker : taken[w] = k})
    + Cardinality({wn \in PipeWorker \X (1..PipeCapacity) :
                     wn[2] <= Len(return_pipe[wn[1]]) /\ return_pipe[wn[1]][wn[2]] = k})

Employed == {w \in PipeWorker : worker[w] # "missing"}

\* Every interval is worked on by exactly one of the competing workers, and the
\* parent ends with the complete sum, if it has a worker at all: nobody leaves
\* while there is work, and no result is overlooked (main.cpp:59-79).
IntervalsOnce ==
  /\ \A k \in Interval : Whereabouts(k) = IF k <= written THEN 1 ELSE 0
  /\ master = "done" /\ Employed # {} =>
       \A k \in Interval : sum[k] = IF k <= intervals THEN 1 ELSE 0

\* The places outside the sum: the data pipe, and with each worker its hand and
\* its return pipe.  They hold all intervals there are.
AllFit == intervals <= PipeCapacity + Cardinality(Employed) * (PipeCapacity + 1)

\* The parent reads no result before it has written every interval.  It comes to
\* its end if the intervals find room in the pipes, for each worker sees the end
\* of data_pipe in spite of the write ends that fork has copied; otherwise the
\* parent and the workers wait for each other's pipe to empty (main.cpp:56-79).
PipesRunDry ==
  /\ master = "write" /\ AllFit ~> master = "done"
  /\ [](master \in {"sum", "done"} => AllFit)
=============================================================================
