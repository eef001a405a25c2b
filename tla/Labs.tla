-------------------------------- MODULE Labs --------------------------------
(***************************************************************************)
(* The small programs side by side: the integrals of cw05, the catcher of  *)
(* cw04, the directory search of cw03, the copies of cw02 and the file     *)
(* statistics of cw01.  They share nothing, and a behaviour runs one of    *)
(* them: whichever starts first is the only one.                           *)
(***************************************************************************)
EXTENDS PipePool, FifoSum, ModeCatcher, DirWalk, FileData, ReverseCopy, ReplaceCopy

labsVars == <<pipeVars, fifoVars, catcherVars, dirVars, fileVars, reverseVars, replaceVars>>

LabsInit ==
  /\ PipeInit /\ FifoInit /\ CatcherInit /\ DirInit
  /\ FileInit /\ ReverseInit /\ ReplaceInit

NoneStarted ==
  {master, reader, catcher, walker[0], statistics, reversal, replacement} = {"off"}

LabsStart ==
  /\ NoneStarted
  /\ \/ PipeStart /\ UNCHANGED <<fifoVars, catcherVars, dirVars, fileVars, reverseVars, replaceVars>>
     \/ FifoStart /\ UNCHANGED <<pipeVars, catcherVars, dirVars, fileVars, reverseVars, replaceVars>>
     \/ CatcherStart /\ UNCHANGED <<pipeVars, fifoVars, dirVars, fileVars, reverseVars, replaceVars>>
     \/ DirStart /\ UNCHANGED <<pipeVars, fifoVars, catcherVars, fileVars, reverseVars, replaceVars>>
     \/ FileStart /\ UNCHANGED <<pipeVars, fifoVars, catcherVars, dirVars, reverseVars, replaceVars>>
     \/ ReverseStart /\ UNCHANGED <<pipeVars, fifoVars, catcherVars, dirVars, fileVars, replaceVars>>
     \/ ReplaceStart /\ UNCHANGED <<pipeVars, fifoVars, catcherVars, dirVars, fileVars, reverseVars>>

\* A step of the program that runs; one that has not started has none.
LabsNext ==
  \/ LabsStart
  \/ PipeStep /\ UNCHANGED <<fifoVars, catcherVars, dirVars, fileVars, reverseVars, replaceVars>>
  \/ FifoStep /\ UNCHANGED <<pipeVars, catcherVars, dirVars, fileVars, reverseVars, replaceVars>>
  \/ CatcherStep /\ UNCHANGED <<pipeVars, fifoVars, dirVars, fileVars, reverseVars, replaceVars>>
  \/ DirStep /\ UNCHANGED <<pipeVars, fifoVars, catcherVars, fileVars, reverseVars, replaceVars>>
  \/ FileStep /\ UNCHANGED <<pipeVars, fifoVars, catcherVars, dirVars, reverseVars, replaceVars>>
  \/ ReverseStep /\ UNCHANGED <<pipeVars, fifoVars, catcherVars, dirVars, fileVars, replaceVars>>
  \/ ReplaceStep /\ UNCHANGED <<pipeVars, fifoVars, catcherVars, dirVars, fileVars, reverseVars>>

LabsSpec ==
  LabsInit /\ [][LabsNext]_labsVars /\ PipeFairness /\ FifoFairness /\ CatcherFairness

-----------------------------------------------------------------------------
\* Every variable of every program has its type: the pipes hold intervals and
\* are never overfull, a stream adds results only, every pointer is one to a
\* record, and so on, program by program (cw01 to cw05).
LabsTypeOK ==
  /\ PipeTypeOK /\ FifoTypeOK /\ CatcherTypeOK /\ DirTypeOK
  /\ FileTypeOK /\ ReverseTypeOK /\ ReplaceTypeOK
=============================================================================
