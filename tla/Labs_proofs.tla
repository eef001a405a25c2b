----------------------------- MODULE Labs_proofs -----------------------------
(***************************************************************************)
(* What is proved of each small program holds when they are checked side   *)
(* by side: seen through the variables of one program, a behaviour of Labs *)
(* is a behaviour of that program, for a step of another one stutters on   *)
(* them.  So one lemma for each program says that Labs implements it, and  *)
(* the theorems of the programs carry over.                                *)
(***************************************************************************)
EXTENDS Labs, Processes_proofs, Files_proofs

-----------------------------------------------------------------------------
(* Labs implements each of its programs.                                   *)

\* Each step of Labs is a step of the one program that runs.
LEMMA LabsImplementsPipe == LabsSpec => PipeSpec
<1>1. [LabsNext]_labsVars => [PipeNext]_pipeVars
  BY DEF LabsNext, LabsStart, labsVars, PipeNext
<1> QED
  BY <1>1, PTL DEF LabsSpec, LabsInit, PipeSpec

LEMMA LabsImplementsFifo == LabsSpec => FifoSpec
<1>1. [LabsNext]_labsVars => [FifoNext]_fifoVars
  BY DEF LabsNext, LabsStart, labsVars, FifoNext
<1> QED
  BY <1>1, PTL DEF LabsSpec, LabsInit, FifoSpec

LEMMA LabsImplementsCatcher == LabsSpec => CatcherSpec
<1>1. [LabsNext]_labsVars => [CatcherNext]_catcherVars
  BY DEF LabsNext, LabsStart, labsVars, CatcherNext
<1> QED
  BY <1>1, PTL DEF LabsSpec, LabsInit, CatcherSpec

LEMMA LabsImplementsDir == LabsSpec => DirSpec
<1>1. [LabsNext]_labsVars => [DirNext]_dirVars
  BY DEF LabsNext, LabsStart, labsVars, DirNext
<1> QED
  BY <1>1, PTL DEF LabsSpec, LabsInit, DirSpec

LEMMA LabsImplementsFile == LabsSpec => FileSpec
<1>1. [LabsNext]_labsVars => [FileNext]_fileVars
  BY DEF LabsNext, LabsStart, labsVars, FileNext
<1> QED
  BY <1>1, PTL DEF LabsSpec, LabsInit, FileSpec

LEMMA LabsImplementsReverse == LabsSpec => ReverseSpec
<1>1. [LabsNext]_labsVars => [ReverseNext]_reverseVars
  BY DEF LabsNext, LabsStart, labsVars, ReverseNext
<1> QED
  BY <1>1, PTL DEF LabsSpec, LabsInit, ReverseSpec

LEMMA LabsImplementsReplace == LabsSpec => ReplaceSpec
<1>1. [LabsNext]_labsVars => [ReplaceNext]_replaceVars
  BY DEF LabsNext, LabsStart, labsVars, ReplaceNext
<1> QED
  BY <1>1, PTL DEF LabsSpec, LabsInit, ReplaceSpec

-----------------------------------------------------------------------------
(* What all of them keep.                                                  *)

\* LabsTypeOK holds in every state of LabsSpec: no program of cw01 to cw05
\* leaves a variable outside its type, whichever of them is the one that runs,
\* with any number of processes and records and any size of its buffers.
THEOREM LabsTypeCorrect == LabsSpec => []LabsTypeOK
<1> QED
  BY LabsImplementsPipe, PipeTypeCorrect,
     LabsImplementsFifo, FifoTypeCorrect,
     LabsImplementsCatcher, CatcherTypeCorrect,
     LabsImplementsDir, DirTypeCorrect,
     LabsImplementsFile, FileTypeCorrect,
     LabsImplementsReverse, ReverseTypeCorrect,
     LabsImplementsReplace, ReplaceTypeCorrect,
     PTL DEF LabsTypeOK

\* The properties of the seven programs hold together in LabsSpec: each
\* interval is added once by the parent of the pipes and by the reader of the
\* FIFO as far as it can see the results, a request and its answer belong
\* together, no line of the search is lost or printed by more processes than
\* the directories above it, each record has one owner and the listing shows
\* it, and both copies of cw02 end with the file they should.
THEOREM LabsKeepsAll ==
  LabsSpec => [](/\ IntervalsOnce /\ AddedOnce /\ AnswersMatch /\ LinesWritten
                 /\ RecordsOwned /\ ListFaithful /\ EndReversed /\ CopiedInTheEnd)
<1> QED
  BY LabsImplementsPipe, IntervalsOnceHolds, LabsImplementsFifo, AddedOnceHolds,
     LabsImplementsCatcher, AnswersMatchHolds, LabsImplementsDir, LinesWrittenHolds,
     LabsImplementsFile, RecordsOwnedHolds, ListFaithfulHolds,
     LabsImplementsReverse, EndReversedHolds, LabsImplementsReplace, CopiedInTheEndHolds, PTL
=============================================================================
