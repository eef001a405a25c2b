----------------------------- MODULE ReverseCopy -----------------------------
(***************************************************************************)
(* The backward copy of cw02/zad2, first in blocks and then byte by byte.  *)
(* The program says "Output is identical" if both copies have the same     *)
(* checksum; the checksum stands for the contents.  A byte of the input is *)
(* its position there, so that no two bytes are alike.                     *)
(***************************************************************************)
EXTENDS Naturals, Sequences

CONSTANTS
  ReverseBlock,    \* BUFFER_SIZE
  MaxReverseLen    \* the bound on the length of the input

ASSUME ReverseAssumption == ReverseBlock \in Nat \ {0} /\ MaxReverseLen \in Nat

VARIABLES
  reversal,        \* what the program is about to do
  fileLen,
  totalBytesRead,
  outFile,         \* the bytes written, those in the stream's buffer included
  blockMd5         \* the checksum of the first copy

reverseVars == <<reversal, fileLen, totalBytesRead, outFile, blockMd5>>

ReverseInit ==
  /\ reversal = "off"
  /\ fileLen = 0
  /\ totalBytesRead = 0
  /\ outFile = <<>>
  /\ blockMd5 = <<>>

ReverseStart ==
  /\ reversal = "off"
  /\ reversal' = "blocks"
  /\ fileLen' \in 0..MaxReverseLen
  /\ UNCHANGED <<totalBytesRead, outFile, blockMd5>>

-----------------------------------------------------------------------------
\* The bytes of the input from position first + 1 on, n of them at most.
Bytes(first, n) ==
  [k \in 1..(IF first + n <= fileLen THEN n ELSE fileLen - first) |-> first + k]

Reversed(s) == [k \in 1..Len(s) |-> s[Len(s) + 1 - k]]

\* Mutant: the last block is as long as all the others.
BlockFull ==
  IF totalBytesRead + ReverseBlock < fileLen
  THEN Bytes(fileLen - (totalBytesRead + ReverseBlock), ReverseBlock)
  ELSE Bytes(0, ReverseBlock)

\* The block before those read so far; the last one is what is left, which may
\* be a whole block, or nothing of an empty file.
Block ==
  IF totalBytesRead + ReverseBlock < fileLen
  THEN Bytes(fileLen - (totalBytesRead + ReverseBlock), ReverseBlock)
  ELSE Bytes(0, fileLen - totalBytesRead)

copyBackwardsBuffer ==
  /\ reversal = "blocks"
  /\ outFile' = outFile \o Reversed(Block)
  /\ totalBytesRead' = totalBytesRead + Len(Block)
  /\ reversal' = IF totalBytesRead + ReverseBlock < fileLen THEN "blocks" ELSE "reopen"
  /\ UNCHANGED <<fileLen, blockMd5>>

\* The output is flushed by now; it is opened again, which truncates it.
Reopen ==
  /\ reversal = "reopen"
  /\ reversal' = "bytes"
  /\ blockMd5' = outFile
  /\ outFile' = <<>>
  /\ totalBytesRead' = 1
  /\ UNCHANGED fileLen

copyBackwardsByteByByte ==
  /\ reversal = "bytes"
  /\ totalBytesRead <= fileLen
  /\ outFile' = outFile \o Bytes(fileLen - totalBytesRead, 1)
  /\ totalBytesRead' = totalBytesRead + 1
  /\ UNCHANGED <<reversal, fileLen, blockMd5>>

Verdict ==
  /\ reversal = "bytes"
  /\ totalBytesRead > fileLen
  /\ reversal' = IF blockMd5 = outFile THEN "identical" ELSE "different"
  /\ UNCHANGED <<fileLen, totalBytesRead, outFile, blockMd5>>

ReverseStep == copyBackwardsBuffer \/ Reopen \/ copyBackwardsByteByByte \/ Verdict

ReverseNext == ReverseStart \/ ReverseStep

ReverseSpec == ReverseInit /\ [][ReverseNext]_reverseVars

-----------------------------------------------------------------------------
(* Properties.                                                             *)

ReverseTypeOK ==
  /\ reversal \in {"off", "blocks", "reopen", "bytes", "identical", "different"}
  /\ fileLen \in 0..MaxReverseLen
  /\ totalBytesRead \in 0..(MaxReverseLen + 1)
  /\ {outFile, blockMd5} \subseteq Seq(1..MaxReverseLen)

\* Both loops write the end of the input backwards, without a gap or an overlap
\* where the blocks meet, down to the first byte, and the verdict is never that
\* they differ (main.cpp:26-69, 106-129).
EndReversed ==
  /\ \A k \in 1..Len(outFile) : outFile[k] = fileLen + 1 - k
  /\ reversal \in {"reopen", "identical"} => Len(outFile) = fileLen
  /\ reversal # "different"
=============================================================================
