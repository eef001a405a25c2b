----------------------------- MODULE ReplaceCopy -----------------------------
(***************************************************************************)
(* The copy with a replacement of cw02/zad1, first by streams and then by  *)
(* system calls.  The two copies are to be compared by their checksums; a  *)
(* checksum stands for the contents.                                       *)
(*                                                                         *)
(* The second copy writes to the descriptor of its input, which is open    *)
(* for reading only: every write fails, and nothing notices.  Neither is   *)
(* the stream of the first copy closed before main returns: until then its *)
(* end may be missing in the file, and the file that is compared is the    *)
(* same both times.                                                        *)
(***************************************************************************)
EXTENDS Naturals, Sequences

CONSTANTS
  ReplaceBlock,    \* BUFFER_SIZE
  MaxReplaceLen    \* the bound on the length of the input

ASSUME ReplaceAssumption == ReplaceBlock \in Nat \ {0} /\ MaxReplaceLen \in Nat

VARIABLES
  replacement,   \* what the program is about to do
  inFile,        \* the bytes of the input
  position,      \* how many of them have been read
  streamBuff,    \* the buffer of the output stream
  outOnDisk,     \* the output file
  streamMd5      \* the checksum after the first copy

replaceVars == <<replacement, inFile, position, streamBuff, outOnDisk, streamMd5>>

\* The byte to replace, its replacement, and any other.
Byte == {"old", "new", "other"}

ReplaceInit ==
  /\ replacement = "off"
  /\ inFile = <<>>
  /\ position = 0
  /\ streamBuff = <<>>
  /\ outOnDisk = <<>>
  /\ streamMd5 = <<>>

ReplaceStart ==
  /\ replacement = "off"
  /\ replacement' = "streams"
  /\ \E n \in 0..MaxReplaceLen : inFile' \in [1..n -> Byte]
  /\ UNCHANGED <<position, streamBuff, outOnDisk, streamMd5>>

-----------------------------------------------------------------------------
ReplacedAll(s) == [k \in DOMAIN s |-> IF s[k] = "old" THEN "new" ELSE s[k]]

\* Mutant: the whole buffer is written, and its end is left from the block before.
NextBlockWhole ==
  ReplacedAll([k \in 1..ReplaceBlock |->
                 IF position + k <= Len(inFile) THEN inFile[position + k] ELSE "other"])

\* What the next read finds, after the replacement.
NextBlock ==
  ReplacedAll(SubSeq(inFile, position + 1,
                     IF position + ReplaceBlock <= Len(inFile)
                     THEN position + ReplaceBlock ELSE Len(inFile)))

\* A block that is not full ends the loop: it has set the end-of-file flag.
\* The stream may keep what is written, or write it out.
copyByStreams ==
  /\ replacement = "streams"
  /\ \/ /\ streamBuff' = streamBuff \o NextBlock
        /\ UNCHANGED outOnDisk
     \/ /\ outOnDisk' = outOnDisk \o streamBuff \o NextBlock
        /\ streamBuff' = <<>>
  /\ IF position + ReplaceBlock <= Len(inFile)
     THEN position' = position + ReplaceBlock /\ UNCHANGED replacement
     ELSE position' = Len(inFile) /\ replacement' = "md5"
  /\ UNCHANGED <<inFile, streamMd5>>

\* The second copy has a descriptor of its own, at the beginning of the file.
FirstMd5 ==
  /\ replacement = "md5"
  /\ replacement' = "system calls"
  /\ streamMd5' = outOnDisk
  /\ position' = 0
  /\ UNCHANGED <<inFile, streamBuff, outOnDisk>>

\* The loop goes on until there is nothing to read.
copyBySystemCalls ==
  /\ replacement = "system calls"
  /\ IF position = Len(inFile)
     THEN replacement' = "compare" /\ UNCHANGED position
     ELSE /\ position' = IF position + ReplaceBlock <= Len(inFile)
                         THEN position + ReplaceBlock ELSE Len(inFile)
          /\ UNCHANGED replacement
  /\ UNCHANGED <<inFile, streamBuff, outOnDisk, streamMd5>>

CompareMd5 ==
  /\ replacement = "compare"
  /\ replacement' = IF streamMd5 = outOnDisk THEN "same" ELSE "not the same"
  /\ UNCHANGED <<inFile, position, streamBuff, outOnDisk, streamMd5>>

\* main returns, and the stream's destructor writes what is left.
ReturnFromMain ==
  /\ replacement \in {"same", "not the same"}
  /\ replacement' = "returned"
  /\ outOnDisk' = outOnDisk \o streamBuff
  /\ streamBuff' = <<>>
  /\ UNCHANGED <<inFile, position, streamMd5>>

ReplaceStep ==
  copyByStreams \/ FirstMd5 \/ copyBySystemCalls \/ CompareMd5 \/ ReturnFromMain

ReplaceNext == ReplaceStart \/ ReplaceStep

ReplaceSpec == ReplaceInit /\ [][ReplaceNext]_replaceVars

-----------------------------------------------------------------------------
(* Properties.                                                             *)

ReplaceTypeOK ==
  /\ replacement \in {"off", "streams", "md5", "system calls", "compare", "same",
                      "not the same", "returned"}
  /\ {inFile, streamBuff, outOnDisk, streamMd5} \subseteq Seq(Byte)
  /\ Len(inFile) <= MaxReplaceLen
  /\ position \in 0..Len(inFile)

\* When main has returned, the output is the whole input with its bytes
\* replaced, whatever was in the file when the checksums were taken and in spite
\* of the second copy, which writes nothing (main.cpp:30-56, 97-119).
CopiedInTheEnd ==
  /\ Len(outOnDisk) + Len(streamBuff) <= Len(inFile)
  /\ outOnDisk \o streamBuff = ReplacedAll(SubSeq(inFile, 1, Len(outOnDisk) + Len(streamBuff)))
  /\ replacement = "returned" => Len(outOnDisk) = Len(inFile)
=============================================================================
