------------------------------- MODULE DirWalk -------------------------------
(***************************************************************************)
(* The directory search of cw03/zad3: a process walks one directory, forks *)
(* a child for every directory in it, and prints a line for every file     *)
(* that begins with the string looked for.  Nobody waits for a child.      *)
(*                                                                         *)
(* A printed line stays in the stdout buffer for a while, and fork copies  *)
(* the buffer: parent and child both write the line out.  On a terminal    *)
(* the buffer is written at every newline, but the newline comes first in  *)
(* a line, so that the last line is always in the buffer.                  *)
(*                                                                         *)
(* A process is named by its directory, a line by its file.                *)
(***************************************************************************)
EXTENDS Naturals, FiniteSets

CONSTANTS
  DirCount,   \* the directories are 0..DirCount; 0 is the one of the command line
  WalkFile    \* the files that begin with the string looked for

ASSUME DirAssumption == DirCount \in Nat /\ IsFiniteSet(WalkFile)

VARIABLES
  parent,       \* the directory each directory is in
  home,         \* the directory each file is in
  mounted,      \* the directories below /mnt/
  broken,       \* those that cannot be read, or have an entry that cannot
  terminal,     \* stdout is a terminal
  walker,       \* what the process of each directory is about to do
  entries,      \* what it has still to visit
  stdout_buff,  \* the lines in its stdout buffer
  printed       \* how often each line has been written

dirVars == <<parent, home, mounted, broken, terminal, walker, entries, stdout_buff, printed>>
treeVars == <<parent, home, mounted, broken, terminal>>

Dir == 0..DirCount

DirInit ==
  /\ parent = [d \in Dir |-> 0]
  /\ home = [f \in WalkFile |-> 0]
  /\ mounted = {} /\ broken = {}
  /\ terminal = FALSE
  /\ walker = [d \in Dir |-> "off"]
  /\ entries = [d \in Dir |-> {}]
  /\ stdout_buff = [d \in Dir |-> {}]
  /\ printed = [f \in WalkFile |-> 0]

\* A directory has a greater number than the one it is in.
DirStart ==
  /\ walker[0] = "off"
  /\ parent' \in {p \in [Dir -> Dir] : p[0] = 0 /\ \A d \in Dir \ {0} : p[d] < d}
  /\ home' \in [WalkFile -> Dir]
  /\ mounted' \in SUBSET Dir
  /\ \A d \in Dir \ {0} : parent'[d] \in mounted' => d \in mounted'
  /\ broken' \in SUBSET Dir
  /\ terminal' \in BOOLEAN
  /\ walker' = [walker EXCEPT ![0] = "open"]
  /\ UNCHANGED <<entries, stdout_buff, printed>>

-----------------------------------------------------------------------------
Subdirectories(d) == {c \in Dir \ {0} : parent[c] = d}
Files(d) == {f \in WalkFile : home[f] = d}

\* Mutant: the child ends by _exit, which leaves the buffer alone.
WrittenNever(d) == printed

\* What has been printed once d's buffer is written out.
Written(d) == [f \in WalkFile |-> printed[f] + (IF f \in stdout_buff[d] THEN 1 ELSE 0)]

Exit(d) ==
  /\ walker' = [walker EXCEPT ![d] = "exited"]
  /\ printed' = Written(d)
  /\ stdout_buff' = [stdout_buff EXCEPT ![d] = {}]

Skip(d) ==
  /\ walker[d] = "open"
  /\ d \in mounted
  /\ Exit(d)
  /\ UNCHANGED <<treeVars, entries>>

Open(d) ==
  /\ walker[d] = "open"
  /\ d \notin mounted
  /\ walker' = [walker EXCEPT ![d] = "walk"]
  /\ entries' = [entries EXCEPT ![d] = [sub : Subdirectories(d)] \cup [file : Files(d)]]
  /\ UNCHANGED <<treeVars, stdout_buff, printed>>

\* Nobody catches the exception of the directory iterator: the process aborts,
\* and its buffer is lost.
Abort(d) ==
  /\ walker[d] \in {"open", "walk"}
  /\ d \in broken \ mounted
  /\ walker' = [walker EXCEPT ![d] = "aborted"]
  /\ stdout_buff' = [stdout_buff EXCEPT ![d] = {}]
  /\ UNCHANGED <<treeVars, entries, printed>>

\* The child begins with a copy of the buffer.  A fork that fails gives -1,
\* which the code takes for the parent's side: the directory is left out.
Fork(d) ==
  \E e \in entries[d] :
    /\ "sub" \in DOMAIN e
    /\ walker[d] = "walk"
    /\ entries' = [entries EXCEPT ![d] = @ \ {e}]
    /\ \/ /\ walker' = [walker EXCEPT ![e.sub] = "open"]
          /\ stdout_buff' = [stdout_buff EXCEPT ![e.sub] = stdout_buff[d]]
       \/ UNCHANGED <<walker, stdout_buff>>
    /\ UNCHANGED <<treeVars, printed>>

\* The line goes into the buffer, which is written out first on a terminal, and
\* when it is full otherwise.
Found(d) ==
  \E e \in entries[d], write \in BOOLEAN :
    /\ "file" \in DOMAIN e
    /\ walker[d] = "walk"
    /\ terminal => write
    /\ entries' = [entries EXCEPT ![d] = @ \ {e}]
    /\ printed' = IF write THEN Written(d) ELSE printed
    /\ stdout_buff' = [stdout_buff EXCEPT ![d] = {e.file} \cup (IF write THEN {} ELSE @)]
    /\ UNCHANGED <<treeVars, walker>>

EndOfDirectory(d) ==
  /\ walker[d] = "walk"
  /\ entries[d] = {}
  /\ Exit(d)
  /\ UNCHANGED <<treeVars, entries>>

-----------------------------------------------------------------------------
Walker(d) ==
  Skip(d) \/ Open(d) \/ Abort(d) \/ Fork(d) \/ Found(d) \/ EndOfDirectory(d)

DirStep == \E d \in Dir : Walker(d)

DirNext == DirStart \/ DirStep

DirSpec == DirInit /\ [][DirNext]_dirVars

-----------------------------------------------------------------------------
(* Properties.                                                             *)

DirTypeOK ==
  /\ parent \in [Dir -> Dir]
  /\ home \in [WalkFile -> Dir]
  /\ mounted \subseteq Dir /\ broken \subseteq Dir
  /\ terminal \in BOOLEAN
  /\ walker \in [Dir -> {"off", "open", "walk", "exited", "aborted"}]
  /\ \A d \in Dir : entries[d] \subseteq [sub : Dir] \cup [file : WalkFile]
  /\ stdout_buff \in [Dir -> SUBSET WalkFile]
  /\ printed \in [WalkFile -> 0..Cardinality(Dir)]

\* d and the directories it lies in.
Above[d \in Dir] == {d} \cup (IF d = 0 THEN {} ELSE Above[parent[d]])

Copied(f) == {d \in Dir : f \in stdout_buff[d]}

Finished == \A d \in Dir : walker[d] \in {"off", "exited", "aborted"}

\* The buffers that fork copies neither lose nor multiply a line at will: only
\* the processes of the file's directory and of those below it may write a line,
\* each at most once, and in the end it has been written if the process that
\* found it has not aborted (main.cpp:20-36).
LinesWritten ==
  \A f \in WalkFile :
    /\ printed[f] + Cardinality(Copied(f)) <=
         Cardinality({d \in Dir : walker[d] # "off" /\ home[f] \in Above[d]})
    /\ Finished /\ walker[home[f]] = "exited" /\ home[f] \notin mounted => printed[f] > 0
=============================================================================
