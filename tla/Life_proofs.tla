----------------------------- MODULE Life_proofs -----------------------------
(***************************************************************************)
(* Proofs about Life, for any grid, number of threads and number of        *)
(* frames.                                                                 *)
(*                                                                         *)
(* OneLate speaks of threads that are blocked, but a notification is       *)
(* missed earlier: by a thread that has the lock, has found its frame not  *)
(* yet there, and is about to block (Missing).  At most one thread can be  *)
(* there (Lock), and those that missed earlier ones have been told.        *)
(*                                                                         *)
(* Nothing is assumed of main's sleep.  That no thread computes while main *)
(* has the arrays (Alone) follows from what has been seen: it was true at  *)
(* the draw or the screen is Unknown, at the swap or the arrays are.       *)
(*                                                                         *)
(* The refinement rests on it: a thread that has not missed the frame has  *)
(* written the right value into every cell of its share when main draws    *)
(* (DrawnRight).  Right is what the rules of LifeFrames say, which are     *)
(* shown to be the code's (RuleIsGeneration).                              *)
(***************************************************************************)
EXTENDS Life, FiniteSetTheorems, FunctionTheorems, TLAPS

\* The thread that is about to block holds the lock, and nobody else does.
Lock == \A t \in Thread : pc[t] = "park" <=> mtx = t

\* A thread is at most one frame ahead, and computes only what is started.
Pace ==
  /\ \A t \in Thread : frame[t] <= frame_ctr + 1
  /\ \A t \in Thread : pc[t] = "compute" => frame[t] <= frame_ctr
  /\ main = "count" => frame_ctr < MaxFrames

\* t blocks or is going to, although its frame has been announced.
Missing(t) == pc[t] \in {"park", "blocked"} /\ frame[t] <= frame_ctr

OneMissing ==
  main # "notify" => \A t, u \in Thread : Missing(t) /\ Missing(u) => t = u

\* main has the arrays for itself, or they are Unknown.
Alone ==
  \/ main = "swap" /\ screen # Unknown
  \/ main = "count" /\ grids # Unknown
  => ~ Race

IInv ==
  /\ TypeOK
  /\ Lock
  /\ Pace
  /\ OneMissing
  /\ Alone

-----------------------------------------------------------------------------
(* Types.                                                                  *)

\* The rule yields a truth value, whatever it is applied to.
LEMMA RuleType ==
  ASSUME NEW row, NEW col, NEW g
  PROVE  is_alive(row, col, g) \in BOOLEAN
<1> DEFINE count == Cardinality({n \in Neighbours(row, col) : g[grid_width * n[1] + n[2]]})
<1>1. CASE g[row * grid_width + col]
  <2>1. is_alive(row, col, g) = (count \in {2, 3})
    BY <1>1 DEF is_alive
  <2> QED
    BY <2>1
<1>2. CASE ~ g[row * grid_width + col]
  <2>1. is_alive(row, col, g) = (count = 3)
    BY <1>2 DEF is_alive
  <2> QED
    BY <2>1
<1> QED
  BY <1>1, <1>2

\* main draws one array and the threads read the other.
LEMMA TwoGrids ==
  ASSUME TypeOK
  PROVE  /\ foreground \in {"first", "second"} /\ background \in {"first", "second"}
         /\ foreground # background
BY DEF TypeOK

\* Every action keeps the types.
LEMMA TypeStep ==
  ASSUME IInv, [Next]_vars
  PROVE  TypeOK'
<1> USE LifeAssumption DEF IInv, TypeOK, Nobody, mainVars
<1>1. CASE Draw
  <2>1. screen' \in Grid \cup {Unknown}
    <3>1. CASE Race \/ grids = Unknown
      BY <1>1, <3>1 DEF Draw
    <3>2. CASE ~ (Race \/ grids = Unknown)
      BY <1>1, <3>2, TwoGrids DEF Draw, Grids
    <3> QED
      BY <3>1, <3>2
  <2> QED
    BY <1>1, <2>1 DEF Draw
<1>2. CASE Swap
  BY <1>2 DEF Swap
<1>3. CASE CountFrame
  BY <1>3 DEF CountFrame, Pace
<1>4. CASE Notify
  BY <1>4 DEF Notify
<1>5. ASSUME NEW t \in Thread, ThreadStep(t)
      PROVE  TypeOK'
  <2>0. t \in Nat
    BY DEF Thread
  <2>1. CASE PassWait(t)
    BY <2>0, <2>1 DEF PassWait
  <2>2. CASE FailWait(t)
    BY <2>2 DEF FailWait, Hold
  <2>3. CASE Block(t)
    BY <2>3 DEF Block
  <2>4. CASE ComputeCell(t)
    <3> DEFINE alive == is_alive(i[t] \div grid_width, i[t] % grid_width, grids[background])
    <3>1. alive \in BOOLEAN
      BY RuleType
    <3>2. /\ i' = [i EXCEPT ![t] = @ + num_threads]
          /\ UNCHANGED <<main, foreground, background, screen, frame_ctr, mtx, pc, frame>>
      BY <2>4 DEF ComputeCell
    <3>3. grids' \in Grids \cup {Unknown}
      <4>1. CASE grids = Unknown
        BY <2>4, <4>1 DEF ComputeCell
      <4>2. CASE grids # Unknown
        <5>1. grids' = [grids EXCEPT ![foreground] = [@ EXCEPT ![i[t]] = alive]]
          BY <2>4, <4>2 DEF ComputeCell
        <5>2. grids \in Grids
          BY <4>2
        <5> HIDE DEF alive
        <5>3. [grids[foreground] EXCEPT ![i[t]] = alive] \in Grid
          BY <3>1, <5>2, TwoGrids DEF Grids, Grid
        <5> QED
          BY <5>1, <5>2, <5>3, TwoGrids DEF Grids
      <4> QED
        BY <4>1, <4>2
    <3> HIDE DEF alive
    <3>4. i' \in [Thread -> Nat]
      BY <3>2
    <3> QED
      BY <3>2, <3>3, <3>4
  <2>5. CASE EndFrame(t)
    BY <2>5 DEF EndFrame, Pace
  <2> QED
    BY <1>5, <2>1, <2>2, <2>3, <2>4, <2>5 DEF ThreadStep
<1>6. CASE UNCHANGED vars
  BY <1>6 DEF vars
<1> QED
  BY <1>1, <1>2, <1>3, <1>4, <1>5, <1>6 DEF Next, Main, Finished

-----------------------------------------------------------------------------
(* Who blocks, and when.                                                   *)

\* The lock is held from the look at the predicate until the thread blocks.
LEMMA LockStep ==
  ASSUME IInv, [Next]_vars
  PROVE  Lock'
<1> USE LifeAssumption DEF IInv, TypeOK, Lock, Thread, Nobody, mainVars
<1>1. CASE Main
  BY <1>1 DEF Main, Draw, Swap, CountFrame, Notify, Woken
<1>2. ASSUME NEW t \in Thread, ThreadStep(t)
      PROVE  Lock'
  <2>1. CASE PassWait(t)
    BY <2>1 DEF PassWait
  <2>2. CASE FailWait(t)
    BY <2>2 DEF FailWait, Hold
  <2>3. CASE Block(t)
    BY <2>3 DEF Block
  <2>4. CASE ComputeCell(t)
    BY <2>4 DEF ComputeCell
  <2>5. CASE EndFrame(t)
    BY <2>5 DEF EndFrame
  <2> QED
    BY <1>2, <2>1, <2>2, <2>3, <2>4, <2>5 DEF ThreadStep
<1>3. CASE UNCHANGED vars
  BY <1>3 DEF vars
<1> QED
  BY <1>1, <1>2, <1>3 DEF Next, Finished

\* Threads run behind the frames that main starts.
LEMMA PaceStep ==
  ASSUME IInv, [Next]_vars
  PROVE  Pace'
<1> USE LifeAssumption DEF IInv, TypeOK, Pace, mainVars
<1>1. CASE Main
  BY <1>1 DEF Main, Draw, Swap, CountFrame, Notify, Woken
<1>2. ASSUME NEW t \in Thread, ThreadStep(t)
      PROVE  Pace'
  <2>1. CASE PassWait(t)
    BY <2>1 DEF PassWait, Started
  <2>2. CASE FailWait(t) \/ Block(t) \/ ComputeCell(t)
    BY <2>2 DEF FailWait, Block, ComputeCell
  <2>3. CASE EndFrame(t)
    BY <2>3 DEF EndFrame
  <2> QED
    BY <1>2, <2>1, <2>2, <2>3 DEF ThreadStep
<1>3. CASE UNCHANGED vars
  BY <1>3 DEF vars
<1> QED
  BY <1>1, <1>2, <1>3 DEF Next, Finished

\* A thread that is not behind starts nothing until main counts.
LEMMA AloneStep ==
  ASSUME IInv, [Next]_vars
  PROVE  Alone'
<1> USE LifeAssumption DEF IInv, TypeOK, Alone, Race, Behind, mainVars
<1>1. CASE Draw \/ CountFrame \/ Notify
  BY <1>1 DEF Draw, CountFrame, Notify
<1>2. CASE Swap
  BY <1>2 DEF Swap
<1>3. ASSUME NEW t \in Thread, ThreadStep(t)
      PROVE  Alone'
  <2>1. CASE PassWait(t)
    BY <2>1 DEF PassWait, Started
  <2>2. CASE FailWait(t) \/ Block(t)
    BY <2>2 DEF FailWait, Block
  <2>3. CASE ComputeCell(t)
    BY <2>3 DEF ComputeCell
  <2>4. CASE EndFrame(t)
    BY <2>4 DEF EndFrame
  <2> QED
    BY <1>3, <2>1, <2>2, <2>3, <2>4 DEF ThreadStep
<1>4. CASE UNCHANGED vars
  BY <1>4 DEF vars
<1> QED
  BY <1>1, <1>2, <1>3, <1>4 DEF Next, Main, Finished

\* A notification tells everybody but the thread with the lock.
LEMMA OneMissingStep ==
  ASSUME IInv, [Next]_vars
  PROVE  OneMissing'
<1> USE LifeAssumption DEF IInv, TypeOK, OneMissing, mainVars
<1>1. CASE Draw \/ Swap \/ CountFrame
  BY <1>1 DEF Draw, Swap, CountFrame, Missing
<1>2. CASE Notify
  <2>1. ASSUME NEW t \in Thread, Missing(t)'
        PROVE  mtx = t
    BY <1>2, <2>1 DEF Notify, Woken, Missing, Lock
  <2> QED
    BY <2>1
<1>3. ASSUME NEW t \in Thread, ThreadStep(t)
      PROVE  OneMissing'
  <2>1. ASSUME NEW u \in Thread, Missing(u)'
        PROVE  Missing(u)
    <3>1. CASE FailWait(t)
      BY <2>1, <3>1 DEF FailWait, Started, Missing
    <3>2. CASE PassWait(t) \/ Block(t) \/ ComputeCell(t) \/ EndFrame(t)
      BY <2>1, <3>2 DEF PassWait, Block, ComputeCell, EndFrame, Missing
    <3> QED
      BY <1>3, <3>1, <3>2 DEF ThreadStep
  <2>2. main' = main /\ frame_ctr' = frame_ctr
    BY <1>3 DEF ThreadStep, PassWait, FailWait, Block, ComputeCell, EndFrame
  <2> QED
    BY <2>1, <2>2
<1>4. CASE UNCHANGED vars
  BY <1>4 DEF vars, Missing
<1> QED
  BY <1>1, <1>2, <1>3, <1>4 DEF Next, Main, Finished

-----------------------------------------------------------------------------
(* The invariant, and the properties of it.                                *)

\* The invariant is inductive.
THEOREM InductiveInvariant == Spec => []IInv
<1>1. ASSUME Init
      PROVE  IInv
  BY <1>1, LifeAssumption
     DEF Init, IInv, TypeOK, Lock, Pace, OneMissing, Missing, Alone, Thread, Nobody, Grid
<1>2. ASSUME IInv, [Next]_vars
      PROVE  IInv'
  BY <1>2, TypeStep, LockStep, PaceStep, OneMissingStep, AloneStep DEF IInv
<1> QED
  BY <1>1, <1>2, PTL DEF Spec

\* Types are kept; no thread runs ahead of main by more than a frame.
THEOREM TypeCorrect == Spec => []TypeOK
<1>1. IInv => TypeOK
  BY DEF IInv
<1> QED
  BY <1>1, InductiveInvariant, PTL

\* However many threads there are and however slow, one at most has missed a
\* notification (threaded_update.cpp:7-30).
THEOREM OneLateHolds == Spec => []OneLate
<1>1. ASSUME IInv
      PROVE  OneLate
  <2>1. \A t \in Thread : Late(t) => Missing(t) /\ main # "notify"
    BY DEF Late, Missing
  <2> QED
    BY <1>1, <2>1 DEF IInv, OneMissing, OneLate
<1> QED
  BY <1>1, InductiveInvariant, PTL

-----------------------------------------------------------------------------
(***************************************************************************)
(* What is drawn.                                                          *)
(*                                                                         *)
(* First the numbers: a cell is a row and a column, and every cell is in   *)
(* the share of one thread.                                                *)
(***************************************************************************)

LEMMA DivMod ==
  ASSUME NEW w \in Nat \ {0}, NEW d \in Nat
  PROVE  /\ d \div w \in Nat /\ d % w \in 0..(w - 1)
         /\ d = w * (d \div w) + (d % w)
OBVIOUS

\* A row and a column give one cell, from which they can be read again.
LEMMA CellOf ==
  ASSUME NEW row \in 0..(grid_height - 1), NEW col \in 0..(grid_width - 1)
  PROVE  /\ grid_width * row + col \in Cell
         /\ (grid_width * row + col) \div grid_width = row
         /\ (grid_width * row + col) % grid_width = col
<1> DEFINE w == grid_width
           h == grid_height
<1>1. w \in Nat \ {0} /\ h \in Nat \ {0} /\ Cell = 0..(w * h - 1)
  BY LifeAssumption DEF Cell, grid_size
<1> HIDE DEF w, h
<1>2. row \in 0..(h - 1) /\ col \in 0..(w - 1)
  BY DEF w, h
<1>3. w * row + col \in 0..(w * h - 1)
  BY <1>1, <1>2
<1>4. (w * row + col) \div w = row /\ (w * row + col) % w = col
  BY <1>1, <1>2
<1> QED
  BY <1>1, <1>3, <1>4 DEF w

\* Every cell has a row and a column.
LEMMA RowAndColumn ==
  ASSUME NEW c \in Cell
  PROVE  /\ c \in Nat
         /\ c \div grid_width \in 0..(grid_height - 1) /\ c % grid_width \in 0..(grid_width - 1)
         /\ c = grid_width * (c \div grid_width) + (c % grid_width)
<1> DEFINE w == grid_width
           h == grid_height
           q == c \div w
           r == c % w
<1>1. w \in Nat \ {0} /\ h \in Nat \ {0} /\ c \in 0..(w * h - 1)
  BY LifeAssumption DEF Cell, grid_size
<1>2. c \in Nat
  BY <1>1
<1>3. q \in Nat /\ r \in 0..(w - 1) /\ c = w * q + r
  <2> HIDE DEF w
  <2> QED
    BY <1>1, <1>2, DivMod
<1>4. q \in 0..(h - 1)
  <2> HIDE DEF w, h, q, r
  <2>1. w * q < w * h
    BY <1>1, <1>3
  <2> QED
    BY <1>1, <1>3, <2>1
<1> QED
  BY <1>2, <1>3, <1>4

\* Of as many cells as there are threads, one is in a thread's share.
LEMMA NextOwnCell ==
  ASSUME NEW n \in Nat \ {0}, NEW t \in 0..(n - 1), NEW a \in Nat, NEW c \in Nat,
         a % n = t, c % n = t, c < a + n, ~ (c < a)
  PROVE  c = a
<1> DEFINE q == a \div n
           p == c \div n
<1>1. q \in Nat /\ p \in Nat /\ a = n * q + t /\ c = n * p + t
  BY DivMod
<1> HIDE DEF q, p
<1>2. n * q <= n * p /\ n * p < n * q + n /\ n * q + n = n * (q + 1)
  BY <1>1
<1>3. p = q
  BY <1>1, <1>2
<1> QED
  BY <1>1, <1>3

\* A step by the number of threads leads to the next cell of the share.
LEMMA StepOn ==
  ASSUME NEW n \in Nat \ {0}, NEW a \in Nat
  PROVE  (a + n) % n = a % n
<1> DEFINE q == a \div n
           t == a % n
<1>1. q \in Nat /\ t \in 0..(n - 1) /\ a = n * q + t
  BY DivMod
<1> HIDE DEF q, t
<1>2. a + n = n * (q + 1) + t /\ (n * (q + 1) + t) % n = t
  BY <1>1
<1> QED
  BY <1>2 DEF t

\* The two sets have as many elements, if a one-to-one function leads from one
\* onto the other.
LEMMA SameNumber ==
  ASSUME NEW S, NEW T, IsFiniteSet(T), NEW f \in [S -> T],
         \A x, y \in S : f[x] = f[y] => x = y,
         \A y \in T : \E x \in S : f[x] = y
  PROVE  Cardinality(S) = Cardinality(T)
<1>1. f \in Bijection(S, T)
  BY DEF Bijection, Injection, Surjection, IsInjective
<1>2. ExistsBijection(S, T)
  BY <1>1 DEF ExistsBijection
<1>3. IsFiniteSet(S)
  BY <1>2, FS_Bijection, Fun_ExistsBijSymmetric
<1> QED
  BY <1>2, <1>3, FS_Bijection

\* LifeFrames counts as Life does.
LEMMA FramesCount ==
  \A S : Frames!Cardinality(S) = Cardinality(S)
BY DEF Frames!Cardinality, Cardinality

\* The code's rule, on rows and columns, is the rule of LifeFrames
\* (grid.c:54-88).
LEMMA RuleIsGeneration ==
  ASSUME NEW g \in Grid, NEW c \in Cell
  PROVE  is_alive(c \div grid_width, c % grid_width, g) = Frames!Generation(g)[c]
<1> DEFINE row == c \div grid_width
           col == c % grid_width
           A == {n \in Neighbours(row, col) : g[grid_width * n[1] + n[2]]}
           B == {d \in Cell : Frames!Adjacent(c, d) /\ g[d]}
           f == [n \in A |-> grid_width * n[1] + n[2]]
<1>1. /\ c \in Nat /\ row \in 0..(grid_height - 1) /\ col \in 0..(grid_width - 1)
      /\ c = grid_width * row + col
  BY RowAndColumn
<1>2. ASSUME NEW n \in A
      PROVE  /\ n = <<n[1], n[2]>> /\ n[1] \in 0..(grid_height - 1) /\ n[2] \in 0..(grid_width - 1)
             /\ grid_width * n[1] + n[2] \in B
             /\ (grid_width * n[1] + n[2]) \div grid_width = n[1]
             /\ (grid_width * n[1] + n[2]) % grid_width = n[2]
  <2> DEFINE d == grid_width * n[1] + n[2]
  <2>1. /\ n \in ((row - 1)..(row + 1)) \X ((col - 1)..(col + 1)) /\ n # <<row, col>>
        /\ n[1] \in 0..(grid_height - 1) /\ n[2] \in 0..(grid_width - 1) /\ g[d]
    BY <1>2 DEF Neighbours
  <2>2. /\ n = <<n[1], n[2]>>
        /\ n[1] \in (row - 1)..(row + 1) /\ n[2] \in (col - 1)..(col + 1)
    BY <2>1
  <2>3. d \in Cell /\ d \div grid_width = n[1] /\ d % grid_width = n[2]
    BY <2>1, CellOf
  <2>4. c # d
    BY <2>1, <2>2, <2>3
  <2> HIDE DEF d, row, col
  <2>5. row - n[1] \in -1..1 /\ col - n[2] \in -1..1
    BY <1>1, <2>1, <2>2
  <2>6. Frames!Adjacent(c, d)
    BY <2>3, <2>4, <2>5 DEF Frames!Adjacent, row, col
  <2> QED
    BY <2>1, <2>2, <2>3, <2>6 DEF d
<1>3. ASSUME NEW d \in B
      PROVE  <<d \div grid_width, d % grid_width>> \in A
             /\ d = grid_width * (d \div grid_width) + (d % grid_width)
  <2> DEFINE r == d \div grid_width
             k == d % grid_width
  <2>1. d \in Cell /\ g[d] /\ c # d /\ row - r \in -1..1 /\ col - k \in -1..1
    BY <1>3 DEF Frames!Adjacent
  <2>2. /\ r \in 0..(grid_height - 1) /\ k \in 0..(grid_width - 1)
        /\ d = grid_width * r + k
    BY <2>1, RowAndColumn
  <2> HIDE DEF r, k, row, col
  <2>3. r \in (row - 1)..(row + 1) /\ k \in (col - 1)..(col + 1)
    BY <1>1, <2>1, <2>2
  <2>4. <<r, k>> # <<row, col>>
    BY <1>1, <2>1, <2>2
  <2>5. <<r, k>> \in A
    BY <2>1, <2>2, <2>3, <2>4 DEF Neighbours
  <2> QED
    BY <2>2, <2>5 DEF r, k
<1>4. f \in [A -> B]
  BY <1>2
<1>5. \A m, n \in A : f[m] = f[n] => m = n
  <2> SUFFICES ASSUME NEW m \in A, NEW n \in A, f[m] = f[n]
               PROVE  m = n
    OBVIOUS
  <2>1. m[1] = n[1] /\ m[2] = n[2]
    BY <1>2
  <2> QED
    BY <1>2, <2>1
<1>6. \A d \in B : \E n \in A : f[n] = d
  <2> SUFFICES ASSUME NEW d \in B
               PROVE  \E n \in A : f[n] = d
    OBVIOUS
  <2>1. f[<<d \div grid_width, d % grid_width>>] = d
    BY <1>3
  <2> QED
    BY <1>3, <2>1
<1>7. IsFiniteSet(B)
  <2>1. IsFiniteSet(Cell)
    BY LifeAssumption, FS_Interval DEF Cell, grid_size
  <2> QED
    BY <2>1, FS_Subset
<1>8. Cardinality(A) = Cardinality(B)
  <2> HIDE DEF A, B, f
  <2> QED
    BY <1>4, <1>5, <1>6, <1>7, SameNumber
<1>9. is_alive(row, col, g) = IF g[c] THEN Cardinality(A) \in {2, 3} ELSE Cardinality(A) = 3
  <2>1. row * grid_width + col = c
    BY <1>1, LifeAssumption
  <2> QED
    BY <2>1 DEF is_alive
<1>10. Frames!Generation(g)[c] = (Cardinality(B) = 3 \/ (Cardinality(B) = 2 /\ g[c]))
  <2>1. c \in Frames!Cell /\ Frames!Cell = Cell
    BY DEF Frames!Cell, Cell, grid_size
  <2> QED
    BY <2>1, FramesCount DEF Frames!Generation
<1> HIDE DEF A, B, row, col
<1>11. g[c] \in BOOLEAN
  BY DEF Grid
<1> QED
  BY <1>8, <1>9, <1>10, <1>11 DEF row, col

-----------------------------------------------------------------------------
(***************************************************************************)
(* What the arrays hold while there is no race: the screen shows what the  *)
(* threads read, or have just written, and what a thread has written of    *)
(* its share is right, whichever frame it takes it for.                    *)
(***************************************************************************)

NextGrid == Frames!Generation(grids[background])

OnScreen ==
  screen # Unknown /\ (main # "draw" \/ frame_ctr > 0) =>
    grids # Unknown /\ screen = grids[IF main = "swap" THEN foreground ELSE background]

\* Cell c belongs to t's share.
AtOwnCell == \A t \in Thread : pc[t] = "compute" => i[t] % num_threads = t

\* t has computed cell c of the current frame.
Computed(t, c) ==
  /\ c % num_threads = t
  /\ \/ frame[t] = frame_ctr + 1 /\ frame_ctr > 0
     \/ pc[t] = "compute" /\ c < i[t]

SharesRight ==
  main \in {"draw", "notify"} /\ grids # Unknown =>
    \A t \in Thread, c \in Cell : Computed(t, c) => grids[foreground][c] = NextGrid[c]

DrawnRight == OnScreen /\ AtOwnCell /\ SharesRight

\* Nobody computes while main has the arrays for itself.
LEMMA NobodyComputes ==
  ASSUME IInv, NEW t \in Thread, pc[t] = "compute"
  PROVE  /\ main = "swap" => screen = Unknown
         /\ main = "count" => grids = Unknown
BY DEF IInv, Alone, Race, Behind

\* The cell that a thread computes becomes what it has to be; all others stay.
LEMMA CellWritten ==
  ASSUME IInv, NEW t \in Thread, ComputeCell(t), grids # Unknown
  PROVE  /\ grids' # Unknown
         /\ grids'[background] = grids[background]
         /\ i[t] \in Cell
         /\ grids'[foreground] \in Grid
         /\ \A c \in Cell : grids'[foreground][c] = IF c = i[t] THEN NextGrid[c]
                                                               ELSE grids[foreground][c]
<1>1. /\ grids \in [{"first", "second"} -> Grid] /\ i[t] \in Nat /\ grid_size \in Nat
      /\ foreground \in {"first", "second"} /\ background \in {"first", "second"}
      /\ foreground # background
  <2>1. grid_size \in Nat
    BY LifeAssumption DEF grid_size
  <2>2. grids \in [{"first", "second"} -> Grid] /\ i[t] \in Nat
    BY DEF IInv, TypeOK, Grids
  <2> QED
    BY <2>1, <2>2, TwoGrids DEF IInv
<1>2. i[t] \in Cell
  BY <1>1 DEF ComputeCell, Cell
<1>3. is_alive(i[t] \div grid_width, i[t] % grid_width, grids[background]) = NextGrid[i[t]]
  BY <1>1, <1>2, RuleIsGeneration DEF NextGrid
<1>4. grids' = [grids EXCEPT ![foreground] = [grids[foreground] EXCEPT ![i[t]] = NextGrid[i[t]]]]
  BY <1>3 DEF ComputeCell
<1>5. NextGrid[i[t]] \in BOOLEAN
  BY <1>3, RuleType
<1> HIDE DEF NextGrid
<1>7. grids' # Unknown
  <2>1. [grids[foreground] EXCEPT ![i[t]] = NextGrid[i[t]]] \in Grid
    BY <1>1, <1>5 DEF Grid
  <2>2. grids' \in Grids
    BY <1>1, <1>4, <2>1 DEF Grids
  <2> QED
    BY <2>2, UnknownAssumption
<1>6. /\ grids'[background] = grids[background]
      /\ grids'[foreground] = [grids[foreground] EXCEPT ![i[t]] = NextGrid[i[t]]]
  BY <1>1, <1>4
<1> QED
  BY <1>1, <1>2, <1>5, <1>6, <1>7 DEF Grid

LEMMA DrawnInit ==
  ASSUME Init
  PROVE  DrawnRight
BY DEF Init, DrawnRight, OnScreen, AtOwnCell, SharesRight, Computed

\* main hands the arrays over when nobody uses them, or they are Unknown.
LEMMA MainKeepsDrawn ==
  ASSUME IInv, DrawnRight, Main
  PROVE  DrawnRight'
<1> USE DEF DrawnRight
<1>1. CASE Draw
  BY <1>1 DEF Draw, OnScreen, AtOwnCell, SharesRight
<1>2. CASE Swap
  <2>1. screen # Unknown => ~ Race
    BY <1>2 DEF Swap, IInv, Alone
  <2> QED
    BY <1>2, <2>1 DEF Swap, OnScreen, AtOwnCell, SharesRight
<1>3. CASE CountFrame
  <2>1. OnScreen' /\ AtOwnCell'
    BY <1>3 DEF CountFrame, OnScreen, AtOwnCell
  <2>2. ASSUME NEW t \in Thread, NEW c \in Cell, Computed(t, c)', grids # Unknown
        PROVE  FALSE
    <3>1. frame[t] <= frame_ctr + 1 /\ frame_ctr \in Nat
      BY DEF IInv, Pace, TypeOK
    <3>2. frame_ctr' = frame_ctr + 1 /\ frame' = frame /\ pc' = pc /\ frame[t] \in Nat
      BY <1>3 DEF CountFrame, IInv, TypeOK
    <3>3. pc[t] # "compute"
      BY <1>3, <2>2, NobodyComputes DEF CountFrame
    <3> QED
      BY <2>2, <3>1, <3>2, <3>3 DEF Computed
  <2>3. grids' = grids
    BY <1>3 DEF CountFrame
  <2> QED
    BY <2>1, <2>2, <2>3 DEF SharesRight
<1>4. CASE Notify
  <2>1. UNCHANGED <<grids, foreground, background, screen, frame_ctr, frame, i>>
        /\ main = "notify" /\ main' = "draw"
        /\ \A t \in Thread : pc'[t] = "compute" <=> pc[t] = "compute"
    BY <1>4 DEF Notify, Woken
  <2>2. OnScreen' /\ AtOwnCell'
    BY <2>1 DEF OnScreen, AtOwnCell
  <2>3. \A t \in Thread, c \in Cell : Computed(t, c)' <=> Computed(t, c)
    BY <2>1 DEF Computed
  <2>4. NextGrid' = NextGrid
    BY <2>1 DEF NextGrid, Frames!Generation, Frames!Cell, Frames!Adjacent
  <2> QED
    BY <2>1, <2>2, <2>3, <2>4 DEF SharesRight
<1> QED
  BY <1>1, <1>2, <1>3, <1>4 DEF Main

\* A thread writes what is right, and ends its frame only behind its last cell.
LEMMA ThreadKeepsDrawn ==
  ASSUME IInv, DrawnRight, NEW t \in Thread, ThreadStep(t)
  PROVE  DrawnRight'
<1>1. /\ UNCHANGED <<main, foreground, background, screen, frame_ctr>>
      /\ t \in Nat /\ t < num_threads /\ num_threads \in Nat \ {0}
      /\ pc \in [Thread -> {"lock", "park", "blocked", "compute"}]
      /\ frame \in [Thread -> 1..(MaxFrames + 1)] /\ i \in [Thread -> Nat]
      /\ frame_ctr \in Nat /\ MaxFrames \in Nat /\ grid_size \in Nat
  <2>1. UNCHANGED <<main, foreground, background, screen, frame_ctr>>
    BY DEF ThreadStep, PassWait, FailWait, Block, ComputeCell, EndFrame, mainVars
  <2>2. num_threads \in Nat \ {0} /\ MaxFrames \in Nat /\ grid_size \in Nat
    BY LifeAssumption DEF grid_size
  <2>3. /\ pc \in [Thread -> {"lock", "park", "blocked", "compute"}]
        /\ frame \in [Thread -> 1..(MaxFrames + 1)] /\ i \in [Thread -> Nat]
        /\ frame_ctr \in 0..MaxFrames
    BY DEF IInv, TypeOK
  <2>4. t \in Nat /\ t < num_threads /\ frame_ctr \in Nat
    BY <2>2, <2>3 DEF Thread
  <2> QED
    BY <2>1, <2>2, <2>3, <2>4
<1>2. CASE ComputeCell(t) /\ grids = Unknown
  <2>1. grids' = Unknown /\ pc' = pc /\ i' = [i EXCEPT ![t] = @ + num_threads] /\ pc[t] = "compute"
    BY <1>2 DEF ComputeCell
  <2>2. OnScreen' /\ SharesRight'
    BY <1>1, <1>2, <2>1 DEF DrawnRight, OnScreen, SharesRight
  <2>3. (i[t] + num_threads) % num_threads = t
    <3>1. i[t] % num_threads = t /\ i[t] \in Nat
      BY <1>1, <2>1 DEF DrawnRight, AtOwnCell
    <3> QED
      BY <1>1, <3>1, StepOn
  <2>4. AtOwnCell'
    BY <1>1, <2>1, <2>3 DEF DrawnRight, AtOwnCell
  <2> QED
    BY <2>2, <2>4 DEF DrawnRight
<1>4. CASE ComputeCell(t) /\ grids # Unknown
  <2>1. /\ pc' = pc /\ frame' = frame /\ i' = [i EXCEPT ![t] = @ + num_threads]
        /\ pc[t] = "compute"
    BY <1>4 DEF ComputeCell
  <2>2. main \in {"draw", "notify"} \/ screen = Unknown
    BY <1>4, <2>1, NobodyComputes DEF IInv, TypeOK
  <2>3. /\ grids' # Unknown /\ grids'[background] = grids[background]
        /\ \A c \in Cell : grids'[foreground][c] = IF c = i[t] THEN NextGrid[c]
                                                              ELSE grids[foreground][c]
    BY <1>4, CellWritten
  <2>4. NextGrid' = NextGrid
    BY <1>1, <2>3 DEF NextGrid, Frames!Generation, Frames!Cell, Frames!Adjacent
  <2>5. OnScreen'
    BY <1>1, <2>2, <2>3 DEF DrawnRight, OnScreen
  <2>6. AtOwnCell'
    <3>1. i[t] % num_threads = t /\ i[t] \in Nat
      BY <1>1, <2>1 DEF DrawnRight, AtOwnCell
    <3>2. (i[t] + num_threads) % num_threads = t
      BY <1>1, <3>1, StepOn
    <3> QED
      BY <1>1, <2>1, <3>2 DEF DrawnRight, AtOwnCell
  <2>7. ASSUME NEW u \in Thread, NEW c \in Cell, Computed(u, c)'
        PROVE  Computed(u, c) \/ c = i[t]
    <3>1. CASE u # t
      BY <1>1, <2>1, <2>7, <3>1 DEF Computed
    <3>2. CASE u = t
      <4>1. c % num_threads = t /\ c \in Nat /\ i[t] % num_threads = t /\ i[t] \in Nat
        BY <1>1, <2>1, <2>7, <3>2, RowAndColumn DEF Computed, DrawnRight, AtOwnCell
      <4>2. c < i[t] + num_threads => c < i[t] \/ c = i[t]
        BY <1>1, <4>1, NextOwnCell
      <4> QED
        BY <1>1, <2>1, <2>7, <3>2, <4>1, <4>2 DEF Computed
    <3> QED
      BY <3>1, <3>2
  <2>8. SharesRight'
    BY <1>1, <1>4, <2>3, <2>4, <2>7 DEF DrawnRight, SharesRight
  <2> QED
    BY <2>5, <2>6, <2>8 DEF DrawnRight
<1>3. CASE PassWait(t) \/ FailWait(t) \/ Block(t) \/ EndFrame(t)
  <2>1. grids' = grids
    BY <1>3 DEF PassWait, FailWait, Block, EndFrame
  <2>2. NextGrid' = NextGrid
    BY <1>1, <2>1 DEF NextGrid, Frames!Generation, Frames!Cell, Frames!Adjacent
  <2>3. OnScreen'
    BY <1>1, <2>1 DEF DrawnRight, OnScreen
  <2>4. AtOwnCell'
    <3>1. t % num_threads = t
      BY <1>1
    <3> QED
      BY <1>1, <1>3, <3>1 DEF DrawnRight, AtOwnCell, PassWait, FailWait, Block, EndFrame
  <2>5. ASSUME NEW u \in Thread, NEW c \in Cell, Computed(u, c)'
        PROVE  Computed(u, c)
    <3>1. CASE FailWait(t) \/ Block(t)
      BY <1>1, <2>5, <3>1 DEF FailWait, Block, Computed
    <3>2. CASE PassWait(t)
      <4>1. /\ pc' = [pc EXCEPT ![t] = "compute"] /\ i' = [i EXCEPT ![t] = t]
            /\ frame' = frame
        BY <3>2 DEF PassWait
      <4>2. c % num_threads = u /\ c \in Nat
        BY <2>5, RowAndColumn DEF Computed
      <4>3. u = t => ~ (c < t)
        BY <1>1, <4>2
      <4> QED
        BY <1>1, <2>5, <4>1, <4>3 DEF Computed
    <3>3. CASE EndFrame(t)
      <4>1. /\ pc' = [pc EXCEPT ![t] = "lock"] /\ frame' = [frame EXCEPT ![t] = @ + 1]
            /\ i' = [i EXCEPT ![t] = 0] /\ pc[t] = "compute" /\ i[t] >= grid_size
        BY <3>3 DEF EndFrame
      <4>2. u = t => c < i[t]
        BY <1>1, <4>1 DEF Cell
      <4> QED
        BY <1>1, <2>5, <4>1, <4>2 DEF Computed
    <3> QED
      BY <1>3, <3>1, <3>2, <3>3
  <2>6. SharesRight'
    BY <1>1, <2>1, <2>2, <2>5 DEF DrawnRight, SharesRight
  <2> QED
    BY <2>3, <2>4, <2>6 DEF DrawnRight
<1> QED
  BY <1>2, <1>3, <1>4 DEF ThreadStep

\* What is drawn without a race is right, for every grid and number of threads.
THEOREM DrawnInvariant == Spec => []DrawnRight
<1>1. ASSUME IInv, DrawnRight, [Next]_vars
      PROVE  DrawnRight'
  <2>1. CASE UNCHANGED vars
    <3>1. NextGrid' = NextGrid
      BY <2>1 DEF vars, NextGrid, Frames!Generation, Frames!Cell, Frames!Adjacent
    <3>2. OnScreen' /\ AtOwnCell'
      BY <1>1, <2>1 DEF vars, DrawnRight, OnScreen, AtOwnCell
    <3>3. SharesRight'
      BY <1>1, <2>1, <3>1 DEF vars, DrawnRight, SharesRight, Computed
    <3> QED
      BY <3>2, <3>3 DEF DrawnRight
  <2> QED
    BY <1>1, <2>1, MainKeepsDrawn, ThreadKeepsDrawn DEF Next, Finished
<1> QED
  BY <1>1, DrawnInit, InductiveInvariant, PTL DEF Spec

-----------------------------------------------------------------------------
(* The refinement: Draw is the step of LifeFrames, all others stutter.     *)

\* Only the cells of a thread that has missed the frame are wrong.
LEMMA DrawnIsGeneration ==
  ASSUME IInv, DrawnRight, Draw, frame_ctr > 0, screen # Unknown, screen' # Unknown
  PROVE  screen' \in Frames!AlmostAll(Frames!Generation(screen))
<1>1. /\ main = "draw" /\ screen' = grids[foreground] /\ screen = grids[background]
      /\ grids # Unknown /\ ~ Race
  BY DEF Draw, DrawnRight, OnScreen
<1>2. NextGrid = Frames!Generation(screen)
  BY <1>1 DEF NextGrid
<1>3. /\ NextGrid = [c \in Cell |-> NextGrid[c]]
      /\ screen' \in Grid /\ screen' = [c \in Cell |-> screen'[c]]
  <2>1. NextGrid = [c \in Cell |-> NextGrid[c]]
    BY DEF NextGrid, Frames!Generation, Frames!Cell, Cell, grid_size
  <2>2. screen' \in Grid
    BY <1>1, TwoGrids DEF IInv, TypeOK, Grids
  <2> QED
    BY <2>1, <2>2 DEF Grid
<1>4. \A c \in Cell : c % num_threads \in Thread /\ c \in Nat
  BY RowAndColumn, DivMod, LifeAssumption DEF Thread
<1>5. ASSUME NEW t \in Thread, NEW c \in Cell, c % num_threads = t, ~ Missing(t)
      PROVE  screen'[c] = NextGrid[c]
  <2>1. frame[t] = frame_ctr + 1
    <3>1. frame[t] \in Nat /\ frame_ctr \in Nat
      BY DEF IInv, TypeOK
    <3>2. ~ (frame[t] <= frame_ctr) /\ frame[t] <= frame_ctr + 1
      BY <1>1, <1>5 DEF Missing, IInv, Pace, TypeOK, Race, Behind
    <3> QED
      BY <3>1, <3>2
  <2>2. Computed(t, c)
    BY <1>5, <2>1 DEF Computed
  <2> QED
    BY <1>1, <2>2 DEF DrawnRight, SharesRight
<1>6. PICK t \in Thread : \A u \in Thread : Missing(u) => u = t
  <2>1. CASE \E u \in Thread : Missing(u)
    BY <1>1, <2>1 DEF IInv, OneMissing
  <2>2. CASE \A u \in Thread : ~ Missing(u)
    <3>1. 0 \in Thread
      BY LifeAssumption DEF Thread
    <3> QED
      BY <2>2, <3>1
  <2> QED
    BY <2>1, <2>2
<1>7. \A c \in Cell : screen'[c] # NextGrid[c] => c % num_threads = t
  BY <1>4, <1>5, <1>6
<1>8. screen' \in Frames!Grid /\ Frames!Cell = Cell /\ t \in 0..(num_threads - 1)
  BY <1>3 DEF Frames!Grid, Frames!Cell, Cell, Grid, grid_size, Thread
<1>9. screen' \in Frames!AlmostAll(NextGrid)
  BY <1>7, <1>8 DEF Frames!AlmostAll
<1> QED
  BY <1>2, <1>9

LEMMA FramesStep ==
  ASSUME IInv, DrawnRight, [Next]_vars
  PROVE  [(Unknown \in {screen, screen'}) \/ Frames!Next]_ShowVars
<1> USE DEF ShowVars
<1>1. CASE Draw
  <2>1. /\ main = "draw" /\ main' = "swap" /\ frame_ctr' = frame_ctr
        /\ frame_ctr \in Nat
    BY <1>1 DEF Draw, IInv, TypeOK
  <2>2. CASE screen # Unknown /\ screen' # Unknown
    <3>1. screen' \in Frames!Grid
      <4>1. screen' \in Grid
        BY <1>1, <2>2, TwoGrids DEF Draw, IInv, TypeOK, Grids
      <4> QED
        BY <4>1 DEF Frames!Grid, Frames!Cell, Cell, Grid, grid_size
    <3>2. frame_ctr # 0 => screen' \in Frames!AlmostAll(Frames!Generation(screen))
      BY <1>1, <2>1, <2>2, DrawnIsGeneration
    <3> QED
      BY <2>1, <3>1, <3>2 DEF Frames!Next
  <2> QED
    BY <2>2
<1>2. CASE Swap \/ CountFrame \/ Notify
  BY <1>2 DEF Swap, CountFrame, Notify, Frames!vars
<1>3. CASE \E t \in Thread : ThreadStep(t)
  BY <1>3 DEF ThreadStep, PassWait, FailWait, Block, ComputeCell, EndFrame, mainVars, Frames!vars
<1>4. CASE UNCHANGED vars
  BY <1>4 DEF vars, Frames!vars
<1> QED
  BY <1>1, <1>2, <1>3, <1>4 DEF Next, Main, Finished

\* As long as no thread is behind when main draws, the screen shows one
\* generation after the other, for every grid and every number of threads, but
\* for the share of one thread each time (life.cpp:33-40,
\* threaded_update.cpp:7-30).
THEOREM ImplementsFramesHolds == Spec => ImplementsFrames
<1>1. Init => Frames!Init
  BY DEF Init, Frames!Init, Frames!Cell, Cell, grid_size
<1> QED
  BY <1>1, FramesStep, InductiveInvariant, DrawnInvariant, PTL DEF Spec, ImplementsFrames
=============================================================================
