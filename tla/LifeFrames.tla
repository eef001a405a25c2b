----------------------------- MODULE LifeFrames -----------------------------
(***************************************************************************)
(* What the game of life of cw08 shows, without threads: one generation    *)
(* after the other.  A generation may be incomplete in the cells of one    *)
(* thread, because a thread may miss the notification; the next one is     *)
(* computed from what is shown.                                            *)
(***************************************************************************)
EXTENDS Integers, FiniteSets

CONSTANTS grid_width, grid_height, num_threads

VARIABLES
  shown,   \* the grid on the screen
  drawn    \* how many grids have been drawn so far

vars == <<shown, drawn>>

Cell == 0..(grid_width * grid_height - 1)

Grid == [Cell -> BOOLEAN]

\* Cells a step of a king apart.
Adjacent(c, d) ==
  /\ c # d
  /\ (c \div grid_width) - (d \div grid_width) \in -1..1
  /\ (c % grid_width) - (d % grid_width) \in -1..1

\* Conway's rules.
Generation(g) ==
  [c \in Cell |-> LET n == Cardinality({d \in Cell : Adjacent(c, d) /\ g[d]})
                  IN  n = 3 \/ (n = 2 /\ g[c])]

\* The grids that differ from g at most in the cells of one thread.
AlmostAll(g) ==
  {h \in Grid : \E t \in 0..(num_threads - 1) :
                  \A c \in Cell : h[c] # g[c] => c % num_threads = t}

Init == shown = [c \in Cell |-> FALSE] /\ drawn = 0

Next ==
  /\ drawn' = drawn + 1
  /\ shown' \in IF drawn = 0 THEN Grid ELSE AlmostAll(Generation(shown))

Spec == Init /\ [][Next]_vars
=============================================================================
