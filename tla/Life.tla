-------------------------------- MODULE Life --------------------------------
(***************************************************************************)
(* The game of life of cw08: main draws a frame, starts the next one and   *)
(* sleeps for half a second; the threads of a ThreadedUpdater compute the  *)
(* cells of the frame.  next_frame_data and last_frame_data are references *)
(* to main's foreground and background, so swapping them swaps what main   *)
(* draws.                                                                  *)
(*                                                                         *)
(* nextFrame takes no lock: a thread that has found its frame not yet      *)
(* there, and has not yet blocked, misses the notification.  Nothing makes *)
(* main wait for the threads: its sleep only takes time, so in the model   *)
(* main draws and swaps whenever it likes.                                 *)
(*                                                                         *)
(* To draw or to swap while a thread is behind is a data race on the cells *)
(* and on the two pointers.  What is drawn then, and what the arrays hold  *)
(* from such a swap on, is Unknown.  As long as there is no race the swap  *)
(* and the computation of a cell are atomic.  Spurious wake-ups are left   *)
(* out.                                                                    *)
(***************************************************************************)
EXTENDS Integers, FiniteSets

CONSTANTS
  grid_width, grid_height,   \* 30 and 30 in the code
  num_threads,               \* the program's argument
  MaxFrames,                 \* bound of the model: main starts frames for ever
  Unknown                    \* the outcome of a data race: any cells

ASSUME LifeAssumption ==
  {grid_width, grid_height, num_threads, MaxFrames} \subseteq Nat \ {0}

VARIABLES
  main,         \* what main is about to do
  grids,        \* the two arrays of cells, or Unknown
  foreground,   \* the array main draws: next_frame_data
  background,   \* the array the threads read: last_frame_data
  screen,       \* what the terminal shows
  frame_ctr,    \* the updater's frame_ctr
  mtx,          \* the thread that holds it, or Nobody
  pc,           \* what each thread is about to do
  frame,        \* the frame_ctr of each thread's own loop
  i             \* the cell each thread is at

vars == <<main, grids, foreground, background, screen, frame_ctr, mtx, pc, frame, i>>
mainVars == <<main, foreground, background, screen, frame_ctr>>

grid_size == grid_width * grid_height
Cell   == 0..(grid_size - 1)
Grid   == [Cell -> BOOLEAN]
Thread == 0..(num_threads - 1)
Nobody == -1
Grids  == [{"first", "second"} -> Grid]

ASSUME UnknownAssumption == Unknown \notin Grid \cup Grids

\* The foreground is filled at random, the background is what malloc returns.
Init ==
  /\ main = "draw"
  /\ foreground = "first" /\ background = "second"
  /\ grids \in Grids
  /\ screen = [c \in Cell |-> FALSE]
  /\ frame_ctr = 0
  /\ mtx = Nobody
  /\ pc = [t \in Thread |-> "lock"]
  /\ frame = [t \in Thread |-> 1]
  /\ i = [t \in Thread |-> 0]

-----------------------------------------------------------------------------
(* The rules.                                                              *)

\* The offsets -1..1 in both directions, less those that leave the grid.
Neighbours(row, col) ==
  {n \in ((row - 1)..(row + 1)) \X ((col - 1)..(col + 1)) :
     /\ n # <<row, col>>
     /\ n[1] \in 0..(grid_height - 1) /\ n[2] \in 0..(grid_width - 1)}

is_alive(row, col, grid) ==
  LET count == Cardinality({n \in Neighbours(row, col) : grid[grid_width * n[1] + n[2]]})
  IN  IF grid[row * grid_width + col] THEN count \in {2, 3} ELSE count = 3

-----------------------------------------------------------------------------
(* main.                                                                   *)

\* t has still something to do for a frame that main has started, and is not
\* waiting to be told of it.
Behind(t) == pc[t] = "compute" \/ (pc[t] = "lock" /\ frame[t] <= frame_ctr)

Race == \E t \in Thread : Behind(t)

Draw ==
  /\ main = "draw"
  /\ screen' = IF Race \/ grids = Unknown THEN Unknown ELSE grids[foreground]
  /\ main' = "swap"
  /\ UNCHANGED <<grids, foreground, background, frame_ctr, mtx, pc, frame, i>>

Swap ==
  /\ main = "swap"
  /\ frame_ctr < MaxFrames
  /\ foreground' = background /\ background' = foreground
  /\ grids' = IF Race THEN Unknown ELSE grids
  /\ main' = "count"
  /\ UNCHANGED <<screen, frame_ctr, mtx, pc, frame, i>>

CountFrame ==
  /\ main = "count"
  /\ frame_ctr' = frame_ctr + 1
  /\ main' = "notify"
  /\ UNCHANGED <<grids, foreground, background, screen, mtx, pc, frame, i>>

\* Mutant: notify_one.
WokenOne == IF \E t \in Thread : pc[t] = "blocked"
            THEN {CHOOSE t \in Thread : pc[t] = "blocked"} ELSE {}

\* notify_all reaches the threads that are blocked.
Woken == {t \in Thread : pc[t] = "blocked"}

Notify ==
  /\ main = "notify"
  /\ pc' = [t \in Thread |-> IF t \in Woken THEN "lock" ELSE pc[t]]
  /\ main' = "draw"
  /\ UNCHANGED <<grids, foreground, background, screen, frame_ctr, mtx, frame, i>>

-----------------------------------------------------------------------------
(* A thread.                                                               *)

\* Mutant: the loop starts one frame early.
StartedEarly(t) == frame_ctr + 1 >= frame[t]

\* The predicate of the wait.
Started(t) == frame_ctr >= frame[t]

\* The frame is there: the lock is taken and released, the loop begins.
PassWait(t) ==
  /\ pc[t] = "lock" /\ mtx = Nobody
  /\ Started(t)
  /\ pc' = [pc EXCEPT ![t] = "compute"]
  /\ i' = [i EXCEPT ![t] = t]
  /\ UNCHANGED <<mainVars, grids, mtx, frame>>

\* Mutant: the predicate is evaluated without the lock.
HoldNot(t) == UNCHANGED mtx

Hold(t) == mtx' = t

\* It is not: the thread is going to block, with the lock in its hands.
FailWait(t) ==
  /\ pc[t] = "lock" /\ mtx = Nobody
  /\ ~Started(t)
  /\ pc' = [pc EXCEPT ![t] = "park"]
  /\ Hold(t)
  /\ UNCHANGED <<mainVars, grids, frame, i>>

Block(t) ==
  /\ pc[t] = "park"
  /\ pc' = [pc EXCEPT ![t] = "blocked"]
  /\ mtx' = Nobody
  /\ UNCHANGED <<mainVars, grids, frame, i>>

ComputeCell(t) ==
  /\ pc[t] = "compute"
  /\ i[t] < grid_size
  /\ grids' = IF grids = Unknown THEN Unknown
              ELSE [grids EXCEPT ![foreground][i[t]] =
                      is_alive(i[t] \div grid_width, i[t] % grid_width, grids[background])]
  /\ i' = [i EXCEPT ![t] = @ + num_threads]
  /\ UNCHANGED <<mainVars, mtx, pc, frame>>

EndFrame(t) ==
  /\ pc[t] = "compute"
  /\ i[t] >= grid_size
  /\ frame' = [frame EXCEPT ![t] = @ + 1]
  /\ pc' = [pc EXCEPT ![t] = "lock"]
  /\ i' = [i EXCEPT ![t] = 0]   \* the loop's variable is gone
  /\ UNCHANGED <<mainVars, grids, mtx>>

-----------------------------------------------------------------------------
Main == Draw \/ Swap \/ CountFrame \/ Notify

ThreadStep(t) ==
  PassWait(t) \/ FailWait(t) \/ Block(t) \/ ComputeCell(t) \/ EndFrame(t)

\* The model's last frame has been drawn.
Finished == main = "swap" /\ frame_ctr = MaxFrames /\ UNCHANGED vars

Next == Main \/ (\E t \in Thread : ThreadStep(t)) \/ Finished

Spec == Init /\ [][Next]_vars

\* main and the threads are scheduled.  How fast, nobody knows.
FairSpec == Spec /\ WF_vars(Main) /\ \A t \in Thread : WF_vars(ThreadStep(t))

-----------------------------------------------------------------------------
(* Properties.                                                             *)

TypeOK ==
  /\ main \in {"draw", "swap", "count", "notify"}
  /\ grids \in Grids \cup {Unknown}
  /\ {foreground, background} = {"first", "second"}
  /\ screen \in Grid \cup {Unknown}
  /\ frame_ctr \in 0..MaxFrames
  /\ mtx \in Thread \cup {Nobody}
  /\ pc \in [Thread -> {"lock", "park", "blocked", "compute"}]
  /\ frame \in [Thread -> 1..(MaxFrames + 1)]
  /\ i \in [Thread -> Nat]

\* The frame a thread waits for is there, but it has not been told.
Late(t) == pc[t] = "blocked" /\ frame[t] <= frame_ctr /\ main # "notify"

\* However slow the threads are, at no time has more than one of them missed a
\* notification: the one that held the lock when nextFrame notified without it.
\* The next notification reaches it before another can be missed, or finds it
\* with the lock still in its hands (threaded_update.cpp:21-30).
OneLate == \A t, u \in Thread : Late(t) /\ Late(u) => t = u

\* A thread that blocks, whether it waits for the next frame or has missed some,
\* is let go by the next notification, and gets past every frame started so
\* far (threaded_update.cpp:7-13).
ThreadsCatchUp ==
  \A t \in Thread, f \in 0..(MaxFrames - 1) :
    pc[t] = "blocked" /\ frame_ctr = f /\ main # "notify" ~> frame[t] > f + 1

Frames == INSTANCE LifeFrames WITH
  shown <- screen,
  drawn <- IF main \in {"swap", "count"} THEN frame_ctr + 1 ELSE frame_ctr

ShowVars == Frames!vars

\* If no thread is behind when main draws, the screen goes from a generation to
\* the next, up to the cells of one thread: the shares make up the whole grid,
\* and a thread that has missed frames writes what is right when it catches up,
\* although it takes the arrays of a later frame for those of an earlier one
\* (life.cpp:33-40).
ImplementsFrames ==
  Frames!Init /\ [][(Unknown \in {screen, screen'}) \/ Frames!Next]_ShowVars
=============================================================================
