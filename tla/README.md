# Verification of SysOp_2023_DISTAFF

The repository holds the solutions of nine operating-system labs, `cw01` to
`cw09`. Each lab is one or more small C++ programs. There is no code shared
between labs, so each lab is a component of its own. This directory models the
labs that have a state worth a model, checks the models with TLC, and proves most of
their safety properties with TLAPS for every value of the constants.

## 1. Inventory

| Component | State | Operations | How its parts interact | What is hard | What makes it correct |
|---|---|---|---|---|---|
| **cw09** Santa Claus hut | three mutexes, three condition variables, two counters, `waiting_elves_ids`, `wake_santa`, a flag per worker | `waitUntilSantaIsBorn`, `reindeerComeback`, `elfHasProblem`, `santa` | 20 threads share one object | Santa announces his birth, sets flags and notifies without the workers' mutexes; two groups can call at once | counters exact, the right trio freed, no call lost, nobody forgotten |
| **cw07** sleeping barber (System V and POSIX) | ring of ids and its mutex in shared memory, three semaphores | `takePlace`, `releasePlace`, `push`, `peek`, `pop`, `handleClient`, `interrupt_handler` | one process per client | a `std::mutex` between processes, SIGINT that destroys semaphores in use, a ring with no test for "full" | ring = waiting clients, capacity kept, first come first served, whoever is called is served |
| **cw06** chat | registry id -> client, one System V queue per process, `interrupt_flag`s | INIT, STOP, LIST, TO_ONE, TO_ALL, INCOMING, signals | messages selected by type, `kill` | blocking sends of the server, interrupted calls whose result is ignored, ids given out again, entries made up by `operator[]` | ids own their entries, texts in order and not lost, LIST complete, everybody answered |
| **cw08** game of life | two frames, `frame_ctr` | `nextFrame`, `waitForFrame`, `threadMain`, `is_alive` | main and threads share the frames | swap, count and notify without the mutex; no barrier at the end of a frame | from one generation to the next while nobody is behind, and nobody stays behind |
| **cw05/zad2** integral by pipes | a pipe of intervals, a pipe per worker | write intervals, work, sum | pipes between forked processes | inherited pipe ends, full pipes, failed forks | each interval counted once, and an end if the pipes have room |
| **cw05/zad3** integral by a FIFO | a FIFO | exec workers, write result, read n results | FIFO in /tmp | end of file before the last worker opens, SIGPIPE, workers of an earlier run | each result added once |
| **cw05/zad1** popen demo | none | run `fortune` or `cowsay` | pipe | nothing | nothing |
| **cw04/zad3** catcher, sender | `working_mode`, `mode_change_ctr`, `sender_PID` | send mode, handler, acknowledge | `sigqueue` of SIGUSR1, which does not queue | merged signals, lost acknowledgements, `sigsuspend` race | requests and answers match, the mode is acted upon |
| **cw04/zad1** signal flags | handler and mask | `raise` under SA_NODEFER, SA_RESETHAND | signals to itself | depth of nesting | the last raise ends the program |
| **cw03/zad3** directory search | stdout buffers | `processDir`, `fork` | processes | buffers copied by fork, failed forks, children nobody waits for | no line lost, none printed without bound |
| **cw03** fork, exec | none | `fork`, `wait`, `exec` | processes | nothing | nothing |
| **cw02/zad1, zad2** copying | file positions, stream buffers | copy with replacement, copy backwards, checksums | files | last block, a stream not flushed, a write to the wrong file | the output is the input replaced, or reversed |
| **cw02** listings | none | list | files | nothing | nothing |
| **cw01** file statistics | array of pointers with size, heap | `init`, `count`, `show`, `delete`, `destroy` | command loop on one pointer | order of commands, the largest index | one owner per record, order kept, nothing deleted twice |

The hazards of this code, each at its line, are listed in `PROJECT.json`.

## 2. Plan

1. *(done)* `SantaHut`, with `SantaProblem` as its abstract specification: all
   safety properties and the refinement proved.
2. *(done)* `Barber`, with `BarberShop`: all safety properties and the refinement
   proved.
3. *(done)* `Chat`: all safety properties proved.
4. *(done)* `Life`, with `LifeFrames` as its abstract specification: all safety
   properties and the refinement proved.
5. *(done)* the small programs `PipePool`, `FifoSum`, `ModeCatcher`, `DirWalk`,
   `FileData`, `ReverseCopy` and `ReplaceCopy`, checked together as `Labs`; the safety
   properties of each are proved, and that the composition implements all of them.
6. *(open)* an abstract chat (texts in order between authors and readers) for `Chat`
   to implement.

No module declares a RECURSIVE operator, so that each can be proved about.

## 3. Modules

| Module | Role |
|---|---|
| `SantaHut` | the program of cw09, step by step |
| `SantaProblem` | what it promises: groups join, are served one at a time, and are released |
| `SantaHut_proofs` | the inductive invariant, the safety theorems and the refinement |
| `MCSantaHut` | the instance for TLC, with the symmetry of workers of a kind |
| `Barber` | both programs of cw07, told apart by the variable `program` |
| `BarberShop` | what they promise: a bounded first-come-first-served shop |
| `Barber_proofs` | the inductive invariant of the pools and the ring, the safety theorems and the refinement |
| `MCBarber` | the instance for TLC |
| `Chat` | server and clients of cw06 |
| `Chat_proofs` | the life of an id from INIT to STOP as an inductive invariant, types and `RegistryFaithful` |
| `ChatMail_proofs` | what is on its way to a client: texts keep their order and are not lost, answers to LIST are complete |
| `MCChat` | the instance for TLC, with the symmetry of clients |
| `Life` | main and the threads of cw08, and the rules of the game |
| `LifeFrames` | what they promise while no thread is behind: one generation after the other |
| `Life_proofs` | who can have missed a notification, types, `OneLate` and the refinement |
| `MCLife` | the instance for TLC |
| `PipePool` | cw05/zad2: parent, workers and pipes |
| `FifoSum` | cw05/zad3: parent, worker programs and the FIFO |
| `ModeCatcher` | cw04/zad3: the catcher, its handler and the senders |
| `DirWalk` | cw03/zad3: a process per directory |
| `FileData` | cw01: the container and the commands |
| `ReverseCopy`, `ReplaceCopy` | cw02/zad2 and cw02/zad1: two copies each, and their comparison |
| `Processes_proofs` | proofs about `PipePool`, `FifoSum`, `ModeCatcher` and `DirWalk` |
| `Files_proofs` | proofs about `FileData`, `ReverseCopy` and `ReplaceCopy` |
| `Labs` | the seven small programs side by side, one of them running |
| `Labs_proofs` | `Labs` implements each of its programs, so their theorems hold in it |
| `MCLabs` | the instance for TLC |

Operators marked *Mutant* in a comment are deliberately wrong variants of the
definition that follows them. They are used nowhere in the specifications; when
one replaces its original, the property it is paired with in `PROJECT.json` fails.

### SantaHut

`reindeerComeback` and `elfHasProblem` follow the same pattern and are modelled by
the same actions of a worker `w`; `Quorum`, `CrowdFull` and `IdsWith` hold the
differences. A step is the code between two points where another thread can see a
difference:

| Action | Code (`common.hpp`) |
|---|---|
| `PassSantaCv`, `FailSantaCv`, `Park`, `WakeUnasked` | the two waits on `santa_cv` (37, 136) and the wait on the kind's own variable, as the library runs them: predicate under the lock, then unlock-and-block in one step |
| `ComeToHut` | the sleep ends and the mutex of the kind is locked (65, 92) |
| `GiveUp` | the hut is full (93-96) |
| `Register` | the section under `santa_mutex` (66-84, 98-117): count, record, call |
| `Leave`, `Stay` | the predicate of the own wait, and the reset of the flag (74-75, 85-86, 106-107, 118-119) |
| `BeBorn`, `AnnounceBirth` | 130 and 132, both without a lock |
| `StartServing`, `SetFlag`, `FinishServing`, `SkipGroup` | one round of Santa's loop (139-163); every store into a flag is a step of its own |

The counters are atomics that start at zero; sleeping times are left out, so the
model has every order the scheduler could produce, also those that the sleeps of
seconds make rare. `terminate` is set by nobody and is left out.

`SantaProblem` has three variables: who is queued, who is being served, who is
released. The mapping reads them off the threads' labels and flags.

### Barber

One process per client and `main`. `takePlace` of a System V pool succeeds without
a place once its semaphore is removed, because the result of `semop` is ignored;
`DestroyPool` removes the three one after the other, as the handler does. A POSIX
semaphore survives its unlinking, but may start with the value an earlier killed
run has left (`StaleStart`). `Doze` is what a `std::mutex` does between processes
with glibc: the lock excludes, but the wake-up of a client that sleeps on it reaches
only threads of the process that unlocks. `Interrupt` may end any process between
any two steps, also inside the section, which leaves the mutex locked. Main forks
for ever in the code and `MaxClients` times in the model.

### Chat

A queue is a sequence of messages; `msgrcv` takes the first one of a type.
The server is at one of its five handlers; it takes a request when `outbox`, what
the current handler has still to send, is empty, and each `msgsnd` is a step that
waits for room. The client is sequential code with a label per blocking call.
`num_clients` is the union of `struct MsgList`: it holds the client's own id until
the answer has come. A signal may arrive inside or before a blocking call, so its
handler either leaves the label alone or takes the path the code takes when the
call returns -1. `sa_flags` is never initialised by the programs: a read from the
terminal may or may not be restarted, and a second signal may kill the client.

Left out: keys of two clients that collide (the model gives each client a queue of
its own), a queue with id 0, messages of different sizes (capacity is a number of
messages), the effect on the server of a signal it sends to its own process group or of a
second Ctrl+C, truncation of texts, `sender_id` (a text carries its author), the log
file. A command and its arguments are typed in one go.

### Life

`Draw`, `Swap`, `CountFrame` and `Notify` are main's loop and `nextFrame`, which
takes no lock. `PassWait`, `FailWait` and `Block` are the wait of `waitForFrame` as
the library runs it: the predicate under the lock, then unlock-and-block in one step.
A thread between the last two holds the mutex, so only one can be there when
`nextFrame` notifies without it. That thread misses the frame, in any frame.

The sleep of half a second (`life.cpp:39`) makes main wait for nobody, so it is
nothing in the model: main draws and swaps whenever it likes. While a thread is still
`Behind` this is a data race (`Race`): what is drawn then is `Unknown`, and after such
a swap what the arrays hold is `Unknown` from then on, for the threads compute from
it. The properties of the frames speak of a screen that is known; that at most one
thread has missed a notification, and that it catches up, holds in any case.
`LifeFrames` has its own definition of the rules, on cell numbers; `Life`
has the code's, with rows and columns. The swap is one step: without a race no
thread reads the pointers before the count. Spurious wake-ups and `update_grid`, which nobody calls,
are left out.

### The small programs

Each module has a start state in which its program is "off", and a `...Start` action
that chooses the input; `Labs` lets one program start and run. They share no
state, so nothing is lost by this, and names are unique across the modules.

* `PipePool`: `ForkWorker` to `NextWorker` are the parent's loops (48-54, 70-80);
  `CloseWriteEnd` to `ExitWorker` are a worker's (56-66). A value is the number of its
  interval. There are n or n + 1 of them, since 1.0/n is added until 1.0 is reached. A fork may
  fail, so there may be fewer workers than intervals.
* `FifoSum`: each `open` waits for the other side; `at_eof` is the sticky flag of the
  parent's stream; `added` is the sum as the sequence of what went into it.
  `OldFifoWorker` are workers an earlier run left waiting.
* `ModeCatcher`: `sigusr1` is the one pending signal with its value and sender;
  another one is discarded. The handler is one step (it blocks its own signal), the
  loop is `Switch`, `SecondOver` and `Suspend`. A catcher that has not installed its
  handler yet dies of the signal.
* `DirWalk`: any tree of the given size, any place of the files, any set of unreadable
  and mounted directories, on a terminal or not. `stdout_buff` is copied by `Fork`
  and written by `Found`, `Exit` and `Skip`, and lost by `Abort`.
* `FileData`: the array is kept in full, with what erased pointers leave behind
  `size`. `heap` is what is allocated. `listing` is the list the user expects, with
  `RemoveNth` as the reference for `erase`. Use of no container, or a second deletion of a record, ends in "undefined".
  `delete 2147483647` is `EraseIntMax`: `fileData.cpp:76` adds one to the index, the sum
  wraps to a negative end of the range, which passes the test of line 82, and lines 89-90
  move memory out of bounds ("wild"), or, since the overflow is undefined, the compiler's
  code throws. The properties say how these ends are reached and nothing of what follows.
* `ReverseCopy`: a byte is its position. Both loops are run step by step for each length.
* `ReplaceCopy`: three kinds of bytes; the stream writes out when it likes, at the
  latest when main returns. The second copy reads to the end and writes nothing, because
  line 54 writes to the input's descriptor. Both checksums are therefore of the same
  file: the verdict "Output is identical." is always given and tests nothing, which the
  model has as a fact of `CompareMd5` (`"not the same"` is never reached).

## 4. Runs

| Run | Instance | What it shows |
|---|---|---|
| `santa_safety` | 2 reindeer, 4 elves, trios of 3, spurious wake-ups | counters, ids, calls and flags are exact in every interleaving, and the hut implements `SantaProblem`. One elf more than a trio makes `GiveUp` and a second trio happen; two reindeer are a herd with a first and a last member |
| `santa_liveness` | 1 reindeer, 3 elves, trios of 2, fair, no spurious wake-ups | everybody gets past Santa's birth, complete groups are served, and an elf that missed its notification is freed by the next trio; three elves are the smallest number that can form one |
| `santa_holiday` | 2 reindeer, 2 elves, fair | **violation**: a reindeer that missed its notification stays for ever |
| `barber_safety` | both programs, 4 clients, 2 places, 2 barbers, 1 chair, stale semaphores, sleepers, SIGINT to one process | the ring holds the waiting clients although `push` does not look whether it is full; capacity holds while the semaphores exist; until one is removed, the program implements `BarberShop`. The ring wraps and clients are turned away |
| `barber_liveness` | both programs, 3 clients, 2 places, 2 barbers, 1 chair, stale semaphores, sleepers, SIGINT to two processes, fair | whoever is called is served unless no barber or no chair is left: waiting for a chair with a barber and a place in its hands, a client never waits for one that waits for it. With three clients one can have the chair, one a barber and wait for the chair, one wait for a barber. Two interrupts can take both barbers |
| `chat_texts` | 2 clients, 2 requests each, queues of 2 | texts arrive in order and once, none is lost on full queues |
| `chat_registry` | 3 clients, Ctrl+C to all and to the server | an id belongs to its client, though ids are given out again |
| `chat_signals` | 2 clients, 1 request each, Ctrl+C to all and to the server | answers to LIST are complete, also with made-up entries |
| `chat_liveness` | 2 clients, queues of 8, fair | ids and listings arrive |
| `chat_terminate` | same with Ctrl+C to the server | **violation**: a client inside `list()` hangs when the server shuts down |
| `life` | every 2 by 2 first frame and background, 2 threads, 3 frames, fair | no two threads have missed a notification at a time; the screen implements `LifeFrames` while it is known; every thread catches up. Three frames are one that is missed, one that is drawn without it, and one to catch up; main may be three frames ahead of a thread. Every cell has three neighbours, which is enough to be born, to live with two or three, and to die with fewer (dying with more is a matter of the proof) |
| `labs` | `PipePool` 4 workers, any of them missing, pipes of 1; `FifoSum` 3 workers and 1 old one; `ModeCatcher` 2 senders, 2 requests each, modes 0, 1, 5; `DirWalk` 3 directories, 2 files; `FileData` 5 records, containers up to 3; `ReverseCopy` blocks of 3, lengths 0 to 10; `ReplaceCopy` blocks of 2, lengths 0 to 5 | the properties of each small program: see below |

What `labs` shows of each program:

* `IntervalsOnce`: an interval is in one place at any time, and the parent's sum is
  complete if it has a worker. `PipesRunDry`: it comes to its end although `fork` copies
  the write ends of its pipes, if the pipes and the workers' hands have room for all
  intervals (`AllFit`), and only then: otherwise the parent waits for room in the data
  pipe and the workers for room in theirs, which the parent reads later. In the run five
  intervals just fit with two workers and do not with one. With the 8192 values of a pipe
  in Linux they fit for any number of workers the usual limit of descriptors allows.
* `AddedOnce`: results are added once until an early end of file, from which on the last
  one is repeated; an old worker's result displaces one. `SumEnds`: the parent ends.
* `AnswersMatch`: a waiting sender has its request pending, its answer pending, or its
  request discarded. `SendersAnswered`: only the last of these, or the catcher's end,
  leaves it waiting. `ModeActedUpon`: a mode is acted upon unless it slips in before
  `sigsuspend`.
* `LinesWritten`: a line is written by the process of its directory or of directories
  below, once by each, and at least once if its process does not abort.
* `RecordsOwned`: nothing is deleted twice or used after deletion while there is a
  container, short of the index that overflows. `ListFaithful`: the records stay in the user's order.
* `EndReversed`, `CopiedInTheEnd`: the copies are right when the programs end.

Deadlock is checked in the Santa runs, `chat_liveness` and `life`. It is
not in the others because there the programs really may stop: after a SIGINT inside
the barber's section or with everybody asleep on its mutex, when the chat's queues are full and the server waits for
a client that does not type INCOMING, and when a small program ends.

The numbers 9, 10, 3 (cw09) and 5, 4, 3 (cw07) of the code are constants of the
models. The small instances keep what the code distinguishes: a group has a first
and a last member, there is one more elf than a trio, there are more clients
than places, more barbers than chairs, a queue that fills up. One interrupt is enough for
a client to die while it holds the mutex, or for the semaphores to vanish under all
others; two leave a barber shop without barbers. Requests
are bounded by `MaxCommands` per user, typed ids by `MaxId`, clients by `MaxClients` and
`Client`.

### Fairness

* `SantaHut`: strong fairness of every thread's step. Between two visits everybody
  sleeps for seconds outside of all locks, so a thread that waits for a mutex finds
  it free again and again, and the scheduler lets it in. Spurious wake-ups
  are allowed and never relied on.
* `Barber`: weak fairness of every client's step: a process that can go on does.
  Nothing is assumed of the ring's mutex, for which the code gives no reason: a client
  that finds another one at the head calls `sleep(0)` with the lock in its hands
  (`main.cpp:109-116`), unlocks and may lock again at once, and one that sleeps on the
  mutex may never be woken. So nothing is claimed of a client before it is called, and
  nobody need ever be called. Among those called, the model's clients are finitely many
  and have their hair cut once, so that one of them can be passed over at a semaphore
  only so often. System V serves its waiters in order; `sem_wait` does not promise to.
* `Chat`: weak fairness of the server and of every client's process, and of the
  delivery of a signal. Nothing is assumed of users: they may never type again. The
  queues of the fair runs have room for every message, since a full queue of an
  idle client blocks the server for ever.

* `Life`: weak fairness of main and of each thread. Nothing is assumed of their speed.
* `PipePool`, `FifoSum`: weak fairness of the parent and of each worker: they are
  scheduled, and each blocks only on a pipe.
* `ModeCatcher`: weak fairness of the catcher, of the delivery of a pending signal, and of a
  sender's return from `sigwait`. Nothing is assumed of what users send.

### Findings

* `santa_holiday`: `common.hpp:156-162` sets the flags and notifies without
  `reindeer_mutex`. The reindeer that is between its predicate and its blocking
  keeps its flag and sleeps on; the herd never is complete again, so nothing
  notifies it later. Elves recover through the next trio, as `santa_liveness` shows.
* `chat_terminate`: `client.h:110` ignores that `msgrcv` was interrupted. The number
  of entries to wait for is then the client's own id, and the server that sent the
  signal sends no entries any more.

## 5. Proofs

Each theorem holds for every value of the constants that satisfies the assumptions
its module names (`SantaAssumption`, `BarberAssumption` and so on). The assumptions say
that sets of processes are finite, that numbers are natural and sizes positive where the
code's are, and that the model values for "nobody" are no process. Every proof has the
same shape: an inductive invariant, checked by TLC first, a lemma for each action or
group of actions, the theorem `Spec => []IInv`, and the properties as its consequences.

| Module | For every | Proved |
|---|---|---|
| `SantaHut_proofs` | number of reindeer and elves, size of a trio, with and without spurious wake-ups | `TypeOK`, `CountExact`, `TrioExact`, `WakeBalanced`, `SantaHearsCall`, `NoStaleFlag`, `ImplementsProblem` |
| `Barber_proofs` | number of clients, places, barbers and chairs, both programs, with stale semaphores, sleepers and interrupts | `TypeOK`, `WithinCapacity`, `RingFaithful`, `PlacesConserved`, `ImplementsShop` |
| `Chat_proofs` | number of clients and requests, capacity of a queue, with signals | `TypeOK`, `RegistryFaithful` |
| `ChatMail_proofs` | the same | `NoTextLost`, `TextsInOrder`, `ListingComplete` |
| `Life_proofs` | size of the grid, number of threads and frames | `TypeOK`, `OneLate`, `ImplementsFrames` |
| `Processes_proofs` | capacity of a pipe; number of workers and old workers; number of senders and requests, set of modes; number of directories and files, and every tree | `IntervalsOnce`; `AddedOnce`; `AnswersMatch`; `LinesWritten` |
| `Files_proofs` | number of records and size of the container; block size and length of the input | `RecordsOwned`, `ListFaithful`; `EndReversed`; `CopiedInTheEnd` |
| `Labs_proofs` | all of these | `LabsTypeOK`, and all of these properties together |

The type invariants of the small programs (`FifoTypeOK` and the others) are proved with
them. A step of `Labs` is a step of one program that leaves the variables of the six others
alone, so `LabsSpec` implies the specification of each, and their theorems carry over.

What the invariants add to the properties, and why it is needed:

* **SantaHut**. `Roles`: which labels belong to Santa and which to the workers.
  `Locks`: the owner of each mutex is exactly the thread whose label is in its section.
  `HearsBeforeSleep`: between Santa's predicate and his blocking no call is made,
  because callers need `santa_mutex`; this is what `SantaHearsCall` rests on.
  `CountExact` depends on `Locks` (Santa resets a counter without the worker's mutex,
  but under `santa_mutex`, which every count needs), `TrioExact` on `CountExact` (the
  slot written is the number of waiting elves), `WakeBalanced` on `CountExact` (a full
  group cannot grow). The refinement maps every action to a step of `SantaProblem` or a
  stutter under `IInv`.
* **Barber**. `Balanced`: a semaphore and the holders of its places add up to the capacity
  at most (a stale one may start below), and the waiting room is bounded even after its
  semaphore is gone, because `takePlace` with IPC_NOWAIT then fails. So a client that pushes
  finds room in the ring although `push` does not look. `RingDistinct`: no id is in the
  ring twice, so that `pop` removes one client. `Unforked`: clients are forked in order.
  The refinement reads the shop's queue off the ring; the arithmetic of indices modulo
  the size of the ring is in the lemmas `Wrap` and `WrapSum`.
* **Chat**. That a client is found under its own id can only be kept if the id it is going to
  receive is the one the server has made for it. The invariant therefore follows the
  INIT of a client from its request (`FreshOnes`, `Asking`) through what the server is
  sending (`Welcoming`) and the client's queue (`Welcomed`) to the client (`Holders`), and
  its STOP until the server takes it (`Stopping`): there is one of each at most, and the
  entry it removes is of a client that has left. `Sending` and `Counting` say what the
  locals of a client hold at its blocking calls. `Grown` bounds the ids (by `MaxId`, for
  those that users type, and one for every client that was admitted), which the types
  need because the next id is the greatest one plus one.
* **Chat, its mail**. The order in a reader's queue depends on what is still to come there.
  So the invariant looks at the whole way to a client (`Way`): its queue and what the server
  is sending to it (`Mailbox`), and then the server's queue. `TextInv` says that texts are
  in order along every way, and that what their author writes next is younger than all of
  them. `ListInv` follows a LIST: a request in the server's queue names a known id, except
  after the server has looked at STOP and before it looks at LIST, so the id a newcomer
  gets is in no request of the one that had it before; and an undisturbed client that waits
  has one request or one whole answer on its way, not both. The lemmas on queues say where each
  message was before a step (`LeavesOut`, `Remains`, `Join`), by positions: the library's facts
  about `SelectSeq` have the test as a parameter.
* **Life**. A notification is missed before the thread blocks, by one that has the lock
  and has found its frame not yet there: `OneMissing` speaks of these. `Lock` makes
  it one; those that had missed earlier frames are let go by the same notification. `Pace`
  keeps threads from being more than a frame ahead. Nothing about main's speed is assumed:
  `Alone` says that where the screen and the arrays are known, there was no race when
  main drew and swapped. For the refinement, `DrawnRight` describes the frames cell by cell,
  as long as they are known: the screen has the background, a thread that has not missed the frame has the right value
  in each cell it has passed, and is at a cell of its own share. `RuleIsGeneration` shows
  that the rule on rows and columns is the rule of `LifeFrames` on cell numbers, by the
  division with remainder by the width, for every size of the grid.
* **FifoSum**. `Accounted`: a written result is in the FIFO or in the sum, once. `Rounds`,
  `BufferAdded` and `FirstResultComes` tie the parent's loop to its sum: the buffer that an
  early end of file repeats has been added before, and there is always a first one.
* **PipePool**. `OnePlace` counts, for each interval, all places it can be in. `Hands`,
  `Stages`, `NoneLeaves` and `StreamsRead` say that a worker leaves only when the data pipe
  is empty for good, and that a stream read to its end stays there, so that the sum is complete.
* **ModeCatcher**. `AnswersMatch` is nearly inductive; the bound of `mode_change_ctr` needs
  `ChangesBounded`, an account of the requests still to come.
* **DirWalk**. `ForkedByParent`: a directory has one process at most, and only its parent's
  forks it. `BuffersBelow` and `OneCopyEach` then bound the copies of a line by the processes
  below its directory; `FoundOnce` and `NoneForgotten` say that it is found once and where it
  is then. `Above` is defined by recursion along the tree; that each directory has a set
  above it, the parent's with itself, is shown with a least directory that has none.
* **FileData**. `Distinct` (the pointers in use differ) and `RecordsCounted` (records are numbered in
  the order of their making, so a new one has no owner yet).
* **ReverseCopy, ReplaceCopy**. What is written is the end of the input backwards, as long as
  has been counted; file and stream buffer together are what was read, byte for byte.

Only model-checked is all liveness: `TLAPS` has no rule for fairness here, and none for
ENABLED.

## 6. Not modelled

* cw05/zad1, cw03/zad1, cw03/zad2, cw02/zad3 and cw02/zad4 are input and output with no
  state worth a model.
* cw04/zad1 is one process that raises signals in a fixed order, without input: one
  execution shows everything it does.
* Chat: colliding queue keys and a queue whose id is 0 (see `Chat` above); both are
  listed as hazards without a property.
* Symbolic links that make the directory search go round, input files of 2 GiB and more
  (`int fileLen`), a directory as the input of cw02/zad1 (its second loop then never
  ends), two runs of cw01 or cw02 at once (they share a file in /tmp).
* Build files, editor files and the archive of cw09 are not code.
