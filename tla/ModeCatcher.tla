----------------------------- MODULE ModeCatcher -----------------------------
(***************************************************************************)
(* The catcher and its senders of cw04/zad3.  A sender sends the catcher   *)
(* SIGUSR1 with a mode as its value and waits for SIGUSR1 as the answer.   *)
(* The catcher's handler takes the mode over and answers; its main loop    *)
(* branches on the mode.                                                   *)
(*                                                                         *)
(* SIGUSR1 is no real-time signal: while one is pending, another one is    *)
(* discarded, its value and its sender with it.  Modes 0 and 4 sleep for a *)
(* second, and a signal does not shorten it; modes 1, 2 and 3 print and    *)
(* wait for a signal; 5 and all others exit.                               *)
(***************************************************************************)
EXTENDS Integers, FiniteSets

CONSTANTS
  ModeSender,   \* the sender processes
  CatcherMode,  \* the modes that they send
  MaxRequests   \* the bound on the requests of each

ASSUME CatcherAssumption ==
  /\ IsFiniteSet(ModeSender)
  /\ CatcherMode \subseteq Int
  /\ MaxRequests \in Nat

VARIABLES
  catcher,          \* what the catcher is about to do
  branch,           \* the mode its last switch has read
  working_mode,
  mode_change_ctr,
  sender_PID,       \* the sender of the last signal, {} at first
  sigusr1,          \* the request pending at the catcher: at most one
  mode_sender,      \* what each sender is about to do
  input,            \* how many modes it has still to send
  answer,           \* the senders with a SIGUSR1 pending
  discarded         \* history: the senders whose last request was discarded

catcherVars == <<catcher, branch, working_mode, mode_change_ctr, sender_PID,
                 sigusr1, mode_sender, input, answer, discarded>>
senderVars == <<mode_sender, input, discarded>>

CatcherInit ==
  /\ catcher = "off"
  /\ branch = 0
  /\ working_mode = 0
  /\ mode_change_ctr = 0
  /\ sender_PID = {}
  /\ sigusr1 = {}
  /\ mode_sender = [s \in ModeSender |-> "off"]
  /\ input = [s \in ModeSender |-> 0]
  /\ answer = {}
  /\ discarded = {}

CatcherStart ==
  /\ catcher = "off"
  /\ catcher' = "start"
  /\ mode_sender' = [s \in ModeSender |-> "read"]
  /\ input' \in [ModeSender -> 0..MaxRequests]
  /\ UNCHANGED <<branch, working_mode, mode_change_ctr, sender_PID, sigusr1, answer, discarded>>

-----------------------------------------------------------------------------
(* The catcher.                                                            *)

InstallHandler ==
  /\ catcher = "start"
  /\ catcher' = "switch"
  /\ UNCHANGED <<branch, working_mode, mode_change_ctr, sender_PID, sigusr1, senderVars, answer>>

Switch ==
  /\ catcher = "switch"
  /\ branch' = working_mode
  /\ catcher' = CASE working_mode \in {0, 4}    -> "sleep"
                  [] working_mode \in {1, 2, 3} -> "print"
                  [] OTHER                      -> "exited"
  /\ UNCHANGED <<working_mode, mode_change_ctr, sender_PID, sigusr1, senderVars, answer>>

\* Mutant: modes 0 and 4 go on sleeping.
SleepOn ==
  /\ catcher = "sleep"
  /\ UNCHANGED catcherVars

SecondOver ==
  /\ catcher = "sleep"
  /\ catcher' = "switch"
  /\ UNCHANGED <<branch, working_mode, mode_change_ctr, sender_PID, sigusr1, senderVars, answer>>

\* From here the catcher goes on after the next signal only.
Suspend ==
  /\ catcher = "print"
  /\ catcher' = "suspended"
  /\ UNCHANGED <<branch, working_mode, mode_change_ctr, sender_PID, sigusr1, senderVars, answer>>

CatcherRuns == catcher \in {"switch", "sleep", "print", "suspended"}

\* Mutants: the answer goes to the sender of the signal before; only a mode
\* that is new is answered.
AnswerPrevious(r) == sender_PID
AnswerIfChanged(r) == IF working_mode = r.mode THEN {} ELSE {r.from}

\* Whom the handler answers.
Answered(r) == {r.from}

\* A signal that finds the handler not yet installed ends the catcher.
HandleSignal ==
  \E r \in sigusr1 :
    /\ sigusr1' = {}
    /\ \/ /\ catcher = "start"
          /\ catcher' = "exited"
          /\ UNCHANGED <<branch, working_mode, mode_change_ctr, sender_PID, answer>>
       \/ /\ CatcherRuns
          /\ mode_change_ctr' = mode_change_ctr + (IF working_mode # r.mode THEN 1 ELSE 0)
          /\ working_mode' = r.mode
          /\ sender_PID' = {r.from}
          /\ answer' = answer \cup Answered(r)
          /\ catcher' = IF catcher = "suspended" THEN "switch" ELSE catcher
          /\ UNCHANGED branch
    /\ UNCHANGED senderVars

-----------------------------------------------------------------------------
(* A sender.                                                               *)

\* Without the catcher sigqueue fails, and the sender throws.
SendMode(s) ==
  /\ mode_sender[s] = "read"
  /\ input[s] > 0
  /\ IF catcher = "exited"
     THEN /\ mode_sender' = [mode_sender EXCEPT ![s] = "thrown"]
          /\ UNCHANGED <<input, sigusr1, discarded>>
     ELSE /\ mode_sender' = [mode_sender EXCEPT ![s] = "wait"]
          /\ input' = [input EXCEPT ![s] = @ - 1]
          /\ IF sigusr1 = {}
             THEN /\ \E m \in CatcherMode : sigusr1' = {[mode |-> m, from |-> s]}
                  /\ UNCHANGED discarded
             ELSE discarded' = discarded \cup {s} /\ UNCHANGED sigusr1
  /\ UNCHANGED <<catcher, branch, working_mode, mode_change_ctr, sender_PID, answer>>

ReceiveAnswer(s) ==
  /\ mode_sender[s] = "wait"
  /\ s \in answer
  /\ answer' = answer \ {s}
  /\ mode_sender' = [mode_sender EXCEPT ![s] = "read"]
  /\ UNCHANGED <<catcher, branch, working_mode, mode_change_ctr, sender_PID, sigusr1, input, discarded>>

EndOfInput(s) ==
  /\ mode_sender[s] = "read"
  /\ input[s] = 0
  /\ mode_sender' = [mode_sender EXCEPT ![s] = "done"]
  /\ UNCHANGED <<catcher, branch, working_mode, mode_change_ctr, sender_PID, sigusr1, input,
                 answer, discarded>>

-----------------------------------------------------------------------------
Catcher == InstallHandler \/ Switch \/ SecondOver \/ Suspend

Sender(s) == SendMode(s) \/ ReceiveAnswer(s) \/ EndOfInput(s)

CatcherStep == Catcher \/ HandleSignal \/ \E s \in ModeSender : Sender(s)

CatcherNext == CatcherStart \/ CatcherStep

\* The catcher is scheduled, a signal is delivered, and a sender receives the
\* answer it has; what a sender sends and when is up to its user.
CatcherFairness ==
  /\ WF_catcherVars(Catcher)
  /\ WF_catcherVars(HandleSignal)
  /\ \A s \in ModeSender : WF_catcherVars(ReceiveAnswer(s))

CatcherSpec == CatcherInit /\ [][CatcherNext]_catcherVars /\ CatcherFairness

-----------------------------------------------------------------------------
(* Properties.                                                             *)

Request == [mode : CatcherMode, from : ModeSender]

CatcherTypeOK ==
  /\ catcher \in {"off", "start", "switch", "sleep", "print", "suspended", "exited"}
  /\ {branch, working_mode} \subseteq CatcherMode \cup {0}
  /\ mode_change_ctr \in 0..(MaxRequests * Cardinality(ModeSender))
  /\ sender_PID \in {{}} \cup {{s} : s \in ModeSender}
  /\ sigusr1 \in {{}} \cup {{r} : r \in Request}
  /\ mode_sender \in [ModeSender -> {"off", "read", "wait", "thrown", "done"}]
  /\ input \in [ModeSender -> 0..MaxRequests]
  /\ answer \subseteq ModeSender
  /\ discarded \subseteq ModeSender

Asking == {r.from : r \in sigusr1}

Waiting == {s \in ModeSender : mode_sender[s] = "wait"}

\* Request and answer belong together: what a sender waits for is in exactly
\* one place (its request is pending, or its answer is, or its request was
\* discarded), unless the catcher was killed, and nobody else has a request or
\* an answer, so that no answer is taken for that of a later request
\* (zad3_catcher/main.cpp:17-24, zad3_sender/main.cpp:25-36).
AnswersMatch ==
  /\ Asking \cap answer = {} /\ Asking \cap discarded = {} /\ answer \cap discarded = {}
  /\ Asking \cup answer \cup discarded \subseteq Waiting
  /\ catcher # "exited" => Waiting = Asking \cup answer \cup discarded

\* A sender waits for ever only if its request was discarded or the catcher has
\* ended: a catcher that sleeps, prints or is suspended answers
\* (zad3_catcher/main.cpp:17-24, 45-71).
SendersAnswered ==
  \A s \in ModeSender :
    s \in Waiting ~> s \notin Waiting \/ s \in discarded \/ catcher = "exited"

\* The main loop comes to act upon the mode that the handler has taken over,
\* unless the signal has slipped in between the switch and sigsuspend: then the
\* catcher waits, and even mode 5 does not end it (zad3_catcher/main.cpp:39-76).
ModeActedUpon ==
  branch # working_mode ~> branch = working_mode \/ catcher \in {"suspended", "exited"}
=============================================================================
