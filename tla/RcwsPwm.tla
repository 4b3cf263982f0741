------------------------------- MODULE RcwsPwm -------------------------------
(***************************************************************************)
(* The PWM command threads of the USB program (Rcws in test/usb_test).  The *)
(* user starts a detached thread that loads the rows of a file into the one *)
(* queue of the device object and sends them in turn, and cancels; the      *)
(* device may be unplugged, and its port closed, at any time.               *)
(*                                                                         *)
(* Nothing guards the queue.  When two threads use it at the same time, or  *)
(* it is empty and an element is asked for, the behaviour is undefined and  *)
(* is not followed further.                                                 *)
(***************************************************************************)
EXTENDS Naturals, Sequences

CONSTANTS
  Rows,        \* rows of the file
  MaxTasks     \* bound: threads started

ASSUME PwmAssumption == Rows \in Nat \ {0} /\ MaxTasks \in Nat

VARIABLES
  pwm_cmd_q_,             \* rows by number
  pwm_cmd_thread_exit_,
  recursive_flag_,
  user,                   \* where the user's command is
  task,                   \* where each thread is in PwmCmdTask
  row,                    \* its next_pwm_cmd, or the rows it has loaded
  is_open,                \* the port is open
  plugged,                \* the device is there
  last,                   \* what reached the device last: a row, or Stop
  unheard,                \* the last Stop did not reach it
  before,                 \* the row sent, or tried, before
  more,                   \* rows each thread sent since the exit flag was set, up to 2
  overlapped,             \* the user started a second thread or reached into the first's work
  undefined

vars == <<pwm_cmd_q_, pwm_cmd_thread_exit_, recursive_flag_, user, task, row, is_open,
          plugged, last, unheard, before, more, overlapped, undefined>>

port  == <<is_open, plugged>>
sent  == <<last, unheard, before>>
flags == <<pwm_cmd_thread_exit_, recursive_flag_>>

Tasks == 1 .. MaxTasks
Places == {"none", "load", "test", "front", "send", "push", "pop", "stop", "ended"}
QueuePlaces == {"load", "test", "front", "push", "pop"}

(* The stop command, of half the amplitude for every axis.                  *)
Stop == 0

Running(t) == task[t] \notin {"none", "ended"}
SomeRuns == \E t \in Tasks : Running(t)

(* PwmCmdThreadRunning returns the exit flag.                               *)
PwmCmdThreadRunning == pwm_cmd_thread_exit_

----------------------------------------------------------------------------
(* The user                                                                 *)

User(from, to) == user = from /\ ~undefined /\ user' = to

(* Command p, file mode, while the bound leaves a thread to start.           *)
PwmFile ==
  /\ User("idle", IF PwmCmdThreadRunning THEN "cancel" ELSE "choose")
  /\ \E t \in Tasks : task[t] = "none"
  /\ UNCHANGED <<pwm_cmd_q_, flags, task, row, port, sent, more, overlapped, undefined>>

Decline ==
  /\ User("cancel", "idle")
  /\ UNCHANGED <<pwm_cmd_q_, flags, task, row, port, sent, more, overlapped, undefined>>

(* The thread is detached: there is nothing to join.                        *)
PwmCmdThreadClose ==
  /\ User("cancel", "clean")
  /\ pwm_cmd_thread_exit_' = TRUE
  /\ UNCHANGED <<pwm_cmd_q_, recursive_flag_, task, row, port, sent, more, overlapped,
                 undefined>>

CleanPwmCmdQueue ==
  /\ User("clean", "idle")
  /\ pwm_cmd_q_' = <<>>
  /\ overlapped' = (overlapped \/ SomeRuns)
  /\ UNCHANGED <<flags, task, row, port, sent, more, undefined>>

PwmCmdSetRecursive(enable) ==
  /\ User("choose", "start")
  /\ recursive_flag_' = enable
  /\ overlapped' = (overlapped \/ SomeRuns)
  /\ UNCHANGED <<pwm_cmd_q_, pwm_cmd_thread_exit_, task, row, port, sent, more, undefined>>

StartPwmCmdThread ==
  /\ User("start", IF PwmCmdThreadRunning THEN "idle" ELSE "starting")
  /\ UNCHANGED <<pwm_cmd_q_, flags, task, row, port, sent, more, overlapped, undefined>>

(* The thread begins, also when another one has set the flag meanwhile.      *)
BeginPwmCmdTask(t) ==
  /\ User("starting", "idle")
  /\ task[t] = "none"
  /\ task' = [task EXCEPT ![t] = "load"]
  /\ overlapped' = (overlapped \/ SomeRuns)
  /\ UNCHANGED <<pwm_cmd_q_, flags, row, port, sent, more, undefined>>

(* Commands o and c.                                                        *)
OpenOrClose ==
  /\ User("idle", "idle")
  /\ is_open' = ~is_open
  /\ is_open' => plugged
  /\ UNCHANGED <<pwm_cmd_q_, flags, task, row, plugged, sent, more, overlapped, undefined>>

Unplug ==
  /\ plugged
  /\ ~undefined
  /\ plugged' = FALSE
  /\ UNCHANGED <<pwm_cmd_q_, flags, user, task, row, is_open, sent, more, overlapped,
                 undefined>>

----------------------------------------------------------------------------
(* PwmCmdTask                                                               *)

Move(t, from, to) == task[t] = from /\ ~undefined /\ task' = [task EXCEPT ![t] = to]

Load(t) ==
  /\ Move(t, "load", IF row[t] + 1 = Rows THEN "test" ELSE "load")
  /\ row' = [row EXCEPT ![t] = row[t] + 1]
  /\ pwm_cmd_q_' = Append(pwm_cmd_q_, row'[t])
  /\ UNCHANGED <<flags, user, port, sent, more, overlapped, undefined>>

(* Mutant of TestLoop: only the queue is looked at.                         *)
TestLoop_QueueOnly(t) ==
  /\ Move(t, "test", IF pwm_cmd_q_ # <<>> THEN "front" ELSE "stop")
  /\ UNCHANGED <<pwm_cmd_q_, flags, user, row, port, sent, more, overlapped, undefined>>

(* Mutant of TestLoop: only the flag is looked at.                          *)
TestLoop_FlagOnly(t) ==
  /\ Move(t, "test", IF pwm_cmd_thread_exit_ THEN "stop" ELSE "front")
  /\ UNCHANGED <<pwm_cmd_q_, flags, user, row, port, sent, more, overlapped, undefined>>

(* Mutant of TestLoop: a set flag ends the thread at once.                  *)
TestLoop_Leave(t) ==
  /\ Move(t, "test", IF pwm_cmd_thread_exit_ THEN "ended"
                     ELSE IF pwm_cmd_q_ # <<>> THEN "front" ELSE "stop")
  /\ UNCHANGED <<pwm_cmd_q_, flags, user, row, port, sent, more, overlapped, undefined>>

TestLoop(t) ==
  /\ Move(t, "test", IF pwm_cmd_q_ # <<>> /\ ~pwm_cmd_thread_exit_ THEN "front" ELSE "stop")
  /\ UNCHANGED <<pwm_cmd_q_, flags, user, row, port, sent, more, overlapped, undefined>>

Front(t) ==
  /\ Move(t, "front", "send")
  /\ IF pwm_cmd_q_ = <<>> THEN undefined' = TRUE /\ UNCHANGED row
                          ELSE row' = [row EXCEPT ![t] = Head(pwm_cmd_q_)] /\ UNCHANGED undefined
  /\ UNCHANGED <<pwm_cmd_q_, flags, user, port, sent, more, overlapped>>

(* DevPwmCmd: a closed port is reported and that is all; a write to a device *)
(* that is gone, or to a port closed meanwhile, throws.                     *)
DevPwmCmd(cmd) ==
  \/ is_open /\ plugged /\ last' = cmd /\ UNCHANGED pwm_cmd_thread_exit_
  \/ ~is_open /\ UNCHANGED <<last, pwm_cmd_thread_exit_>>
  \/ ~(is_open /\ plugged) /\ pwm_cmd_thread_exit_' = TRUE /\ UNCHANGED last

(* Once its time has come.                                                  *)
Send(t) ==
  /\ Move(t, "send", "push")
  /\ DevPwmCmd(row[t])
  /\ before' = IF overlapped THEN 0 ELSE row[t]
  /\ more' = [more EXCEPT ![t] = IF pwm_cmd_thread_exit_ /\ @ < 2 THEN @ + 1 ELSE @]
  /\ UNCHANGED <<pwm_cmd_q_, recursive_flag_, user, row, port, unheard, overlapped, undefined>>

PushAgain(t) ==
  /\ Move(t, "push", "pop")
  /\ pwm_cmd_q_' = IF recursive_flag_ THEN Append(pwm_cmd_q_, row[t]) ELSE pwm_cmd_q_
  /\ UNCHANGED <<flags, user, row, port, sent, more, overlapped, undefined>>

(* Mutant of Pop: the row at the back goes.                                 *)
Pop_Back(t) ==
  /\ Move(t, "pop", "test")
  /\ IF pwm_cmd_q_ = <<>>
       THEN undefined' = TRUE /\ UNCHANGED pwm_cmd_q_
       ELSE pwm_cmd_q_' = SubSeq(pwm_cmd_q_, 1, Len(pwm_cmd_q_) - 1) /\ UNCHANGED undefined
  /\ UNCHANGED <<flags, user, row, port, sent, more, overlapped>>

(* Mutant of Pop: none goes in a forever loop.                               *)
Pop_Keep(t) ==
  /\ Move(t, "pop", "test")
  /\ pwm_cmd_q_' = IF recursive_flag_ \/ pwm_cmd_q_ = <<>> THEN pwm_cmd_q_ ELSE Tail(pwm_cmd_q_)
  /\ UNCHANGED <<flags, user, row, port, sent, more, overlapped, undefined>>

Pop(t) ==
  /\ Move(t, "pop", "test")
  /\ IF pwm_cmd_q_ = <<>> THEN undefined' = TRUE /\ UNCHANGED pwm_cmd_q_
                          ELSE pwm_cmd_q_' = Tail(pwm_cmd_q_) /\ UNCHANGED undefined
  /\ UNCHANGED <<flags, user, row, port, sent, more, overlapped>>

(* Mutant of SendStop: it is sent again until it is heard.                  *)
SendStop_Retry(t) ==
  /\ Move(t, "stop", IF is_open /\ plugged THEN "ended" ELSE "stop")
  /\ DevPwmCmd(Stop)
  /\ unheard' = ~(is_open /\ plugged)
  /\ UNCHANGED <<pwm_cmd_q_, recursive_flag_, user, row, port, before, more, overlapped,
                 undefined>>

SendStop(t) ==
  /\ Move(t, "stop", "ended")
  /\ DevPwmCmd(Stop)
  /\ unheard' = ~(is_open /\ plugged)
  /\ row' = [row EXCEPT ![t] = 0]
  /\ UNCHANGED <<pwm_cmd_q_, recursive_flag_, user, port, before, more, overlapped,
                 undefined>>

(* Two threads, or a thread and the user, are about to use the queue, and do  *)
(* so at the same time.                                                     *)
Race ==
  /\ \E t \in Tasks :
       /\ task[t] \in QueuePlaces
       /\ user = "clean" \/ \E s \in Tasks \ {t} : task[s] \in QueuePlaces
  /\ undefined' = TRUE
  /\ overlapped' = (overlapped \/ user = "clean")
  /\ UNCHANGED <<pwm_cmd_q_, flags, user, task, row, port, sent, more>>

Thread(t) ==
  \/ Load(t) \/ TestLoop(t) \/ Front(t) \/ Send(t) \/ PushAgain(t) \/ Pop(t) \/ SendStop(t)

----------------------------------------------------------------------------

Init ==
  /\ pwm_cmd_q_ = <<>>
  /\ pwm_cmd_thread_exit_ = FALSE
  /\ recursive_flag_ = FALSE
  /\ user = "idle"
  /\ task = [t \in Tasks |-> "none"]
  /\ row = [t \in Tasks |-> 0]
  /\ is_open = FALSE
  /\ plugged = TRUE
  /\ last = Stop
  /\ unheard = FALSE
  /\ before = 0
  /\ more = [t \in Tasks |-> 0]
  /\ overlapped = FALSE
  /\ undefined = FALSE

Next ==
  \/ PwmFile \/ Decline \/ PwmCmdThreadClose \/ CleanPwmCmdQueue
  \/ \E enable \in BOOLEAN : PwmCmdSetRecursive(enable)
  \/ StartPwmCmdThread \/ \E t \in Tasks : BeginPwmCmdTask(t)
  \/ OpenOrClose \/ Unplug
  \/ \E t \in Tasks : Thread(t)
  \/ Race

Spec == Init /\ [][Next]_vars

(* A thread that runs goes on; its waits are for a time that comes.         *)
FairSpec == Spec /\ \A t \in Tasks : WF_vars(Thread(t))

----------------------------------------------------------------------------
(* Properties                                                               *)

(* Types, and: the queue never holds more than the rows of the threads and   *)
(* those on their way from its front to its back.                           *)
TypeOK ==
  /\ pwm_cmd_q_ \in Seq(1 .. Rows) /\ Len(pwm_cmd_q_) <= MaxTasks * (Rows + 1)
  /\ pwm_cmd_thread_exit_ \in BOOLEAN
  /\ recursive_flag_ \in BOOLEAN
  /\ user \in {"idle", "cancel", "clean", "choose", "start", "starting"}
  /\ task \in [Tasks -> Places]
  /\ row \in [Tasks -> 0 .. Rows]
  /\ is_open \in BOOLEAN
  /\ plugged \in BOOLEAN
  /\ last \in 0 .. Rows
  /\ unheard \in BOOLEAN
  /\ before \in 0 .. Rows
  /\ more \in [Tasks -> 0 .. 2]
  /\ overlapped \in BOOLEAN
  /\ undefined \in BOOLEAN

(* A queue that has a reader is safe from an empty front, an empty pop and a *)
(* concurrent use as long as nobody starts a second thread or cleans the     *)
(* queue under the first: the loop itself never asks for what is not there.  *)
AloneIsDefined == undefined => overlapped

(* A single thread sends the rows in their order and, in a forever loop,     *)
(* begins again after the last one, although the loop is a queue that is     *)
(* pushed to before it is popped from.                                      *)
RowsInOrder ==
  \A t \in Tasks : task[t] = "send" /\ ~overlapped => row[t] = (before % Rows) + 1

(* Once the exit flag is set, a thread sends no more than the row it has     *)
(* taken and is waiting with.                                               *)
AtMostOneMore == \A t \in Tasks : more[t] <= 1

(* When no thread runs, the last command that reached the device told it to  *)
(* stop, also when two threads ran at once and whatever ended them, unless   *)
(* the last of these commands itself could not be sent.                     *)
StopComesLast == ~SomeRuns /\ ~undefined => last = Stop \/ unheard

(* The exit flag ends every thread, also one in a forever loop, and one that  *)
(* begins after the flag was set.                                           *)
ExitEndsThreads ==
  pwm_cmd_thread_exit_ ~> (undefined \/ ~SomeRuns)

=============================================================================
