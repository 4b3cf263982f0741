----------------------------- MODULE TimerQueue -----------------------------
(***************************************************************************)
(* The timer (src/util/timer): a caller sets, cancels and deletes, and a   *)
(* daemon thread fires what has expired and sleeps until the next          *)
(* deadline, unless a new event interrupts its sleep.                      *)
(*                                                                         *)
(* Nothing guards event_queue_ and valid_uid_.  An operation of the caller *)
(* on one of them has a beginning and an end; when the daemon uses the     *)
(* same container in between, its behaviour is undefined, and it is not    *)
(* followed further.                                                       *)
(***************************************************************************)
EXTENDS Integers, FiniteSets

CONSTANTS
  Periods,      \* periods and durations callers ask for, in units of time
  IdleSleep,    \* kIdleSleepMs
  MaxEvents     \* bound: events set

ASSUME TimerAssumption ==
  /\ Periods \subseteq Nat
  /\ IdleSleep \in Nat
  /\ MaxEvents \in Nat

VARIABLES
  event_queue_,          \* entries of the priority queue
  valid_uid_,
  uid_for_next_event_,
  loop,                  \* is_loop_event of each event
  period_ms,             \* period_ms of each event
  left,                  \* time left to t + period_ms of each queued entry
  push_flag_,
  run_flag_,
  can_destroy_,
  caller,                \* where the caller is
  te,                    \* uid of the event it sets or cancels
  daemon,                \* where the daemon is
  event,                 \* its local copy of an entry
  popped,                \* its popped_loop_events_queue
  sleep_ms,              \* time left of its sleep
  fired,                 \* history: times each one-shot task was pushed to the pool
  fired_late,            \* history: times a task was pushed after its event was cancelled
  overtook               \* history: <<u, w>> once u was pushed in front of w, which the
                         \* daemon had read and not yet popped

vars == <<event_queue_, valid_uid_, uid_for_next_event_, loop, period_ms, left,
          push_flag_, run_flag_, can_destroy_, caller, te, daemon, event, popped,
          sleep_ms, fired, fired_late, overtook>>

queue   == <<event_queue_, left>>
uids    == <<valid_uid_, uid_for_next_event_, loop, period_ms>>
calls   == <<caller, te>>
running == <<run_flag_, can_destroy_>>
firing  == <<event, popped, fired, fired_late, overtook>>

Uids == 0 .. MaxEvents - 1

(* The queue holds copies of events.  <<u, u>> is the one SetEvent pushed; when w *)
(* was popped in place of loop event u, u is pushed again as <<u, w>>, beside *)
(* the entry that pop() left there.                                         *)
Entries == Uids \X Uids

Uid(e) == e[1]

(* The daemon has read an event that it has not popped yet.                  *)
Holding == daemon \in {"valid", "task", "pop"}

CallerPlaces == {"idle", "registering", "push", "pushing", "flag", "erasing",
                 "deleting", "deleted"}
DaemonPlaces == {"while", "empty", "top", "valid", "task", "pop", "more", "repush",
                 "eval", "sleep", "clear", "idle", "returned", "undefined"}

(* The events operator< lets the priority queue put at its top.              *)
Earliest == {e \in event_queue_ : \A f \in event_queue_ : left[e] <= left[f]}

(* Mutant of Top: high frequency goes first, wherever the deadline is.       *)
Top_HighFrequency ==
  {e \in event_queue_ : \A f \in event_queue_ : period_ms[Uid(e)] <= period_ms[Uid(f)]}

Top == Earliest

----------------------------------------------------------------------------
(* The caller: SetEvent, SetLoopEvent, CancelEvent, Delete.                 *)

Call(from, to) == caller = from /\ daemon # "undefined" /\ caller' = to

SetEvent(is_loop, period) ==
  /\ Call("idle", "registering")
  /\ uid_for_next_event_ \in Uids
  /\ te' = uid_for_next_event_
  /\ loop' = [loop EXCEPT ![te'] = is_loop]
  /\ period_ms' = [period_ms EXCEPT ![te'] = period]
  /\ UNCHANGED <<queue, valid_uid_, uid_for_next_event_, push_flag_, running, daemon,
                 firing, sleep_ms>>

(* Mutant of CreateTimerEvent: the next event gets the same uid.             *)
CreateTimerEvent_SameUid ==
  /\ Call("registering", "push")
  /\ valid_uid_' = valid_uid_ \cup {te}
  /\ left' = [left EXCEPT ![<<te, te>>] = period_ms[te]]
  /\ UNCHANGED <<event_queue_, uid_for_next_event_, loop, period_ms, push_flag_,
                 running, te, daemon, firing, sleep_ms>>

(* The end of CreateTimerEvent: the event's time begins to run.              *)
CreateTimerEvent ==
  /\ Call("registering", "push")
  /\ valid_uid_' = valid_uid_ \cup {te}
  /\ uid_for_next_event_' = te + 1
  /\ left' = [left EXCEPT ![<<te, te>>] = period_ms[te]]
  /\ UNCHANGED <<event_queue_, loop, period_ms, push_flag_, running, te, daemon,
                 firing, sleep_ms>>

BeginPush ==
  /\ Call("push", "pushing")
  /\ UNCHANGED <<queue, uids, push_flag_, running, te, daemon, firing, sleep_ms>>

(* t was taken before the push: the event may be the earliest, or overdue.   *)
EndPush ==
  /\ Call("pushing", "flag")
  /\ event_queue_' = event_queue_ \cup {<<te, te>>}
  /\ overtook' = overtook \cup IF Holding /\ left[<<te, te>>] < left[event]
                                THEN {<<te, Uid(event)>>} ELSE {}
  /\ UNCHANGED <<left, uids, push_flag_, running, te, daemon, event, popped, fired,
                 fired_late, sleep_ms>>

(* Mutant of SetPushFlag: nobody interrupts the daemon.                      *)
SetPushFlag_Missing ==
  /\ Call("flag", "idle")
  /\ UNCHANGED <<queue, uids, push_flag_, running, te, daemon, firing, sleep_ms>>

SetPushFlag ==
  /\ Call("flag", "idle")
  /\ push_flag_' = TRUE
  /\ UNCHANGED <<queue, uids, running, te, daemon, firing, sleep_ms>>

(* A uid that is not, or no longer, valid is refused and changes nothing.    *)
CancelEvent(uid) ==
  /\ Call("idle", "erasing")
  /\ uid \in valid_uid_
  /\ te' = uid
  /\ UNCHANGED <<queue, uids, push_flag_, running, daemon, firing, sleep_ms>>

RemoveUid ==
  /\ Call("erasing", "idle")
  /\ valid_uid_' = valid_uid_ \ {te}
  /\ UNCHANGED <<queue, uid_for_next_event_, loop, period_ms, push_flag_, running, te,
                 daemon, firing, sleep_ms>>

Delete ==
  /\ Call("idle", "deleting")
  /\ run_flag_' = FALSE
  /\ UNCHANGED <<queue, uids, push_flag_, can_destroy_, te, daemon, firing, sleep_ms>>

Deleted ==
  /\ Call("deleting", "deleted")
  /\ can_destroy_
  /\ UNCHANGED <<queue, uids, push_flag_, running, te, daemon, firing, sleep_ms>>

Caller ==
  \/ CreateTimerEvent \/ BeginPush \/ EndPush \/ SetPushFlag \/ RemoveUid \/ Deleted

----------------------------------------------------------------------------
(* The daemon: Run, HandleExpiredEvents, EvalNextInterval, PreciseSleepms.  *)

(* The daemon is about to use a container the caller is changing.            *)
Racing ==
  \/ /\ daemon \in {"empty", "top", "pop", "more", "repush", "eval"}
     /\ caller = "pushing"
  \/ daemon = "valid" /\ caller \in {"registering", "erasing"}

Race ==
  /\ Racing
  /\ daemon' = "undefined"
  /\ UNCHANGED <<queue, uids, push_flag_, running, calls, firing, sleep_ms>>

Run(from, to) == daemon = from /\ ~Racing /\ daemon' = to

TestRunFlag ==
  /\ Run("while", IF run_flag_ THEN "empty" ELSE "returned")
  /\ can_destroy_' = ~run_flag_
  /\ UNCHANGED <<queue, uids, push_flag_, run_flag_, calls, firing, sleep_ms>>

TestEmpty ==
  /\ Run("empty", IF event_queue_ = {} THEN "idle" ELSE "top")
  /\ sleep_ms' = IF event_queue_ = {} THEN IdleSleep ELSE sleep_ms
  /\ UNCHANGED <<queue, uids, push_flag_, running, calls, firing>>

TakeTop ==
  /\ Run("top", "valid")
  /\ event' \in Top
  /\ UNCHANGED <<queue, uids, push_flag_, running, calls, popped, fired, fired_late,
                 overtook, sleep_ms>>

(* Mutant of TestTop: validity is not looked at.                             *)
TestTop_Cancelled ==
  /\ Run("valid", IF left[event] < 0 THEN "task" ELSE "repush")
  /\ popped' = IF left[event] < 0 /\ loop[Uid(event)] THEN popped \cup {event} ELSE popped
  /\ UNCHANGED <<queue, uids, push_flag_, running, calls, event, fired, fired_late,
                 overtook, sleep_ms>>

(* IsValidUid and IsNearExpired.                                             *)
TestTop ==
  LET valid   == Uid(event) \in valid_uid_
      expired == left[event] < 0
  IN
  /\ Run("valid", IF ~valid THEN "pop" ELSE IF expired THEN "task" ELSE "repush")
  /\ popped' = IF valid /\ expired /\ loop[Uid(event)] THEN popped \cup {event} ELSE popped
  /\ UNCHANGED <<queue, uids, push_flag_, running, calls, event, fired, fired_late,
                 overtook, sleep_ms>>

PushTask ==
  /\ Run("task", "pop")
  /\ fired' = IF loop[Uid(event)] THEN fired ELSE [fired EXCEPT ![Uid(event)] = @ + 1]
  /\ fired_late' = IF Uid(event) \in valid_uid_
                     THEN fired_late
                     ELSE [fired_late EXCEPT ![Uid(event)] = @ + 1]
  /\ UNCHANGED <<queue, uids, push_flag_, running, calls, event, popped, overtook,
                 sleep_ms>>

(* pop() removes what is at the top now: event, if it still is one of the     *)
(* earliest, since push_heap moves a new element past later ones only, and    *)
(* otherwise one pushed in front of it.                                      *)
Pop ==
  /\ Run("pop", "more")
  /\ \E e \in Top :
       /\ event \in Top => e = event
       /\ event_queue_' = event_queue_ \ {e}
       /\ left' = [left EXCEPT ![e] = 0]
       /\ popped' = IF e # event /\ event \in popped
                      THEN (popped \ {event}) \cup {<<Uid(event), Uid(e)>>}
                      ELSE popped
  /\ UNCHANGED <<uids, push_flag_, running, calls, event, fired, fired_late, overtook,
                 sleep_ms>>

TestMore ==
  /\ Run("more", IF event_queue_ = {} THEN "repush" ELSE "top")
  /\ UNCHANGED <<queue, uids, push_flag_, running, calls, firing, sleep_ms>>

(* Mutant of Repush: only one of the loop events comes back.                 *)
Repush_OneOnly ==
  /\ Run("repush", "eval")
  /\ \E e \in popped :
       /\ event_queue_' = event_queue_ \cup {e}
       /\ left' = [left EXCEPT ![e] = period_ms[Uid(e)]]
  /\ popped' = {}
  /\ UNCHANGED <<uids, push_flag_, running, calls, event, fired, fired_late,
                 overtook, sleep_ms>>

Repush ==
  /\ Run("repush", "repush")
  /\ \E e \in popped :
       /\ event_queue_' = event_queue_ \cup {e}
       /\ left' = [left EXCEPT ![e] = period_ms[Uid(e)]]
       /\ popped' = popped \ {e}
  /\ UNCHANGED <<uids, push_flag_, running, calls, event, fired, fired_late,
                 overtook, sleep_ms>>

Repushed ==
  /\ Run("repush", "eval")
  /\ popped = {}
  /\ UNCHANGED <<queue, uids, push_flag_, running, calls, firing, sleep_ms>>

EvalNextInterval ==
  /\ Run("eval", "sleep")
  /\ \/ event_queue_ = {} /\ sleep_ms' = IdleSleep
     \/ \E e \in Top : sleep_ms' = left[e]
  /\ UNCHANGED <<queue, uids, push_flag_, running, calls, firing>>

Interrupted ==
  /\ Run("sleep", "clear")
  /\ push_flag_
  /\ sleep_ms > 0
  /\ UNCHANGED <<queue, uids, push_flag_, running, calls, firing, sleep_ms>>

ClearPushFlag ==
  /\ Run("clear", "while")
  /\ push_flag_' = FALSE
  /\ sleep_ms' = 0
  /\ UNCHANGED <<queue, uids, running, calls, firing>>

(* Mutant of WakeUp: the daemon's sleep goes on until an event is pushed.    *)
WakeUp_Never ==
  /\ daemon \in {"sleep", "idle"}
  /\ sleep_ms <= 0
  /\ push_flag_
  /\ daemon' = "while"
  /\ UNCHANGED <<queue, uids, push_flag_, running, calls, firing, sleep_ms>>

WakeUp ==
  /\ daemon \in {"sleep", "idle"}
  /\ sleep_ms <= 0
  /\ daemon' = "while"
  /\ sleep_ms' = 0
  /\ UNCHANGED <<queue, uids, push_flag_, running, calls, firing>>

Daemon ==
  \/ TestRunFlag \/ TestEmpty \/ TakeTop \/ TestTop \/ PushTask \/ Pop \/ TestMore
  \/ Repush \/ Repushed \/ EvalNextInterval \/ Interrupted \/ ClearPushFlag \/ WakeUp
  \/ Race

----------------------------------------------------------------------------
(* Time passes for the events and for a sleeping daemon.                    *)

Timed == event_queue_ \cup (IF caller \in {"push", "pushing"} THEN {<<te, te>>} ELSE {})

(* How long ago a deadline passed is kept as its rank among the passed ones:  *)
(* the order of any two deadlines stays what it is, and the number bounded.   *)
Later(e) ==
  IF left[e] > 0
    THEN left[e] - 1
    ELSE -Cardinality({left[f] : f \in {f \in Timed : left[e] <= left[f] /\ left[f] <= 0}})

Elapse ==
  /\ daemon # "undefined"
  /\ left' = [e \in Entries |-> IF e \in Timed THEN Later(e) ELSE left[e]]
  /\ sleep_ms' = IF daemon \in {"sleep", "idle"} /\ sleep_ms > 0 THEN sleep_ms - 1
                                                                 ELSE sleep_ms
  /\ UNCHANGED <<event_queue_, uids, push_flag_, running, calls, daemon, firing>>

----------------------------------------------------------------------------

Init ==
  /\ event_queue_ = {}
  /\ valid_uid_ = {}
  /\ uid_for_next_event_ = 0
  /\ loop = [u \in Uids |-> FALSE]
  /\ period_ms = [u \in Uids |-> 0]
  /\ left = [e \in Entries |-> 0]
  /\ push_flag_ = FALSE
  /\ run_flag_ = TRUE
  /\ can_destroy_ = FALSE
  /\ caller = "idle"
  /\ te = 0
  /\ daemon = "while"
  /\ event = <<0, 0>>
  /\ popped = {}
  /\ sleep_ms = 0
  /\ fired = [u \in Uids |-> 0]
  /\ fired_late = [u \in Uids |-> 0]
  /\ overtook = {}

Next ==
  \/ \E is_loop \in BOOLEAN, period \in Periods : SetEvent(is_loop, period)
  \/ \E uid \in Uids : CancelEvent(uid)
  \/ Delete
  \/ Caller
  \/ Daemon
  \/ Elapse

Spec == Init /\ [][Next]_vars

(* Both threads go on with what they began, and so does the clock.          *)
FairSpec == Spec /\ WF_vars(Caller) /\ WF_vars(Daemon) /\ WF_vars(Elapse)

----------------------------------------------------------------------------
(* Properties                                                               *)

(* Types, and: what is queued, waits to be queued again, or is valid, was    *)
(* created.                                                                 *)
TypeOK ==
  /\ event_queue_ \subseteq Entries
  /\ valid_uid_ \subseteq Uids
  /\ uid_for_next_event_ \in 0 .. MaxEvents
  /\ loop \in [Uids -> BOOLEAN]
  /\ period_ms \in [Uids -> Nat]
  /\ left \in [Entries -> Int]
  /\ push_flag_ \in BOOLEAN
  /\ run_flag_ \in BOOLEAN
  /\ can_destroy_ \in BOOLEAN
  /\ caller \in CallerPlaces
  /\ te \in Nat
  /\ daemon \in DaemonPlaces
  /\ event \in Nat \X Nat
  /\ popped \subseteq Entries
  /\ sleep_ms \in Int
  /\ fired \in [Uids -> Nat]
  /\ fired_late \in [Uids -> Nat]
  /\ overtook \subseteq Uids \X Uids
  /\ \A e \in popped \cup event_queue_ : Uid(e) < uid_for_next_event_
  /\ \A u \in valid_uid_ : u < uid_for_next_event_

(* No wake-up is lost: a daemon in PreciseSleepms that no caller interrupts, or *)
(* is about to, sleeps no longer than to the earliest deadline of the queue,  *)
(* although events are pushed before, while and after it computes its sleep.  *)
NoOversleep ==
  daemon = "sleep" /\ sleep_ms > 0 /\ ~push_flag_ /\ caller # "flag"
    => \A e \in event_queue_ : sleep_ms <= left[e]

(* An event set with SetEvent fires once, and once more for each event that was *)
(* pushed in front of it between top() and pop(): pop() then removes that one *)
(* and leaves the event that fired in the queue.                            *)
OneShotFiresOnce ==
  \A u \in Uids : ~loop[u] => fired[u] <= 1 + Cardinality({w \in Uids : <<w, u>> \in overtook})

(* "event will be removed at next pop": once CancelEvent returned, the event *)
(* fires at most once more, when the daemon had found it valid before.       *)
CancelledFiresOnce == \A u \in Uids : fired_late[u] <= 1

(* u was pushed in front of an event the daemon had read and not yet popped. *)
Overtaker(u) == \E w \in Uids : <<u, w>> \in overtook

(* No event is lost, whatever is cancelled, that was not pushed between top() *)
(* and pop() with an earlier deadline: a loop event is queued or about to be  *)
(* queued again, and any other event is queued until it fires.               *)
NothingLost ==
  daemon # "undefined" =>
    \A u \in valid_uid_ :
      \/ Overtaker(u)
      \/ \E e \in event_queue_ \cup popped : Uid(e) = u
      \/ u = te /\ caller \in {"push", "pushing"}
      \/ ~loop[u] /\ fired[u] > 0

(* Every event that is set fires, and a loop event fires again and again,    *)
(* unless it is cancelled, was pushed between top() and pop() with an earlier *)
(* deadline, or the timer is deleted.                                       *)
EventsFire ==
  \A u \in Uids :
    u \in valid_uid_ /\ (loop[u] \/ fired[u] = 0)
      ~> \/ daemon = "task" /\ Uid(event) = u
         \/ u \notin valid_uid_ \/ Overtaker(u) \/ ~run_flag_ \/ daemon = "undefined"

(* Delete waits for a daemon that looks at run_flag_ only between two sleeps, *)
(* and does return.                                                         *)
DeleteReturns == caller = "deleting" ~> (caller = "deleted" \/ daemon = "undefined")

=============================================================================
