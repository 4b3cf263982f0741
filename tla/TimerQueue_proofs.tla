--------------------------- MODULE TimerQueue_proofs ---------------------------
(***************************************************************************)
(* Proofs about TimerQueue for any periods, any idle sleep and any number   *)
(* of events: types, what becomes of an event that is set or cancelled, and *)
(* that no push leaves the daemon asleep.                                   *)
(***************************************************************************)
EXTENDS TimerQueue, FiniteSetTheorems, TLAPS

(* The events that were created.                                            *)
Made == 0 .. uid_for_next_event_ - 1

----------------------------------------------------------------------------
(* Sets of uids                                                             *)

LEMMA UidsFinite == IsFiniteSet(Uids)
BY TimerAssumption, FS_Interval DEF Uids

LEMMA CountMonotone ==
  ASSUME NEW S, NEW T \in SUBSET Uids, S \subseteq T
  PROVE  Cardinality(S) \in Nat /\ Cardinality(T) \in Nat /\ Cardinality(S) <= Cardinality(T)
<1>1. IsFiniteSet(T)
  BY UidsFinite, FS_Subset
<1>2. IsFiniteSet(S) /\ Cardinality(S) <= Cardinality(T)
  BY <1>1, FS_Subset
<1>q. QED
  BY <1>1, <1>2, FS_CardinalityType

LEMMA CountMore ==
  ASSUME NEW S, NEW T \in SUBSET Uids, S \subseteq T, NEW x \in T, x \notin S
  PROVE  Cardinality(S) + 1 <= Cardinality(T)
<1>1. IsFiniteSet(S)
  BY UidsFinite, FS_Subset
<1>2. Cardinality(S \cup {x}) = Cardinality(S) + 1
  BY <1>1, FS_AddElement
<1>q. QED
  BY <1>2, CountMonotone

----------------------------------------------------------------------------
(* Time                                                                     *)

LEMMA EntriesFinite == IsFiniteSet(Entries)
BY UidsFinite, FS_Product DEF Entries

(* The order of deadlines does not change: one that is not earlier than       *)
(* another is not earlier after a while.                                     *)
LEMMA LaterMonotone ==
  ASSUME left \in [Entries -> Int], Timed \subseteq Entries,
         NEW e \in Timed, NEW f \in Timed, left[e] <= left[f]
  PROVE  Later(e) \in Int /\ Later(f) \in Int /\ Later(e) <= Later(f)
<1> DEFINE Rank(x) == {left[g] : g \in {g \in Timed : left[x] <= left[g] /\ left[g] <= 0}}
<1>0. left[e] \in Int /\ left[f] \in Int
  OBVIOUS
<1>1. \A x \in Timed : IsFiniteSet(Rank(x))
  <2> TAKE x \in Timed
  <2>1. IsFiniteSet({g \in Timed : left[x] <= left[g] /\ left[g] <= 0})
    BY EntriesFinite, FS_Subset
  <2> DEFINE G == {g \in Timed : left[x] <= left[g] /\ left[g] <= 0}
  <2>2. [g \in G |-> left[g]] \in Surjection(G, Rank(x))
    BY DEF Surjection
  <2>q. QED
    BY <2>1, <2>2, FS_Surjection, Zenon
<1>2. \A x \in Timed : Cardinality(Rank(x)) \in Nat
  BY <1>1, FS_CardinalityType
<1>3. \A x \in Timed : Later(x) = IF left[x] > 0 THEN left[x] - 1 ELSE -Cardinality(Rank(x))
  BY DEF Later
<1> HIDE DEF Rank
<1>4. CASE left[e] > 0
  BY <1>0, <1>3, <1>4
<1>5. CASE ~(left[e] > 0) /\ left[f] > 0
  BY <1>0, <1>2, <1>3, <1>5
<1>6. CASE ~(left[f] > 0)
  <2>1. \A g \in Timed : left[g] \in Int
    OBVIOUS
  <2>2. Rank(f) \subseteq Rank(e)
    BY <1>0, <2>1 DEF Rank
  <2>3. Cardinality(Rank(f)) <= Cardinality(Rank(e))
    BY <1>1, <2>2, FS_Subset
  <2>q. QED
    BY <1>0, <1>2, <1>3, <1>6, <2>3
<1>q. QED
  BY <1>0, <1>4, <1>5, <1>6

LEMMA ElapsedType ==
  ASSUME left \in [Entries -> Int], Timed \subseteq Entries, Elapse
  PROVE  left' \in [Entries -> Int]
<1>1. \A e \in Timed : left[e] <= left[e]
  OBVIOUS
<1>2. \A e \in Timed : Later(e) \in Int
  BY <1>1, LaterMonotone
<1>q. QED
  BY <1>2 DEF Elapse

----------------------------------------------------------------------------
(* Types                                                                    *)

(* Where the caller is, what it does to its event is still to come.          *)
CallerInv ==
  /\ caller = "registering" => te = uid_for_next_event_ /\ te \in Uids
  /\ caller \in {"push", "pushing"} =>
       /\ te \in Made
       /\ \A e \in event_queue_ \cup popped : Uid(e) # te
       /\ fired[te] = 0
       /\ ~Overtaker(te)
  /\ caller = "erasing" => te \in valid_uid_

(* Where the daemon is, it has an event of the queue in its hand, which, if   *)
(* it was found valid, is then to be queued again or fired.                  *)
DaemonInv ==
  /\ Holding => event \in event_queue_
  /\ daemon = "task" \/ (daemon = "pop" /\ Uid(event) \in valid_uid_) =>
       (loop[Uid(event)] => event \in popped)
  /\ daemon = "pop" /\ Uid(event) \in valid_uid_ =>
       loop[Uid(event)] \/ fired[Uid(event)] > 0

(* What is now before the event the daemon has in its hand was pushed since,  *)
(* and is the only entry of its event.                                      *)
HeldInv ==
  Holding =>
    \A e \in event_queue_ : left[e] < left[event] =>
      /\ <<Uid(e), Uid(event)>> \in overtook
      /\ \A f \in event_queue_ : Uid(f) = Uid(e) => f = e
      /\ \A f \in popped : Uid(f) # Uid(e)

(* Only loop events are queued again, or have more than one entry.           *)
CopyInv ==
  /\ \A e \in popped : loop[Uid(e)]
  /\ \A e \in event_queue_ : loop[Uid(e)] \/ e = <<Uid(e), Uid(e)>>

(* What was not created has not been pushed in front of anything.            *)
MadeInv ==
  \A u \in Uids : u \notin Made => fired[u] = 0 /\ ~Overtaker(u)

(* An event that fired after it was cancelled is not valid any more, and the *)
(* daemon is past it.                                                       *)
LateInv ==
  \A u \in Uids :
    /\ fired_late[u] <= 1
    /\ fired_late[u] # 0 =>
         u \in Made /\ u \notin valid_uid_ /\ ~(daemon = "task" /\ Uid(event) = u)

Inv == TypeOK /\ CallerInv /\ DaemonInv /\ HeldInv /\ CopyInv /\ MadeInv /\ LateInv

LEMMA MadeUids == TypeOK => Made \subseteq Uids
BY TimerAssumption DEF TypeOK, Made, Uids

LEMMA CountUp ==
  ASSUME NEW f \in [Uids -> Nat], NEW u
  PROVE  [f EXCEPT ![u] = @ + 1] \in [Uids -> Nat]
<1> DEFINE g == [f EXCEPT ![u] = @ + 1]
<1>1. \A v \in Uids : f[v] \in Nat /\ f[v] + 1 \in Nat
  OBVIOUS
<1>2. g = [v \in Uids |-> IF v = u THEN f[v] + 1 ELSE f[v]]
  OBVIOUS
<1> HIDE DEF g
<1>3. g \in [Uids -> Nat]
  BY <1>1, <1>2
<1>q. QED
  BY <1>3 DEF g

LEMMA Initially == Init => Inv
<1> SUFFICES ASSUME Init PROVE Inv
  OBVIOUS
<1>1. TypeOK
  <2>1. /\ loop \in [Uids -> BOOLEAN]
        /\ period_ms \in [Uids -> Nat]
        /\ left \in [Entries -> Int]
        /\ fired \in [Uids -> Nat]
        /\ fired_late \in [Uids -> Nat]
    BY DEF Init
  <2>2. uid_for_next_event_ \in 0 .. MaxEvents
    BY TimerAssumption DEF Init
  <2>3. event \in Nat \X Nat /\ te \in Nat /\ sleep_ms \in Int
    BY DEF Init
  <2>4. caller \in CallerPlaces /\ daemon \in DaemonPlaces
    BY DEF Init, CallerPlaces, DaemonPlaces
  <2>5. /\ event_queue_ = {} /\ valid_uid_ = {} /\ popped = {} /\ overtook = {}
        /\ push_flag_ \in BOOLEAN /\ run_flag_ \in BOOLEAN /\ can_destroy_ \in BOOLEAN
    BY DEF Init
  <2>q. QED
    BY <2>1, <2>2, <2>3, <2>4, <2>5 DEF TypeOK
<1>2. \A u \in Uids : fired[u] = 0 /\ fired_late[u] = 0
  BY DEF Init
<1>3. MadeInv /\ LateInv
  BY <1>2 DEF Init, MadeInv, LateInv, Overtaker
<1>q. QED
  BY <1>1, <1>3 DEF Init, Inv, CallerInv, DaemonInv, HeldInv, CopyInv, Holding

(* Every step keeps the types, ...                                          *)
LEMMA TypesKept == TypeOK /\ CallerInv /\ DaemonInv /\ [Next]_vars => TypeOK'
<1> SUFFICES ASSUME TypeOK, CallerInv, DaemonInv, [Next]_vars PROVE TypeOK'
  OBVIOUS
<1> USE TimerAssumption DEF TypeOK, queue, uids, calls, running, firing
<1>1. ASSUME NEW is_loop \in BOOLEAN, NEW period \in Periods, SetEvent(is_loop, period)
      PROVE  TypeOK'
  <2>1. /\ te' \in Nat /\ caller' = "registering"
        /\ loop' \in [Uids -> BOOLEAN] /\ period_ms' \in [Uids -> Nat]
    BY <1>1 DEF SetEvent, Call, Uids
  <2>2. caller' \in CallerPlaces
    BY <2>1 DEF CallerPlaces
  <2>q. QED
    BY <1>1, <2>1, <2>2 DEF SetEvent
<1>2. ASSUME NEW uid \in Uids, CancelEvent(uid) PROVE TypeOK'
  BY <1>2, SMTT(40) DEF CancelEvent, Call, CallerPlaces, Uids
<1>3. CASE Delete
  BY <1>3 DEF Delete, Call, CallerPlaces
<1>4. CASE CreateTimerEvent
  <2>1. /\ te \in Uids /\ period_ms[te] \in Nat
        /\ left' = [left EXCEPT ![<<te, te>>] = period_ms[te]]
        /\ uid_for_next_event_' = te + 1 /\ te = uid_for_next_event_
        /\ valid_uid_' = valid_uid_ \cup {te}
    BY <1>4 DEF CreateTimerEvent, Call, CallerInv
  <2>2. left' \in [Entries -> Int]
    BY <2>1 DEF Entries
  <2>3. uid_for_next_event_' \in 0 .. MaxEvents /\ uid_for_next_event_' = uid_for_next_event_ + 1
    BY <2>1 DEF Uids
  <2>4. caller' \in CallerPlaces
    BY <1>4 DEF CreateTimerEvent, Call, CallerPlaces
  <2>5. /\ \A u \in valid_uid_' : u < uid_for_next_event_'
        /\ valid_uid_' \subseteq Uids
    BY <2>1, <2>3 DEF Uids
  <2>6. \A e \in popped \cup event_queue_ : Uid(e) < uid_for_next_event_'
    <3>1. \A e \in popped \cup event_queue_ : Uid(e) \in Int
      BY DEF Entries, Uid, Uids
    <3>q. QED
      BY <2>3, <3>1
  <2>q. QED
    BY <1>4, <2>2, <2>3, <2>4, <2>5, <2>6 DEF CreateTimerEvent
<1>5. CASE BeginPush
  BY <1>5 DEF BeginPush, Call, CallerPlaces
<1>6. CASE EndPush
  <2>1. te \in Made /\ te \in Uids
    BY <1>6 DEF EndPush, Call, CallerInv, Made, Uids
  <2>2. <<te, te>> \in Entries /\ Uid(<<te, te>>) = te
    BY <2>1 DEF Entries, Uid
  <2>3. CASE Holding
    <3>1. Uid(event) \in Uids
      BY <2>3 DEF DaemonInv, Entries, Uid
    <3>q. QED
      BY <1>6, <2>1, <2>2, <3>1 DEF EndPush, Call, CallerPlaces, Made
  <2>4. CASE ~Holding
    BY <1>6, <2>1, <2>2, <2>4 DEF EndPush, Call, CallerPlaces, Made
  <2>q. QED
    BY <2>3, <2>4
<1>7. CASE SetPushFlag
  BY <1>7 DEF SetPushFlag, Call, CallerPlaces
<1>8. CASE RemoveUid
  BY <1>8 DEF RemoveUid, Call, CallerPlaces
<1>9. CASE Deleted
  BY <1>9 DEF Deleted, Call, CallerPlaces
<1>10. CASE TestRunFlag
  BY <1>10 DEF TestRunFlag, Run, DaemonPlaces
<1>11. CASE TestEmpty
  BY <1>11 DEF TestEmpty, Run, DaemonPlaces
<1>12. CASE TakeTop
  <2>1. event' \in Entries
    BY <1>12 DEF TakeTop, Top, Earliest
  <2>2. event' \in Nat \X Nat
    BY <2>1 DEF Entries, Uids
  <2>q. QED
    BY <1>12, <2>2 DEF TakeTop, Run, DaemonPlaces
<1>13. CASE TestTop
  BY <1>13 DEF TestTop, Run, DaemonPlaces, DaemonInv, Holding
<1>14. CASE PushTask
  <2>1. fired' \in [Uids -> Nat] /\ fired_late' \in [Uids -> Nat]
    <3>1. /\ [fired EXCEPT ![Uid(event)] = @ + 1] \in [Uids -> Nat]
          /\ [fired_late EXCEPT ![Uid(event)] = @ + 1] \in [Uids -> Nat]
      BY CountUp, Zenon
    <3>2. /\ fired' = IF loop[Uid(event)] THEN fired ELSE [fired EXCEPT ![Uid(event)] = @ + 1]
          /\ \/ fired_late' = fired_late
             \/ fired_late' = [fired_late EXCEPT ![Uid(event)] = @ + 1]
      BY <1>14 DEF PushTask
    <3>q. QED
      BY <3>1, <3>2
  <2>q. QED
    BY <1>14, <2>1 DEF PushTask, Run, DaemonPlaces
<1>15. CASE Pop
  <2>1. PICK e \in Top :
          /\ event_queue_' = event_queue_ \ {e}
          /\ left' = [left EXCEPT ![e] = 0]
          /\ popped' = IF e # event /\ event \in popped
                         THEN (popped \ {event}) \cup {<<Uid(event), Uid(e)>>}
                         ELSE popped
    BY <1>15 DEF Pop
  <2>2. left' \in [Entries -> Int]
    <3>1. left' = [left EXCEPT ![e] = 0] /\ 0 \in Int
      BY <2>1
    <3>q. QED
      BY <3>1, Zenon
  <2>3. e \in Entries /\ event \in event_queue_ /\ event \in Entries
    BY <1>15, <2>1 DEF Pop, Run, DaemonInv, Holding, Top, Earliest
  <2>4. <<Uid(event), Uid(e)>> \in Entries /\ Uid(<<Uid(event), Uid(e)>>) = Uid(event)
    BY <2>3 DEF Entries, Uid
  <2>q. QED
    BY <1>15, <2>1, <2>2, <2>3, <2>4 DEF Pop, Run, DaemonPlaces
<1>16. CASE TestMore
  BY <1>16 DEF TestMore, Run, DaemonPlaces
<1>17. CASE Repush
  <2>1. PICK e \in popped : /\ event_queue_' = event_queue_ \cup {e}
                            /\ left' = [left EXCEPT ![e] = period_ms[Uid(e)]]
                            /\ popped' = popped \ {e}
    BY <1>17 DEF Repush
  <2>2. e \in Entries /\ period_ms[Uid(e)] \in Nat
    BY <2>1 DEF Entries, Uid
  <2>3. left' \in [Entries -> Int]
    BY <2>1, <2>2
  <2>q. QED
    BY <1>17, <2>1, <2>3 DEF Repush, Run, DaemonPlaces
<1>18. CASE Repushed
  BY <1>18 DEF Repushed, Run, DaemonPlaces
<1>19. CASE EvalNextInterval
  BY <1>19 DEF EvalNextInterval, Run, DaemonPlaces, Top, Earliest
<1>20. CASE Interrupted
  BY <1>20 DEF Interrupted, Run, DaemonPlaces
<1>21. CASE ClearPushFlag
  <2>1. daemon' \in DaemonPlaces /\ sleep_ms' \in Int
    BY <1>21 DEF ClearPushFlag, Run, DaemonPlaces
  <2>3. push_flag_' \in BOOLEAN
    BY <1>21, Zenon DEF ClearPushFlag
  <2>2. /\ UNCHANGED <<event_queue_, left, valid_uid_, uid_for_next_event_, loop, period_ms>>
        /\ UNCHANGED <<run_flag_, can_destroy_, caller, te>>
        /\ UNCHANGED <<event, popped, fired, fired_late, overtook>>
    BY <1>21 DEF ClearPushFlag
  <2>q. QED
    BY <2>1, <2>2, <2>3
<1>22. CASE WakeUp
  BY <1>22 DEF WakeUp, DaemonPlaces
<1>23. CASE Race
  BY <1>23 DEF Race, DaemonPlaces
<1>24. CASE Elapse
  <2>1. Timed \subseteq Entries
    BY DEF Timed, CallerInv, Made, Entries, Uids
  <2>2. left' \in [Entries -> Int]
    BY <1>24, <2>1, ElapsedType
  <2>q. QED
    BY <1>24, <2>2 DEF Elapse
<1>25. CASE UNCHANGED vars
  BY <1>25, SMTT(40) DEF vars
<1>q. QED
  BY <1>1, <1>2, <1>3, <1>4, <1>5, <1>6, <1>7, <1>8, <1>9, <1>10, <1>11, <1>12, <1>13,
     <1>14, <1>15, <1>16, <1>17, <1>18, <1>19, <1>20, <1>21, <1>22, <1>23, <1>24, <1>25
  DEF Next, Caller, Daemon

----------------------------------------------------------------------------
(* What becomes of an event                                                 *)

(* What the invariant says of the entries of the queue.                      *)
LEMMA EntryFacts ==
  ASSUME Inv
  PROVE  /\ \A e \in event_queue_ \cup popped :
              e \in Entries /\ Uid(e) \in Uids /\ Uid(e) \in Made
         /\ \A e \in event_queue_ : left[e] \in Int
         /\ Holding => event \in event_queue_
         /\ caller \in {"push", "pushing"} => <<te, te>> \notin event_queue_ \cup popped
BY DEF Inv, TypeOK, DaemonInv, CallerInv, Made, Entries, Uid, Uids

(* ... and the rest of the invariant.                                       *)
LEMMA EventsKept ==
  Inv /\ [Next]_vars =>
    CallerInv' /\ DaemonInv' /\ HeldInv' /\ CopyInv' /\ MadeInv' /\ LateInv'
<1> DEFINE Kept == CallerInv' /\ DaemonInv' /\ HeldInv' /\ CopyInv' /\ MadeInv' /\ LateInv'
<1> SUFFICES ASSUME Inv, [Next]_vars PROVE Kept
  OBVIOUS
<1>0. /\ \A e \in event_queue_ \cup popped : e \in Entries /\ Uid(e) \in Uids /\ Uid(e) \in Made
      /\ \A e \in event_queue_ : left[e] \in Int
      /\ Holding => event \in event_queue_
      /\ caller \in {"push", "pushing"} => <<te, te>> \notin event_queue_ \cup popped
  BY EntryFacts
<1> USE DEF Inv, TypeOK, queue, uids, calls, running, firing, CallerInv, DaemonInv, HeldInv, CopyInv, MadeInv, LateInv, Made, Holding, Overtaker
<1>1. ASSUME NEW is_loop \in BOOLEAN, NEW period \in Periods, SetEvent(is_loop, period)
      PROVE  Kept
  BY <1>1, <1>0 DEF SetEvent, Call
<1>2. ASSUME NEW uid \in Uids, CancelEvent(uid) PROVE Kept
  BY <1>2, <1>0 DEF CancelEvent, Call
<1>3. CASE Delete
  BY <1>3, <1>0 DEF Delete, Call
<1>4. CASE CreateTimerEvent
  <2>1. /\ caller = "registering" /\ caller' = "push" /\ te = uid_for_next_event_
        /\ te \in Uids /\ uid_for_next_event_' = te + 1 /\ valid_uid_' = valid_uid_ \cup {te}
        /\ left' = [left EXCEPT ![<<te, te>>] = period_ms[te]]
        /\ UNCHANGED <<event_queue_, loop, period_ms, te, daemon, firing>>
    BY <1>4 DEF CreateTimerEvent, Call
  <2>2. te \notin Made /\ \A e \in event_queue_ \cup popped : Uid(e) # te
    BY <1>0, <2>1
  <2>3. Uid(<<te, te>>) = te
    BY DEF Uid
  <2>4. \A e \in event_queue_ : left'[e] = left[e]
    BY <1>0, <2>1, <2>2, <2>3
  <2>5. CallerInv' /\ MadeInv' /\ LateInv' /\ CopyInv'
    BY <2>1, <2>2
  <2>6. DaemonInv'
    BY <1>0, <2>1, <2>2
  <2>7. HeldInv'
    BY <1>0, <2>1, <2>4
  <2>q. QED
    BY <2>5, <2>6, <2>7
<1>5. CASE BeginPush
  BY <1>5, <1>0 DEF BeginPush, Call
<1>6. CASE EndPush
  <2> DEFINE new == <<te, te>>
  <2>1. /\ caller = "pushing" /\ caller' = "flag" /\ te \in Made /\ te \in Uids
        /\ event_queue_' = event_queue_ \cup {new}
        /\ overtook' = overtook \cup IF Holding /\ left[new] < left[event]
                                      THEN {<<te, Uid(event)>>} ELSE {}
        /\ UNCHANGED <<left, uids, te, daemon, event, popped, fired, fired_late>>
    <3>1. caller = "pushing" /\ te \in Made
      BY <1>6 DEF EndPush, Call
    <3>2. te \in Uids
      BY <3>1, MadeUids
    <3>q. QED
      BY <1>6, <3>1, <3>2 DEF EndPush, Call
  <2>2. Uid(new) = te /\ new \in Entries
    BY <2>1 DEF Uid, Entries
  <2>3. \A e \in event_queue_ \cup popped : Uid(e) # te
    BY <2>1
  <2> HIDE DEF new
  <2>4. CallerInv' /\ DaemonInv' /\ LateInv'
    BY <2>1
  <2>5. CopyInv'
    <3>1. new = <<Uid(new), Uid(new)>>
      BY <2>2 DEF new
    <3>q. QED
      BY <2>1, <3>1
  <2>6. MadeInv'
    BY <2>1
  <2>7. HeldInv'
    <3> SUFFICES ASSUME Holding, NEW e \in event_queue_', left[e] < left[event]
                 PROVE  /\ <<Uid(e), Uid(event)>> \in overtook'
                        /\ \A f \in event_queue_' : Uid(f) = Uid(e) => f = e
                        /\ \A f \in popped : Uid(f) # Uid(e)
      BY <2>1
    <3>1. CASE e = new
      BY <2>1, <2>2, <2>3, <3>1
    <3>2. CASE e # new
      BY <2>1, <2>2, <2>3, <3>2
    <3>q. QED
      BY <3>1, <3>2
  <2>q. QED
    BY <2>4, <2>5, <2>6, <2>7
<1>7. CASE SetPushFlag
  BY <1>7, <1>0 DEF SetPushFlag, Call
<1>8. CASE RemoveUid
  BY <1>8, <1>0 DEF RemoveUid, Call
<1>9. CASE Deleted
  BY <1>9, <1>0 DEF Deleted, Call
<1>10. CASE TestRunFlag
  BY <1>10, <1>0 DEF TestRunFlag, Run
<1>11. CASE TestEmpty
  BY <1>11, <1>0 DEF TestEmpty, Run
<1>12. CASE TakeTop
  <2>1. /\ daemon = "top" /\ daemon' = "valid" /\ event' \in event_queue_
        /\ \A e \in event_queue_ : left[event'] <= left[e]
        /\ UNCHANGED <<queue, uids, calls, popped, fired, fired_late, overtook>>
    BY <1>12 DEF TakeTop, Run, Top, Earliest
  <2>2. HeldInv'
    BY <1>0, <2>1
  <2>q. QED
    BY <2>1, <2>2
<1>13. CASE TestTop
  <2>1. /\ daemon = "valid" /\ daemon' \in {"pop", "task", "repush"} /\ event \in event_queue_
        /\ daemon' = "pop" => Uid(event) \notin valid_uid_
        /\ daemon' = "task" => Uid(event) \in valid_uid_ /\ (loop[Uid(event)] => event \in popped')
        /\ popped' = popped \/ (popped' = popped \cup {event} /\ loop[Uid(event)])
        /\ UNCHANGED <<queue, uids, calls, event, fired, fired_late, overtook>>
    BY <1>13 DEF TestTop, Run
  <2>2. CallerInv' /\ CopyInv' /\ MadeInv'
    BY <2>1
  <2>3. DaemonInv' /\ LateInv'
    BY <2>1
  <2>4. HeldInv'
    <3> SUFFICES ASSUME NEW e \in event_queue_, left[e] < left[event], NEW f \in popped'
                 PROVE  Uid(f) # Uid(e)
      BY <2>1
    <3>1. event # e
      BY <1>0, <2>1
    <3>2. \A g \in event_queue_ : Uid(g) = Uid(e) => g = e
      BY <2>1
    <3>3. Uid(event) # Uid(e)
      BY <2>1, <3>1, <3>2
    <3>q. QED
      BY <2>1, <3>3
  <2>q. QED
    BY <2>2, <2>3, <2>4
<1>14. CASE PushTask
  <2>1. /\ daemon = "task" /\ daemon' = "pop" /\ event \in event_queue_
        /\ (loop[Uid(event)] => event \in popped)
        /\ Uid(event) \in Uids /\ Uid(event) \in Made
        /\ fired' = IF loop[Uid(event)] THEN fired ELSE [fired EXCEPT ![Uid(event)] = @ + 1]
        /\ fired_late' = IF Uid(event) \in valid_uid_
                           THEN fired_late
                           ELSE [fired_late EXCEPT ![Uid(event)] = @ + 1]
        /\ UNCHANGED <<queue, uids, calls, event, popped, overtook>>
    BY <1>0, <1>14 DEF PushTask, Run
  <2>2. fired_late[Uid(event)] = 0
    BY <2>1
  <2>3. CallerInv'
    <3>1. caller \in {"push", "pushing"} => Uid(event) # te /\ fired[te] = 0 /\ te \in Uids
      BY <2>1, MadeUids
    <3>2. caller \in {"push", "pushing"} => fired'[te] = 0
      BY <2>1, <3>1
    <3>q. QED
      BY <2>1, <3>2
  <2>4. DaemonInv'
    BY <2>1
  <2>5. HeldInv' /\ CopyInv'
    BY <2>1
  <2>6. MadeInv'
    BY <2>1
  <2>7. LateInv'
    BY <2>1, <2>2
  <2>q. QED
    BY <2>3, <2>4, <2>5, <2>6, <2>7
<1>15. CASE Pop
  <2>1. PICK e \in event_queue_ :
          /\ event_queue_' = event_queue_ \ {e}
          /\ popped' = IF e # event /\ event \in popped
                         THEN (popped \ {event}) \cup {<<Uid(event), Uid(e)>>}
                         ELSE popped
    BY <1>15 DEF Pop, Top, Earliest
  <2>2. /\ daemon = "pop" /\ daemon' = "more" /\ event \in event_queue_
        /\ UNCHANGED <<uids, calls, event, fired, fired_late, overtook>>
    BY <1>15 DEF Pop, Run
  <2>3. \A f \in popped' : \E g \in popped : Uid(f) = Uid(g)
    BY <2>1 DEF Uid
  <2>4. CallerInv'
    <3>1. \A f \in event_queue_' \cup popped' : \E g \in event_queue_ \cup popped : Uid(f) = Uid(g)
      BY <2>1, <2>3
    <3>q. QED
      BY <2>2, <3>1
  <2>6. CopyInv'
    BY <2>1, <2>2, <2>3
  <2>5. DaemonInv' /\ HeldInv' /\ MadeInv' /\ LateInv'
    BY <2>2
  <2>q. QED
    BY <2>4, <2>5, <2>6
<1>16. CASE TestMore
  BY <1>16, <1>0 DEF TestMore, Run
<1>17. CASE Repush
  <2>1. PICK e \in popped : event_queue_' = event_queue_ \cup {e} /\ popped' = popped \ {e}
    BY <1>17 DEF Repush
  <2>2. /\ daemon = "repush" /\ daemon' = "repush"
        /\ UNCHANGED <<uids, calls, event, fired, fired_late, overtook>>
    BY <1>17 DEF Repush, Run
  <2>q. QED
    BY <2>1, <2>2
<1>18. CASE Repushed
  BY <1>18, <1>0 DEF Repushed, Run
<1>19. CASE EvalNextInterval
  BY <1>19, <1>0 DEF EvalNextInterval, Run
<1>20. CASE Interrupted
  BY <1>20, <1>0 DEF Interrupted, Run
<1>21. CASE ClearPushFlag
  BY <1>21, <1>0 DEF ClearPushFlag, Run
<1>22. CASE WakeUp
  BY <1>22, <1>0 DEF WakeUp
<1>23. CASE Race
  BY <1>23, <1>0 DEF Race
<1>24. CASE Elapse
  <2>1. /\ event_queue_' = event_queue_
        /\ left' = [e \in Entries |-> IF e \in Timed THEN Later(e) ELSE left[e]]
        /\ UNCHANGED <<uids, calls, daemon, firing>>
    BY <1>24 DEF Elapse
  <2>2. HeldInv'
    <3>0. caller \in {"push", "pushing"} => te \in Uids
      BY MadeUids
    <3>1. Timed \subseteq Entries /\ event_queue_ \subseteq Timed
      BY <3>0 DEF Timed, Entries
    <3>2. \A e, f \in event_queue_ : left[e] <= left[f] => left'[e] <= left'[f]
                                   /\ left'[e] \in Int /\ left'[f] \in Int
      <4> SUFFICES ASSUME NEW e \in event_queue_, NEW f \in event_queue_, left[e] <= left[f]
                   PROVE  left'[e] <= left'[f] /\ left'[e] \in Int /\ left'[f] \in Int
        BY Zenon
      <4>1. e \in Timed /\ f \in Timed /\ e \in Entries /\ f \in Entries
        BY <1>0, <3>1
      <4>2. Later(e) \in Int /\ Later(f) \in Int /\ Later(e) <= Later(f)
        BY <3>1, <4>1, LaterMonotone
      <4>q. QED
        BY <2>1, <4>1, <4>2
    <3>3. \A e, f \in event_queue_ : left'[e] < left'[f] => left[e] < left[f]
      BY <1>0, <3>2
    <3>q. QED
      BY <1>0, <2>1, <3>3
  <2>q. QED
    BY <2>1, <2>2
<1>25. CASE UNCHANGED vars
  BY <1>25, <1>0 DEF vars
<1>q. QED
  BY <1>1, <1>2, <1>3, <1>4, <1>5, <1>6, <1>7, <1>8, <1>9, <1>10, <1>11, <1>12, <1>13,
     <1>14, <1>15, <1>16, <1>17, <1>18, <1>19, <1>20, <1>21, <1>22, <1>23, <1>24, <1>25
  DEF Next, Caller, Daemon

LEMMA InvHolds == Spec => []Inv
<1>1. Inv /\ [Next]_vars => Inv'
  BY TypesKept, EventsKept DEF Inv
<1>q. QED
  BY Initially, <1>1, PTL DEF Spec

(* The types of the queue, of the events and of the two threads, and: what is *)
(* queued, valid, or waits to be queued again, is an event that was created.  *)
THEOREM TypeCorrect == Spec => []TypeOK
<1>1. Inv => TypeOK
  BY DEF Inv
<1>q. QED
  BY <1>1, InvHolds, PTL

(* An event that CancelEvent made invalid is handed to the pool at most once  *)
(* after that: the daemon tests IsValidUid again before the next time.        *)
THEOREM CancelWorks == Spec => []CancelledFiresOnce
<1>1. Inv => CancelledFiresOnce
  BY DEF Inv, LateInv, CancelledFiresOnce
<1>q. QED
  BY <1>1, InvHolds, PTL

(* pop() removes the event that was read, or one pushed in front of it, which *)
(* has no other entry; and a loop event is to be queued again by its uid.     *)
LEMMA PopRemoves ==
  ASSUME Inv, Pop
  PROVE  \E e \in event_queue_ :
           /\ event_queue_' = event_queue_ \ {e}
           /\ e # event => /\ <<Uid(e), Uid(event)>> \in overtook
                           /\ \A f \in event_queue_ : Uid(f) = Uid(e) => f = e
                           /\ \A f \in popped : Uid(f) # Uid(e)
           /\ \A f \in popped : \E g \in popped' : Uid(g) = Uid(f)
           /\ \A g \in popped' : \E f \in popped : Uid(g) = Uid(f)
<1>1. PICK e \in Top :
        /\ event \in Top => e = event
        /\ event_queue_' = event_queue_ \ {e}
        /\ popped' = IF e # event /\ event \in popped
                       THEN (popped \ {event}) \cup {<<Uid(event), Uid(e)>>}
                       ELSE popped
  BY DEF Pop
<1>2. e \in event_queue_ /\ \A f \in event_queue_ : left[e] <= left[f]
  BY <1>1 DEF Top, Earliest
<1>3. event \in event_queue_ /\ Holding
  BY DEF Inv, DaemonInv, Pop, Run, Holding
<1>4. e # event => left[e] < left[event]
  <2>1. ASSUME left[event] <= left[e] PROVE e = event
    <3>1. \A f \in event_queue_ : left[f] \in Int
      BY EntryFacts
    <3>2. \A f \in event_queue_ : left[event] <= left[f]
      BY <1>2, <1>3, <2>1, <3>1
    <3>q. QED
      BY <1>1, <1>3, <3>2 DEF Top, Earliest
  <2>q. QED
    BY <1>2, <1>3, <2>1, EntryFacts
<1>5. Uid(<<Uid(event), Uid(e)>>) = Uid(event)
  BY DEF Uid
<1>6. /\ \A f \in popped : \E g \in popped' : Uid(g) = Uid(f)
      /\ \A g \in popped' : \E f \in popped : Uid(g) = Uid(f)
  BY <1>1, <1>5
<1>q. QED
  BY <1>1, <1>2, <1>3, <1>4, <1>6 DEF Inv, HeldInv

(* NothingLost is inductive, once PopRemoves says what pop() removes.        *)
LEMMA LossKept == Inv /\ NothingLost /\ [Next]_vars => NothingLost'
<1> SUFFICES ASSUME Inv, NothingLost, [Next]_vars PROVE NothingLost'
  OBVIOUS
<1> USE DEF Inv, TypeOK, queue, uids, calls, running, firing, Made, NothingLost, Overtaker
<1>1. ASSUME NEW is_loop \in BOOLEAN, NEW period \in Periods, SetEvent(is_loop, period)
      PROVE  NothingLost'
  BY <1>1 DEF SetEvent, Call
<1>2. ASSUME NEW uid \in Uids, CancelEvent(uid) PROVE NothingLost'
  BY <1>2 DEF CancelEvent, Call
<1>3. CASE Delete
  BY <1>3 DEF Delete, Call
<1>4. CASE CreateTimerEvent
  <2>1. /\ te = uid_for_next_event_ /\ te \in Uids
        /\ valid_uid_' = valid_uid_ \cup {te} /\ te' = te /\ caller' = "push"
        /\ UNCHANGED <<event_queue_, popped, loop, fired, daemon, overtook>>
    BY <1>4 DEF CreateTimerEvent, Call, CallerInv
  <2>q. QED
    BY <2>1
<1>5. CASE BeginPush
  BY <1>5 DEF BeginPush, Call
<1>6. CASE EndPush
  <2>1. /\ event_queue_' = event_queue_ \cup {<<te, te>>} /\ Uid(<<te, te>>) = te
        /\ overtook \subseteq overtook'
        /\ UNCHANGED <<uids, te, daemon, popped, fired>>
    BY <1>6 DEF EndPush, Call, Uid
  <2>q. QED
    BY <2>1
<1>7. CASE SetPushFlag
  BY <1>7 DEF SetPushFlag, Call
<1>8. CASE RemoveUid
  BY <1>8 DEF RemoveUid, Call
<1>9. CASE Deleted
  BY <1>9 DEF Deleted, Call
<1>10. CASE TestRunFlag
  BY <1>10 DEF TestRunFlag, Run
<1>11. CASE TestEmpty
  BY <1>11 DEF TestEmpty, Run
<1>12. CASE TakeTop
  BY <1>12 DEF TakeTop, Run
<1>13. CASE TestTop
  <2>1. popped \subseteq popped' /\ UNCHANGED <<queue, uids, calls, fired, overtook>>
        /\ daemon # "undefined"
    BY <1>13 DEF TestTop, Run
  <2>q. QED
    BY <2>1
<1>14. CASE PushTask
  <2>1. /\ daemon = "task" /\ Uid(event) \in Uids
        /\ fired' = IF loop[Uid(event)] THEN fired ELSE [fired EXCEPT ![Uid(event)] = @ + 1]
        /\ UNCHANGED <<queue, uids, calls, popped, overtook>>
    BY <1>14, EntryFacts DEF PushTask, Run, Holding
  <2>2. \A u \in Uids : fired[u] > 0 => fired'[u] > 0
    BY <2>1
  <2>q. QED
    BY <2>1, <2>2
<1>15. CASE Pop
  <2>1. PICK e \in event_queue_ :
           /\ event_queue_' = event_queue_ \ {e}
           /\ e # event => <<Uid(e), Uid(event)>> \in overtook
           /\ \A f \in popped : \E g \in popped' : Uid(g) = Uid(f)
    BY <1>15, PopRemoves
  <2>2. daemon = "pop" /\ UNCHANGED <<uids, calls, fired, overtook>>
    BY <1>15 DEF Pop, Run
  <2>3. event \in event_queue_ /\ Uid(event) \in Uids
    BY <2>2, EntryFacts DEF Holding
  <2>4. \A u \in valid_uid_ : u = Uid(e) =>
          Overtaker(u) \/ (\E f \in popped : Uid(f) = u) \/ (~loop[u] /\ fired[u] > 0)
    <3>1. CASE e = event
      BY <2>2, <3>1 DEF DaemonInv
    <3>2. CASE e # event
      BY <2>1, <2>3, <3>2
    <3>q. QED
      BY <3>1, <3>2
  <2>q. QED
    BY <2>1, <2>2, <2>4
<1>16. CASE TestMore
  BY <1>16 DEF TestMore, Run
<1>17. CASE Repush
  <2>1. PICK e \in popped : event_queue_' = event_queue_ \cup {e} /\ popped' = popped \ {e}
    BY <1>17 DEF Repush
  <2>2. UNCHANGED <<uids, calls, fired, overtook>> /\ daemon # "undefined"
    BY <1>17 DEF Repush, Run
  <2>q. QED
    BY <2>1, <2>2
<1>18. CASE Repushed
  BY <1>18 DEF Repushed, Run
<1>19. CASE EvalNextInterval
  BY <1>19 DEF EvalNextInterval, Run
<1>20. CASE Interrupted
  BY <1>20 DEF Interrupted, Run
<1>21. CASE ClearPushFlag
  BY <1>21 DEF ClearPushFlag, Run
<1>22. CASE WakeUp
  BY <1>22 DEF WakeUp
<1>23. CASE Race
  BY <1>23 DEF Race
<1>24. CASE Elapse
  BY <1>24 DEF Elapse
<1>25. CASE UNCHANGED vars
  BY <1>25 DEF vars
<1>q. QED
  BY <1>1, <1>2, <1>3, <1>4, <1>5, <1>6, <1>7, <1>8, <1>9, <1>10, <1>11, <1>12, <1>13,
     <1>14, <1>15, <1>16, <1>17, <1>18, <1>19, <1>20, <1>21, <1>22, <1>23, <1>24, <1>25
  DEF Next, Caller, Daemon

(* No event falls out of the queue before it fired, and no loop event at all, *)
(* although pop() removes what is at the top then and not the event whose     *)
(* copy the daemon tested: but for those pushed in front of it in between.    *)
THEOREM NoEventLost == Spec => []NothingLost
<1>1. Init => NothingLost
  BY DEF Init, NothingLost
<1>q. QED
  BY <1>1, LossKept, InvHolds, PTL DEF Spec

----------------------------------------------------------------------------
(* How often an event fires                                                 *)

Present(u) == \E e \in event_queue_ \cup popped : Uid(e) = u

(* What was pushed in front of u, and is not there any more: each may have    *)
(* been popped in the place of u.                                           *)
Spent(u) == {w \in Uids : <<w, u>> \in overtook /\ ~Present(w)}

(* A one-shot event in the queue has fired no more than others were popped in *)
(* its place, but for the one that the next pop() is to remove.              *)
FiredInv ==
  \A u \in Uids : ~loop[u] =>
    /\ fired[u] <= 1 + Cardinality(Spent(u))
    /\ <<u, u>> \in event_queue_ /\ daemon # "undefined" /\ ~(daemon = "pop" /\ event = <<u, u>>)
         => fired[u] <= Cardinality(Spent(u))

(* A step that fires nothing, under which nothing becomes less spent, and     *)
(* which neither queues a one-shot event that fired nor leaves "pop".         *)
LEMMA FiredFrame ==
  ASSUME TypeOK, TypeOK', FiredInv, loop' = loop, fired' = fired,
         \A u \in Uids : Spent(u) \subseteq Spent(u)',
         \A u \in Uids : ~loop[u] /\ <<u, u>> \in event_queue_' /\ daemon' # "undefined"
                           /\ ~(daemon' = "pop" /\ event' = <<u, u>>) =>
           \/ fired[u] = 0
           \/ /\ <<u, u>> \in event_queue_ /\ daemon # "undefined"
              /\ ~(daemon = "pop" /\ event = <<u, u>>)
           \/ fired[u] <= Cardinality(Spent(u)')
  PROVE  FiredInv'
<1> SUFFICES ASSUME NEW u \in Uids, ~loop[u]
             PROVE  /\ fired[u] <= 1 + Cardinality(Spent(u)')
                    /\ <<u, u>> \in event_queue_' /\ daemon' # "undefined"
                       /\ ~(daemon' = "pop" /\ event' = <<u, u>>)
                         => fired[u] <= Cardinality(Spent(u)')
  BY Zenon DEF FiredInv
<1>1. Spent(u)' \subseteq Uids
  BY DEF Spent
<1>2. /\ Cardinality(Spent(u)) \in Nat /\ Cardinality(Spent(u)') \in Nat
      /\ Cardinality(Spent(u)) <= Cardinality(Spent(u)')
  BY <1>1, CountMonotone
<1>3. fired[u] \in Nat
  BY DEF TypeOK
<1>q. QED
  BY <1>2, <1>3 DEF FiredInv

LEMMA FiredKept == Inv /\ Inv' /\ FiredInv /\ [Next]_vars => FiredInv'
<1> SUFFICES ASSUME Inv, Inv', FiredInv, [Next]_vars PROVE FiredInv'
  OBVIOUS
<1>0. TypeOK /\ TypeOK'
  BY DEF Inv
<1>a. ASSUME UNCHANGED <<event_queue_, popped, overtook>>
      PROVE  \A u \in Uids : Spent(u) \subseteq Spent(u)'
  BY <1>a DEF Spent, Present
<1>b. ASSUME UNCHANGED <<event_queue_, popped, overtook, loop, fired>>,
             \/ UNCHANGED <<daemon, event>>
             \/ daemon' = "undefined"
             \/ daemon \notin {"pop", "undefined"}
      PROVE  FiredInv'
  BY <1>0, <1>a, <1>b, FiredFrame
<1> USE DEF queue, uids, calls, running, firing
<1>1. ASSUME NEW is_loop \in BOOLEAN, NEW period \in Periods, SetEvent(is_loop, period)
      PROVE  FiredInv'
  <2>1. /\ te' = uid_for_next_event_ /\ loop' = [loop EXCEPT ![te'] = is_loop]
        /\ UNCHANGED <<event_queue_, popped, overtook, fired, daemon, event>>
    BY <1>1 DEF SetEvent, Call
  <2>2. te' \in Uids /\ te' \notin Made /\ fired[te'] = 0
    BY <1>1, <2>1 DEF SetEvent, Made, Inv, MadeInv
  <2>3. \A u \in Uids : Cardinality(Spent(u)') \in Nat /\ Spent(u)' = Spent(u)
    BY <2>1, CountMonotone DEF Spent, Present
  <2>4. \A u \in Uids : u # te' => loop'[u] = loop[u]
    BY <1>0, <2>1 DEF TypeOK
  <2> SUFFICES ASSUME NEW u \in Uids, ~loop'[u]
               PROVE  /\ fired[u] <= 1 + Cardinality(Spent(u)')
                      /\ <<u, u>> \in event_queue_ /\ daemon # "undefined"
                         /\ ~(daemon = "pop" /\ event = <<u, u>>)
                           => fired[u] <= Cardinality(Spent(u)')
    BY <2>1 DEF FiredInv
  <2>5. CASE u = te'
    BY <2>2, <2>3, <2>5
  <2>6. CASE u # te'
    BY <2>3, <2>4, <2>6 DEF FiredInv
  <2>q. QED
    BY <2>5, <2>6
<1>2. ASSUME NEW uid \in Uids, CancelEvent(uid) PROVE FiredInv'
  BY <1>b, <1>2 DEF CancelEvent, Call
<1>3. CASE Delete
  BY <1>b, <1>3 DEF Delete, Call
<1>4. CASE CreateTimerEvent
  BY <1>b, <1>4 DEF CreateTimerEvent, Call
<1>5. CASE BeginPush
  BY <1>b, <1>5 DEF BeginPush, Call
<1>6. CASE EndPush
  <2>1. /\ caller = "pushing" /\ event_queue_' = event_queue_ \cup {<<te, te>>}
        /\ overtook \subseteq overtook'
        /\ UNCHANGED <<loop, fired, popped, daemon, event>>
    BY <1>6 DEF EndPush, Call
  <2>2. fired[te] = 0 /\ ~Overtaker(te)
    BY <2>1 DEF Inv, CallerInv
  <2>3. \A u \in Uids : Spent(u) \subseteq Spent(u)'
    <3> SUFFICES ASSUME NEW u \in Uids, NEW w \in Spent(u) PROVE w \in Spent(u)'
      OBVIOUS
    <3>1. w \in Uids /\ <<w, u>> \in overtook /\ ~Present(w)
      BY DEF Spent
    <3>2. w # te
      BY <2>2, <3>1 DEF Overtaker
    <3>3. Uid(<<te, te>>) = te
      BY DEF Uid
    <3>4. ~Present(w)'
      BY <2>1, <3>1, <3>2, <3>3 DEF Present
    <3>q. QED
      BY <2>1, <3>1, <3>4 DEF Spent
  <2>4. \A u \in Uids : <<u, u>> = <<te, te>> => u = te
    OBVIOUS
  <2>q. QED
    BY <1>0, <2>1, <2>2, <2>3, <2>4, FiredFrame
<1>7. CASE SetPushFlag
  BY <1>b, <1>7 DEF SetPushFlag, Call
<1>8. CASE RemoveUid
  BY <1>b, <1>8 DEF RemoveUid, Call
<1>9. CASE Deleted
  BY <1>b, <1>9 DEF Deleted, Call
<1>10. CASE TestRunFlag
  BY <1>b, <1>10 DEF TestRunFlag, Run
<1>11. CASE TestEmpty
  BY <1>b, <1>11 DEF TestEmpty, Run
<1>12. CASE TakeTop
  BY <1>b, <1>12 DEF TakeTop, Run
<1>13. CASE TestTop
  <2>1. /\ daemon = "valid" /\ event \in event_queue_
        /\ popped' = popped \/ popped' = popped \cup {event}
        /\ UNCHANGED <<event_queue_, overtook, loop, fired, event>>
    BY <1>13 DEF TestTop, Run, Inv, DaemonInv, Holding
  <2>2. \A u \in Uids : Spent(u) \subseteq Spent(u)'
    BY <2>1 DEF Spent, Present
  <2>q. QED
    BY <1>0, <2>1, <2>2, FiredFrame
<1>14. CASE PushTask
  <2>1. /\ daemon = "task" /\ daemon' = "pop" /\ event \in event_queue_ /\ event' = event
        /\ fired' = IF loop[Uid(event)] THEN fired ELSE [fired EXCEPT ![Uid(event)] = @ + 1]
        /\ UNCHANGED <<event_queue_, popped, overtook, loop>>
    BY <1>14 DEF PushTask, Run, Inv, DaemonInv, Holding
  <2>2. loop[Uid(event)] \/ event = <<Uid(event), Uid(event)>>
    BY <2>1 DEF Inv, CopyInv
  <2>3. \A u \in Uids : Cardinality(Spent(u)) \in Nat /\ Spent(u)' = Spent(u)
    BY <2>1, CountMonotone DEF Spent, Present
  <2> SUFFICES ASSUME NEW u \in Uids, ~loop[u]
               PROVE  /\ fired'[u] <= 1 + Cardinality(Spent(u))
                      /\ <<u, u>> \in event_queue_ /\ event # <<u, u>>
                           => fired'[u] <= Cardinality(Spent(u))
    BY <2>1, <2>3 DEF FiredInv
  <2>4. fired[u] \in Nat
    BY <1>0 DEF TypeOK
  <2>5. CASE u = Uid(event)
    <3>1. event = <<u, u>> /\ fired[u] <= Cardinality(Spent(u))
      BY <2>1, <2>2, <2>5 DEF FiredInv
    <3>2. fired'[u] = fired[u] + 1
      BY <1>0, <2>1, <2>5 DEF TypeOK
    <3>q. QED
      BY <2>3, <2>4, <3>1, <3>2
  <2>6. CASE u # Uid(event)
    <3>1. fired'[u] = fired[u]
      BY <1>0, <2>1, <2>6 DEF TypeOK
    <3>q. QED
      BY <2>1, <3>1 DEF FiredInv
  <2>q. QED
    BY <2>5, <2>6
<1>15. CASE Pop
  <2>1. PICK e \in event_queue_ :
           /\ event_queue_' = event_queue_ \ {e}
           /\ e # event => /\ <<Uid(e), Uid(event)>> \in overtook
                           /\ \A f \in event_queue_ : Uid(f) = Uid(e) => f = e
                           /\ \A f \in popped : Uid(f) # Uid(e)
           /\ \A g \in popped' : \E f \in popped : Uid(g) = Uid(f)
    BY <1>15, PopRemoves
  <2>2. daemon = "pop" /\ UNCHANGED <<overtook, loop, fired, event>>
    BY <1>15 DEF Pop, Run
  <2>3. event \in event_queue_ /\ Uid(e) \in Uids
    BY <2>2, EntryFacts DEF Holding
  <2>4. \A w : Present(w)' => Present(w)
    BY <2>1 DEF Present
  <2>5. \A u \in Uids : Spent(u) \subseteq Spent(u)'
    BY <2>2, <2>4 DEF Spent
  <2>6. ASSUME NEW u \in Uids, ~loop[u], <<u, u>> \in event_queue_', event = <<u, u>>
        PROVE  fired[u] <= Cardinality(Spent(u)')
    <3>1. e # event /\ Uid(event) = u
      BY <2>1, <2>6 DEF Uid
    <3>2. Present(Uid(e)) /\ <<Uid(e), u>> \in overtook
      BY <2>1, <3>1 DEF Present
    <3>3. ~Present(Uid(e))'
      <4>1. \A f \in event_queue_' : Uid(f) # Uid(e)
        BY <2>1, <3>1
      <4>2. \A f \in popped : Uid(f) # Uid(e)
        BY <2>1, <3>1
      <4>3. \A g \in popped' : Uid(g) # Uid(e)
        BY <2>1, <4>2
      <4>q. QED
        BY <4>1, <4>3 DEF Present
    <3>4. Uid(e) \in Spent(u)' /\ Uid(e) \notin Spent(u)
      BY <2>2, <2>3, <3>2, <3>3 DEF Spent
    <3>5. Cardinality(Spent(u)) + 1 <= Cardinality(Spent(u)')
      <4>1. Spent(u)' \subseteq Uids
        BY DEF Spent
      <4>q. QED
        BY <2>5, <3>4, <4>1, CountMore
    <3>6. fired[u] <= 1 + Cardinality(Spent(u))
      BY <2>6 DEF FiredInv
    <3>7. Cardinality(Spent(u)) \in Nat /\ Cardinality(Spent(u)') \in Nat /\ fired[u] \in Nat
      <4>1. Spent(u)' \subseteq Uids
        BY DEF Spent
      <4>q. QED
        BY <1>0, <2>5, <4>1, CountMonotone DEF TypeOK
    <3>q. QED
      BY <3>5, <3>6, <3>7
  <2>7. \A u \in Uids : <<u, u>> \in event_queue_' => <<u, u>> \in event_queue_
    BY <2>1
  <2>q. QED
    BY <1>0, <2>2, <2>5, <2>6, <2>7, FiredFrame
<1>16. CASE TestMore
  BY <1>b, <1>16 DEF TestMore, Run
<1>17. CASE Repush
  <2>1. PICK e \in popped : event_queue_' = event_queue_ \cup {e} /\ popped' = popped \ {e}
    BY <1>17 DEF Repush
  <2>2. daemon = "repush" /\ UNCHANGED <<overtook, loop, fired, event>>
    BY <1>17 DEF Repush, Run
  <2>3. \A u \in Uids : Spent(u) \subseteq Spent(u)'
    BY <2>1, <2>2 DEF Spent, Present
  <2>4. \A u \in Uids : ~loop[u] => <<u, u>> # e
    BY <2>1 DEF Inv, CopyInv, Uid
  <2>q. QED
    BY <1>0, <2>1, <2>2, <2>3, <2>4, FiredFrame
<1>18. CASE Repushed
  BY <1>b, <1>18 DEF Repushed, Run
<1>19. CASE EvalNextInterval
  BY <1>b, <1>19 DEF EvalNextInterval, Run
<1>20. CASE Interrupted
  BY <1>b, <1>20 DEF Interrupted, Run
<1>21. CASE ClearPushFlag
  BY <1>b, <1>21 DEF ClearPushFlag, Run
<1>22. CASE WakeUp
  BY <1>b, <1>22 DEF WakeUp
<1>23. CASE Race
  BY <1>b, <1>23 DEF Race
<1>24. CASE Elapse
  BY <1>b, <1>24 DEF Elapse
<1>25. CASE UNCHANGED vars
  BY <1>b, <1>25 DEF vars
<1>q. QED
  BY <1>1, <1>2, <1>3, <1>4, <1>5, <1>6, <1>7, <1>8, <1>9, <1>10, <1>11, <1>12, <1>13,
     <1>14, <1>15, <1>16, <1>17, <1>18, <1>19, <1>20, <1>21, <1>22, <1>23, <1>24, <1>25
  DEF Next, Caller, Daemon

(* An event set with SetEvent is handed to the pool once, and once more for   *)
(* each event pushed in front of it between the copy of top() and the pop()   *)
(* of HandleExpiredEvents, however many there are and whatever is cancelled.  *)
THEOREM FiresOnce == Spec => []OneShotFiresOnce
<1>1. Init => FiredInv
  <2> SUFFICES ASSUME Init, NEW u \in Uids
               PROVE  fired[u] <= 1 + Cardinality(Spent(u)) /\ event_queue_ = {}
    BY DEF FiredInv
  <2>1. Cardinality(Spent(u)) \in Nat
    BY CountMonotone DEF Spent
  <2>q. QED
    BY <2>1 DEF Init
<1>2. Inv /\ FiredInv => OneShotFiresOnce
  <2> SUFFICES ASSUME Inv, FiredInv, NEW u \in Uids, ~loop[u]
               PROVE  fired[u] <= 1 + Cardinality({w \in Uids : <<w, u>> \in overtook})
    BY DEF OneShotFiresOnce
  <2> DEFINE over == {w \in Uids : <<w, u>> \in overtook}
  <2>1. Spent(u) \subseteq over /\ over \subseteq Uids
    BY DEF Spent
  <2>2. /\ Cardinality(Spent(u)) \in Nat /\ Cardinality(over) \in Nat
        /\ Cardinality(Spent(u)) <= Cardinality(over)
    BY <2>1, CountMonotone
  <2>3. fired[u] \in Nat /\ fired[u] <= 1 + Cardinality(Spent(u))
    BY DEF FiredInv, Inv, TypeOK
  <2> HIDE DEF over
  <2>4. fired[u] <= 1 + Cardinality(over)
    BY <2>2, <2>3
  <2>q. QED
    BY <2>4 DEF over
<1>q. QED
  BY <1>1, <1>2, FiredKept, InvHolds, PTL DEF Spec

----------------------------------------------------------------------------
(* The daemon's sleep                                                       *)

(* No step makes the daemon sleep past a deadline: what is pushed after it    *)
(* computed its sleep comes with the flag that ends it.                      *)
LEMMA SleepKept == Inv /\ NoOversleep /\ [Next]_vars => NoOversleep'
<1> SUFFICES ASSUME Inv, NoOversleep, [Next]_vars PROVE NoOversleep'
  OBVIOUS
<1> USE DEF Inv, TypeOK, queue, uids, calls, running, firing, NoOversleep, Made
<1>1. ASSUME NEW is_loop \in BOOLEAN, NEW period \in Periods, SetEvent(is_loop, period)
      PROVE  NoOversleep'
  BY <1>1 DEF SetEvent, Call
<1>2. ASSUME NEW uid \in Uids, CancelEvent(uid) PROVE NoOversleep'
  BY <1>2 DEF CancelEvent, Call
<1>3. CASE Delete
  BY <1>3 DEF Delete, Call
<1>4. CASE CreateTimerEvent
  <2>1. /\ te = uid_for_next_event_ /\ left' = [left EXCEPT ![<<te, te>>] = period_ms[te]]
        /\ UNCHANGED <<event_queue_, daemon, sleep_ms, push_flag_>> /\ caller = "registering"
    BY <1>4 DEF CreateTimerEvent, Call, CallerInv
  <2>2. <<te, te>> \notin event_queue_
    BY <2>1, EntryFacts DEF Uid
  <2>3. \A e \in event_queue_ : left'[e] = left[e]
    BY <2>1, <2>2, EntryFacts
  <2>q. QED
    BY <2>1, <2>3
<1>5. CASE BeginPush
  BY <1>5 DEF BeginPush, Call
<1>6. CASE EndPush
  BY <1>6 DEF EndPush, Call
<1>7. CASE SetPushFlag
  BY <1>7 DEF SetPushFlag, Call
<1>8. CASE RemoveUid
  BY <1>8 DEF RemoveUid, Call
<1>9. CASE Deleted
  BY <1>9 DEF Deleted, Call
<1>10. CASE TestRunFlag
  BY <1>10 DEF TestRunFlag, Run
<1>11. CASE TestEmpty
  BY <1>11 DEF TestEmpty, Run
<1>12. CASE TakeTop
  BY <1>12 DEF TakeTop, Run
<1>13. CASE TestTop
  BY <1>13 DEF TestTop, Run
<1>14. CASE PushTask
  BY <1>14 DEF PushTask, Run
<1>15. CASE Pop
  BY <1>15 DEF Pop, Run
<1>16. CASE TestMore
  BY <1>16 DEF TestMore, Run
<1>17. CASE Repush
  BY <1>17 DEF Repush, Run
<1>18. CASE Repushed
  BY <1>18 DEF Repushed, Run
<1>19. CASE EvalNextInterval
  BY <1>19 DEF EvalNextInterval, Run, Top, Earliest
<1>20. CASE Interrupted
  BY <1>20 DEF Interrupted, Run
<1>21. CASE ClearPushFlag
  BY <1>21 DEF ClearPushFlag, Run
<1>22. CASE WakeUp
  BY <1>22 DEF WakeUp
<1>23. CASE Race
  BY <1>23 DEF Race
<1>24. CASE Elapse
  <2>1. /\ event_queue_' = event_queue_ /\ UNCHANGED <<daemon, push_flag_, caller>>
        /\ \A e \in event_queue_ : left'[e] = Later(e) /\ left[e] \in Int
    BY <1>24, EntryFacts DEF Elapse, Timed
  <2>2. \A e \in event_queue_ : left[e] > 0 => left'[e] = left[e] - 1
    BY <2>1 DEF Later
  <2>3. daemon = "sleep" /\ sleep_ms' > 0 => sleep_ms > 0 /\ sleep_ms' = sleep_ms - 1
    BY <1>24 DEF Elapse
  <2>4. ASSUME daemon = "sleep", sleep_ms' > 0, NEW e \in event_queue_,
               sleep_ms <= left[e]
        PROVE  sleep_ms' <= left'[e]
    BY <2>1, <2>2, <2>3, <2>4
  <2>q. QED
    BY <2>1, <2>3, <2>4
<1>25. CASE UNCHANGED vars
  BY <1>25 DEF vars
<1>q. QED
  BY <1>1, <1>2, <1>3, <1>4, <1>5, <1>6, <1>7, <1>8, <1>9, <1>10, <1>11, <1>12, <1>13,
     <1>14, <1>15, <1>16, <1>17, <1>18, <1>19, <1>20, <1>21, <1>22, <1>23, <1>24, <1>25
  DEF Next, Caller, Daemon

(* A daemon in PreciseSleepms whose push_flag_ is not set, and not about to   *)
(* be, wakes up by the earliest deadline of the queue.                        *)
THEOREM NoLostWakeUp == Spec => []NoOversleep
<1>1. Init => NoOversleep
  BY DEF Init, NoOversleep
<1>q. QED
  BY <1>1, SleepKept, InvHolds, PTL DEF Spec

===============================================================================
