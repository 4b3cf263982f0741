---------------------------- MODULE RcwsPwm_proofs ----------------------------
(***************************************************************************)
(* Proofs about RcwsPwm for any number of rows and of threads: types and    *)
(* the size of the queue, the order of the rows, and what the exit flag     *)
(* and the stop command achieve.                                           *)
(***************************************************************************)
EXTENDS RcwsPwm, FiniteSetTheorems, SequenceTheorems, TLAPS

(* The first and the rest of a queue, and a queue with one row more.         *)
LEMMA QueueRows ==
  ASSUME pwm_cmd_q_ \in Seq(1 .. Rows)
  PROVE  /\ Len(pwm_cmd_q_) \in Nat
         /\ \A i \in 1 .. Len(pwm_cmd_q_) : pwm_cmd_q_[i] \in 1 .. Rows
         /\ pwm_cmd_q_ = <<>> <=> Len(pwm_cmd_q_) = 0
         /\ pwm_cmd_q_ # <<>> => /\ Head(pwm_cmd_q_) = pwm_cmd_q_[1]
                                 /\ 1 \in 1 .. Len(pwm_cmd_q_)
                                 /\ Tail(pwm_cmd_q_) \in Seq(1 .. Rows)
                                 /\ Len(Tail(pwm_cmd_q_)) = Len(pwm_cmd_q_) - 1
<1>1. Len(pwm_cmd_q_) \in Nat /\ \A i \in 1 .. Len(pwm_cmd_q_) : pwm_cmd_q_[i] \in 1 .. Rows
  BY LenProperties, ElementOfSeq
<1>2. pwm_cmd_q_ = <<>> <=> Len(pwm_cmd_q_) = 0
  BY EmptySeq
<1>3. CASE pwm_cmd_q_ # <<>>
  <2>1. 1 \in 1 .. Len(pwm_cmd_q_)
    BY <1>1, <1>2, <1>3
  <2>2. /\ Tail(pwm_cmd_q_) \in Seq(1 .. Rows)
        /\ Len(Tail(pwm_cmd_q_)) = Len(pwm_cmd_q_) - 1
    BY <1>3, HeadTailProperties
  <2>q. QED
    BY <1>1, <1>2, <2>1, <2>2
<1>q. QED
  BY <1>1, <1>2, <1>3

----------------------------------------------------------------------------
(* Types                                                                    *)

(* What a thread's row is at its places.                                     *)
RowInv ==
  \A t \in Tasks :
    /\ task[t] = "none" => row[t] = 0
    /\ task[t] = "load" => row[t] < Rows
    /\ task[t] \in {"test", "front", "send", "push", "pop"} => row[t] # 0

(* The rows a thread may have in the queue, ...                              *)
Share(t) ==
  CASE task[t] = "none" -> 0
    [] task[t] = "load" -> row[t]
    [] task[t] = "pop"  -> Rows + 1
    [] OTHER            -> Rows

(* ... and a slot for each of them, of each thread.                          *)
Slots == {p \in Tasks \X (0 .. Rows) : p[2] < Share(p[1])}

SlotInv == Len(pwm_cmd_q_) <= Cardinality(Slots)

(* There are never more slots than the bound TypeOK states.                  *)
LEMMA SlotsBounded ==
  ASSUME NEW S \in SUBSET (Tasks \X (0 .. Rows))
  PROVE  IsFiniteSet(S) /\ Cardinality(S) \in Nat /\ Cardinality(S) <= MaxTasks * (Rows + 1)
<1>1. Rows \in Nat /\ MaxTasks \in Nat
  BY PwmAssumption
<1>2. /\ IsFiniteSet(Tasks) /\ Cardinality(Tasks) = MaxTasks
      /\ IsFiniteSet(0 .. Rows) /\ Cardinality(0 .. Rows) = Rows + 1
  <2>1. IsFiniteSet(1 .. MaxTasks) /\ Cardinality(1 .. MaxTasks) = MaxTasks
    BY <1>1, FS_Interval
  <2>2. IsFiniteSet(0 .. Rows) /\ Cardinality(0 .. Rows) = Rows + 1
    BY <1>1, FS_Interval
  <2>q. QED
    BY <2>1, <2>2 DEF Tasks
<1>3. /\ IsFiniteSet(Tasks \X (0 .. Rows))
      /\ Cardinality(Tasks \X (0 .. Rows)) = MaxTasks * (Rows + 1)
  BY <1>2, FS_Product
<1>4. IsFiniteSet(S) /\ Cardinality(S) <= Cardinality(Tasks \X (0 .. Rows))
  BY <1>3, FS_Subset
<1>5. Cardinality(S) \in Nat
  BY <1>4, FS_CardinalityType
<1>q. QED
  BY <1>3, <1>4, <1>5

(* A thread whose share grows by one gets a slot, ...                        *)
LEMMA SlotAdded ==
  ASSUME NEW t \in Tasks, Share(t) \in 0 .. Rows, Share(t)' = Share(t) + 1,
         \A s \in Tasks \ {t} : Share(s)' = Share(s)
  PROVE  Cardinality(Slots') = Cardinality(Slots) + 1
<1>1. Rows \in Nat
  BY PwmAssumption
<1>2. <<t, Share(t)>> \notin Slots
  BY DEF Slots
<1>3. ASSUME NEW s \in Tasks, NEW i \in 0 .. Rows
      PROVE  <<s, i>> \in Slots' <=> <<s, i>> \in Slots \cup {<<t, Share(t)>>}
  <2>1. CASE s = t
    <3>1. i < Share(t)' <=> i < Share(t) \/ i = Share(t)
      BY <1>1
    <3>q. QED
      BY <2>1, <3>1 DEF Slots
  <2>2. CASE s # t
    BY <2>2 DEF Slots
  <2>q. QED
    BY <2>1, <2>2
<1>4. /\ Slots' \subseteq Tasks \X (0 .. Rows)
      /\ Slots \cup {<<t, Share(t)>>} \subseteq Tasks \X (0 .. Rows)
  BY DEF Slots, Tasks
<1>5. Slots' = Slots \cup {<<t, Share(t)>>}
  BY <1>3, <1>4
<1>6. IsFiniteSet(Slots)
  BY <1>4, SlotsBounded
<1>q. QED
  BY <1>2, <1>5, <1>6, FS_AddElement

(* ... one whose share shrinks by one loses one, ...                         *)
LEMMA SlotRemoved ==
  ASSUME NEW t \in Tasks, Share(t)' \in 0 .. Rows, Share(t) = Share(t)' + 1,
         \A s \in Tasks \ {t} : Share(s)' = Share(s)
  PROVE  Cardinality(Slots') = Cardinality(Slots) - 1
<1>1. Rows \in Nat
  BY PwmAssumption
<1>2. <<t, Share(t)'>> \in Slots
  BY <1>1 DEF Slots
<1>3. ASSUME NEW s \in Tasks, NEW i \in 0 .. Rows
      PROVE  <<s, i>> \in Slots' <=> <<s, i>> \in Slots \ {<<t, Share(t)'>>}
  <2>1. CASE s = t
    <3>1. i < Share(t)' <=> i < Share(t) /\ i # Share(t)'
      BY <1>1
    <3>q. QED
      BY <2>1, <3>1 DEF Slots
  <2>2. CASE s # t
    BY <2>2 DEF Slots
  <2>q. QED
    BY <2>1, <2>2
<1>4. Slots' \subseteq Tasks \X (0 .. Rows) /\ Slots \subseteq Tasks \X (0 .. Rows)
  BY DEF Slots, Tasks
<1>5. Slots' = Slots \ {<<t, Share(t)'>>}
  BY <1>3, <1>4
<1>6. IsFiniteSet(Slots)
  BY <1>4, SlotsBounded
<1>q. QED
  BY <1>2, <1>5, <1>6, FS_RemoveElement

(* ... and otherwise nothing changes.                                       *)
LEMMA SlotsSame ==
  ASSUME \A s \in Tasks : Share(s)' = Share(s)
  PROVE  Slots' = Slots
<1>1. ASSUME NEW s \in Tasks, NEW i \in 0 .. Rows
      PROVE  <<s, i>> \in Slots' <=> <<s, i>> \in Slots
  BY DEF Slots
<1>2. Slots' \subseteq Tasks \X (0 .. Rows) /\ Slots \subseteq Tasks \X (0 .. Rows)
  BY DEF Slots
<1>q. QED
  BY <1>1, <1>2

(* What is left to show of a step once the queue keeps to its slots.          *)
Typed ==
  /\ pwm_cmd_q_ \in Seq(1 .. Rows)
  /\ pwm_cmd_thread_exit_ \in BOOLEAN /\ recursive_flag_ \in BOOLEAN
  /\ user \in {"idle", "cancel", "clean", "choose", "start", "starting"}
  /\ task \in [Tasks -> Places]
  /\ row \in [Tasks -> 0 .. Rows]
  /\ is_open \in BOOLEAN /\ plugged \in BOOLEAN
  /\ last \in 0 .. Rows /\ unheard \in BOOLEAN /\ before \in 0 .. Rows
  /\ more \in [Tasks -> 0 .. 2]
  /\ overlapped \in BOOLEAN /\ undefined \in BOOLEAN

LEMMA TypedIsEnough == Typed /\ SlotInv => TypeOK
<1>1. Slots \in SUBSET (Tasks \X (0 .. Rows))
  BY DEF Slots
<1>2. /\ Cardinality(Slots) \in Nat /\ Cardinality(Slots) <= MaxTasks * (Rows + 1)
      /\ MaxTasks * (Rows + 1) \in Nat
  BY <1>1, SlotsBounded, PwmAssumption
<1>3. pwm_cmd_q_ \in Seq(1 .. Rows) => Len(pwm_cmd_q_) \in Nat
  BY LenProperties
<1>q. QED
  BY <1>2, <1>3 DEF Typed, TypeOK, SlotInv

(* The user's steps touch no thread but the one they start.                  *)
LEMMA UserTyped ==
  ASSUME Typed, RowInv, SlotInv,
         \/ PwmFile \/ Decline \/ PwmCmdThreadClose \/ CleanPwmCmdQueue
         \/ \E enable \in BOOLEAN : PwmCmdSetRecursive(enable)
         \/ StartPwmCmdThread \/ \E t \in Tasks : BeginPwmCmdTask(t)
         \/ OpenOrClose \/ Unplug \/ Race
  PROVE  Typed' /\ RowInv' /\ SlotInv'
<1> USE PwmAssumption DEF Typed, RowInv, flags, port, sent, User
<1>1. CASE CleanPwmCmdQueue
  <2>1. pwm_cmd_q_' = <<>> /\ UNCHANGED <<task, row>>
    BY <1>1 DEF CleanPwmCmdQueue
  <2>2. Slots' \in SUBSET (Tasks \X (0 .. Rows))
    BY DEF Slots
  <2>3. SlotInv'
    BY <2>1, <2>2, SlotsBounded DEF SlotInv
  <2>4. (overlapped \/ SomeRuns) \in BOOLEAN
    BY DEF SomeRuns, Running
  <2>5. Typed'
    BY <1>1, <2>4 DEF CleanPwmCmdQueue
  <2>q. QED
    BY <2>1, <2>3, <2>5
<1>2. CASE \E t \in Tasks : BeginPwmCmdTask(t)
  <2> PICK t \in Tasks : BeginPwmCmdTask(t)
    BY <1>2
  <2>1. (overlapped \/ SomeRuns) \in BOOLEAN
    BY DEF SomeRuns, Running
  <2>2. task[t] = "none" /\ task' = [task EXCEPT ![t] = "load"]
    BY DEF BeginPwmCmdTask
  <2>3. UNCHANGED <<pwm_cmd_q_, row>> /\ overlapped' \in BOOLEAN
    BY <2>1 DEF BeginPwmCmdTask
  <2>4. \A s \in Tasks : Share(s)' = Share(s)
    BY <2>2, <2>3 DEF Share
  <2>5. SlotInv'
    BY <2>3, <2>4, SlotsSame DEF SlotInv
  <2>6. Typed'
    <3>1. task' \in [Tasks -> Places]
      BY <2>2 DEF Places
    <3>q. QED
      BY <2>3, <3>1 DEF BeginPwmCmdTask
  <2>7. RowInv'
    BY <2>2, <2>3
  <2>q. QED
    BY <2>5, <2>6, <2>7
<1>3. CASE \/ PwmFile \/ Decline \/ PwmCmdThreadClose \/ OpenOrClose \/ Unplug \/ Race
           \/ StartPwmCmdThread \/ \E enable \in BOOLEAN : PwmCmdSetRecursive(enable)
  <2>1. UNCHANGED <<pwm_cmd_q_, task, row>>
    BY <1>3 DEF PwmFile, Decline, PwmCmdThreadClose, OpenOrClose, Unplug, Race,
       StartPwmCmdThread, PwmCmdSetRecursive
  <2>2. \A s \in Tasks : Share(s)' = Share(s)
    BY <2>1 DEF Share
  <2>3. SlotInv'
    BY <2>1, <2>2, SlotsSame DEF SlotInv
  <2>4. Typed'
    <3>1. (overlapped \/ SomeRuns) \in BOOLEAN /\ (~is_open) \in BOOLEAN
      BY DEF SomeRuns, Running
    <3>2. CASE \E enable \in BOOLEAN : PwmCmdSetRecursive(enable)
      BY <3>1, <3>2 DEF PwmCmdSetRecursive
    <3>3. CASE OpenOrClose
      BY <3>1, <3>3 DEF OpenOrClose
    <3>4. CASE PwmFile \/ Decline \/ PwmCmdThreadClose \/ StartPwmCmdThread \/ Unplug
      BY <3>4, ZenonT(40) DEF PwmFile, Decline, PwmCmdThreadClose, StartPwmCmdThread, Unplug
    <3>5. CASE Race
      <4>1. (overlapped \/ user = "clean") \in BOOLEAN
        OBVIOUS
      <4>q. QED
        BY <3>5, <4>1, ZenonT(40) DEF Race
    <3>q. QED
      BY <1>3, <3>2, <3>3, <3>4, <3>5
  <2>q. QED
    BY <2>1, <2>3, <2>4
<1>q. QED
  BY <1>1, <1>2, <1>3

(* A thread's steps: each appends a row for a slot it gets, pops a row with    *)
(* the slot it loses, or leaves the queue alone.                             *)
LEMMA ThreadTyped ==
  ASSUME Typed, RowInv, SlotInv, NEW t \in Tasks, Thread(t)
  PROVE  Typed' /\ RowInv' /\ SlotInv'
<1> USE PwmAssumption DEF Typed, RowInv, flags, port, sent, Move
<1>0. /\ Slots \in SUBSET (Tasks \X (0 .. Rows)) /\ Slots' \in SUBSET (Tasks \X (0 .. Rows))
      /\ Len(pwm_cmd_q_) \in Nat /\ Cardinality(Slots) \in Nat /\ Cardinality(Slots') \in Nat
  <2>1. Slots \in SUBSET (Tasks \X (0 .. Rows)) /\ Slots' \in SUBSET (Tasks \X (0 .. Rows))
    BY DEF Slots
  <2>q. QED
    BY <2>1, SlotsBounded, QueueRows
<1>1. CASE Load(t)
  <2>1. /\ task[t] = "load" /\ row[t] \in 0 .. Rows - 1
        /\ task' = [task EXCEPT ![t] = IF row[t] + 1 = Rows THEN "test" ELSE "load"]
        /\ row' = [row EXCEPT ![t] = row[t] + 1]
        /\ pwm_cmd_q_' = Append(pwm_cmd_q_, row[t] + 1)
    BY <1>1 DEF Load
  <2>2. pwm_cmd_q_' \in Seq(1 .. Rows) /\ Len(pwm_cmd_q_') = Len(pwm_cmd_q_) + 1
    BY <2>1, AppendProperties
  <2>3. Share(t) \in 0 .. Rows /\ Share(t)' = Share(t) + 1
    BY <2>1 DEF Share
  <2>4. \A s \in Tasks \ {t} : Share(s)' = Share(s)
    BY <2>1 DEF Share
  <2>5. SlotInv'
    <3>1. Cardinality(Slots') = Cardinality(Slots) + 1
      BY <2>3, <2>4, SlotAdded
    <3>q. QED
      BY <1>0, <2>2, <3>1 DEF SlotInv
  <2>6. RowInv'
    BY <2>1
  <2>7. task' \in [Tasks -> Places] /\ row' \in [Tasks -> 0 .. Rows]
    BY <2>1 DEF Places
  <2>8. Typed'
    BY <1>1, <2>2, <2>7 DEF Load
  <2>q. QED
    BY <2>5, <2>6, <2>8
<1>2. CASE PushAgain(t)
  <2>1. /\ task[t] = "push" /\ task' = [task EXCEPT ![t] = "pop"] /\ row' = row
        /\ row[t] \in 1 .. Rows
        /\ pwm_cmd_q_' \in {pwm_cmd_q_, Append(pwm_cmd_q_, row[t])}
    BY <1>2 DEF PushAgain
  <2>2. pwm_cmd_q_' \in Seq(1 .. Rows) /\ Len(pwm_cmd_q_') <= Len(pwm_cmd_q_) + 1
    <3>1. /\ Append(pwm_cmd_q_, row[t]) \in Seq(1 .. Rows)
          /\ Len(Append(pwm_cmd_q_, row[t])) = Len(pwm_cmd_q_) + 1
      BY <2>1, AppendProperties
    <3>2. CASE pwm_cmd_q_' = pwm_cmd_q_
      BY <1>0, <3>2
    <3>3. CASE pwm_cmd_q_' = Append(pwm_cmd_q_, row[t])
      BY <1>0, <3>1, <3>3
    <3>q. QED
      BY <2>1, <3>2, <3>3
  <2>3. Share(t) \in 0 .. Rows /\ Share(t)' = Share(t) + 1
    BY <2>1 DEF Share
  <2>4. \A s \in Tasks \ {t} : Share(s)' = Share(s)
    BY <2>1 DEF Share
  <2>5. Len(pwm_cmd_q_') \in Nat
    BY <2>2, LenProperties
  <2>6. SlotInv'
    <3> HIDE DEF Typed, RowInv, Move
    <3>1. Cardinality(Slots') = Cardinality(Slots) + 1
      BY <2>3, <2>4, SlotAdded
    <3>q. QED
      BY <1>0, <2>2, <2>5, <3>1 DEF SlotInv
  <2>7. RowInv'
    BY <2>1
  <2>8. Typed'
    BY <1>2, <2>1, <2>2 DEF PushAgain, Places
  <2>q. QED
    BY <2>6, <2>7, <2>8
<1>3. CASE Pop(t)
  <2>1. /\ task[t] = "pop" /\ task' = [task EXCEPT ![t] = "test"] /\ row' = row
    BY <1>3 DEF Pop
  <2>2. Share(t)' \in 0 .. Rows /\ Share(t) = Share(t)' + 1
    BY <2>1 DEF Share
  <2>3. \A s \in Tasks \ {t} : Share(s)' = Share(s)
    BY <2>1 DEF Share
  <2>4. Cardinality(Slots') = Cardinality(Slots) - 1
    BY <2>2, <2>3, SlotRemoved
  <2>5. /\ pwm_cmd_q_' \in Seq(1 .. Rows) /\ undefined' \in BOOLEAN
        /\ Len(pwm_cmd_q_') <= Cardinality(Slots')
    <3>1. CASE pwm_cmd_q_ = <<>>
      <4>1. pwm_cmd_q_' = <<>> /\ Len(pwm_cmd_q_') = 0
        BY <1>3, <3>1 DEF Pop
      <4>q. QED
        BY <1>0, <1>3, <3>1, <4>1 DEF Pop
    <3>2. CASE pwm_cmd_q_ # <<>>
      <4>1. /\ pwm_cmd_q_' \in Seq(1 .. Rows) /\ Len(pwm_cmd_q_') = Len(pwm_cmd_q_) - 1
            /\ undefined' = undefined
        BY <1>3, <3>2, QueueRows DEF Pop
      <4>2. Len(pwm_cmd_q_) \in Nat /\ undefined \in BOOLEAN
        BY <1>0, QueueRows
      <4>3. Len(pwm_cmd_q_') <= Cardinality(Slots')
        <5> HIDE DEF Typed, RowInv, Move
        <5>q. QED
          BY <1>0, <2>4, <4>1, <4>2 DEF SlotInv
      <4>q. QED
        BY <4>1, <4>2, <4>3, SMTT(40)
    <3>q. QED
      BY <3>1, <3>2
  <2>6. RowInv'
    BY <2>1
  <2>7. Typed'
    BY <1>3, <2>1, <2>5 DEF Pop, Places
  <2>q. QED
    BY <2>5, <2>6, <2>7 DEF SlotInv
<1>4. CASE TestLoop(t) \/ Front(t) \/ Send(t) \/ SendStop(t)
  <2>1. /\ task[t] \in {"test", "front", "send", "stop"}
        /\ task' \in [Tasks -> Places]
        /\ task'[t] \in {"front", "stop", "send", "push", "ended"}
        /\ \A s \in Tasks \ {t} : task'[s] = task[s] /\ row'[s] = row[s]
        /\ UNCHANGED pwm_cmd_q_
    BY <1>4 DEF TestLoop, Front, Send, SendStop, Places
  <2>2. \A s \in Tasks : Share(s)' = Share(s)
    BY <2>1 DEF Share
  <2>3. SlotInv'
    BY <2>1, <2>2, SlotsSame DEF SlotInv
  <2>4. CASE TestLoop(t)
    <3>1. UNCHANGED row /\ task'[t] \in {"front", "stop"} /\ task[t] = "test"
      BY <2>4 DEF TestLoop
    <3>2. RowInv'
      BY <2>1, <3>1
    <3>3. Typed'
      BY <2>1, <2>4 DEF TestLoop
    <3>q. QED
      BY <2>3, <3>2, <3>3
  <2>5. CASE Front(t)
    <3>1. /\ row' = row \/ (pwm_cmd_q_ # <<>> /\ row' = [row EXCEPT ![t] = pwm_cmd_q_[1]])
          /\ undefined' \in BOOLEAN /\ task[t] = "front" /\ task'[t] = "send"
      BY <2>5, QueueRows DEF Front
    <3>2. row' \in [Tasks -> 0 .. Rows] /\ row'[t] # 0
      <4>1. CASE row' = row
        BY <3>1, <4>1
      <4>2. CASE row' = [row EXCEPT ![t] = pwm_cmd_q_[1]] /\ pwm_cmd_q_ # <<>>
        <5>1. pwm_cmd_q_[1] \in 1 .. Rows
          BY <4>2, QueueRows
        <5>q. QED
          BY <4>2, <5>1
      <4>q. QED
        BY <3>1, <4>1, <4>2
    <3>3. RowInv'
      BY <2>1, <3>1, <3>2
    <3>4. Typed'
      BY <2>1, <2>5, <3>1, <3>2 DEF Front
    <3>q. QED
      BY <2>3, <3>3, <3>4
  <2>6. CASE Send(t)
    <3>1. UNCHANGED row /\ task[t] = "send" /\ task'[t] = "push"
      BY <2>6 DEF Send
    <3>2. RowInv'
      BY <2>1, <3>1
    <3>3. /\ last' \in 0 .. Rows /\ pwm_cmd_thread_exit_' \in BOOLEAN
          /\ before' \in 0 .. Rows /\ more' \in [Tasks -> 0 .. 2]
      <4>1. last' \in 0 .. Rows /\ pwm_cmd_thread_exit_' \in BOOLEAN
        BY <2>6 DEF Send, DevPwmCmd
      <4>2. before' \in 0 .. Rows
        BY <2>6 DEF Send
      <4>3. more' \in [Tasks -> 0 .. 2]
        BY <2>6 DEF Send
      <4>q. QED
        BY <4>1, <4>2, <4>3
    <3>4. Typed'
      BY <2>1, <2>6, <3>3 DEF Send
    <3>q. QED
      BY <2>3, <3>2, <3>4
  <2>7. CASE SendStop(t)
    <3>1. row' = [row EXCEPT ![t] = 0] /\ task'[t] = "ended"
      BY <2>7 DEF SendStop
    <3>2. RowInv'
      BY <2>1, <3>1
    <3>3. /\ last' \in 0 .. Rows /\ pwm_cmd_thread_exit_' \in BOOLEAN
          /\ unheard' \in BOOLEAN
      <4>1. last' \in 0 .. Rows /\ pwm_cmd_thread_exit_' \in BOOLEAN
        <5>1. Stop \in 0 .. Rows
          BY DEF Stop
        <5>2. DevPwmCmd(Stop)
          BY <2>7 DEF SendStop
        <5>3. /\ last' = Stop \/ last' = last
              /\ pwm_cmd_thread_exit_' = TRUE \/ pwm_cmd_thread_exit_' = pwm_cmd_thread_exit_
          BY <5>2 DEF DevPwmCmd
        <5>q. QED
          BY <5>1, <5>3
      <4>2. unheard' \in BOOLEAN
        <5>1. (~(is_open /\ plugged)) \in BOOLEAN
          OBVIOUS
        <5>2. unheard' = ~(is_open /\ plugged)
          BY <2>7 DEF SendStop
        <5>q. QED
          BY <5>1, <5>2, Zenon
      <4>q. QED
        BY <4>1, <4>2
    <3>4. Typed'
      BY <2>1, <2>7, <3>1, <3>3 DEF SendStop
    <3>q. QED
      BY <2>3, <3>2, <3>4
  <2>q. QED
    BY <1>4, <2>4, <2>5, <2>6, <2>7
<1>q. QED
  BY <1>1, <1>2, <1>3, <1>4 DEF Thread

LEMMA TypedHolds == Spec => [](Typed /\ RowInv /\ SlotInv)
<1>1. Init => Typed /\ RowInv /\ SlotInv
  <2> SUFFICES ASSUME Init PROVE Typed /\ RowInv /\ SlotInv
    OBVIOUS
  <2>1. Typed
    <3>1. pwm_cmd_q_ \in Seq(1 .. Rows) /\ task \in [Tasks -> Places]
      BY DEF Init, Places
    <3>2. row \in [Tasks -> 0 .. Rows] /\ more \in [Tasks -> 0 .. 2]
      BY PwmAssumption DEF Init
    <3>3. last \in 0 .. Rows /\ before \in 0 .. Rows
      BY PwmAssumption DEF Init, Stop
    <3>q. QED
      BY <3>1, <3>2, <3>3 DEF Init, Typed
  <2>2. RowInv
    BY DEF Init, RowInv
  <2>3. Len(pwm_cmd_q_) = 0
    BY DEF Init
  <2>4. Slots \in SUBSET (Tasks \X (0 .. Rows))
    BY DEF Slots
  <2>q. QED
    BY <2>1, <2>2, <2>3, <2>4, SlotsBounded DEF SlotInv
<1>2. Typed /\ RowInv /\ SlotInv /\ [Next]_vars => (Typed /\ RowInv /\ SlotInv)'
  <2> SUFFICES ASSUME Typed, RowInv, SlotInv, [Next]_vars
               PROVE  Typed' /\ RowInv' /\ SlotInv'
    OBVIOUS
  <2>1. CASE UNCHANGED vars
    BY <2>1 DEF vars, Typed, RowInv, SlotInv, Slots, Share
  <2>q. QED
    BY <2>1, UserTyped, ThreadTyped DEF Next
<1>q. QED
  BY <1>1, <1>2, PTL DEF Spec

(* Every row in the queue is a row of the file, and the queue keeps to Rows + 1 *)
(* rows for each thread (rcws.cc, PwmCmdTask), although a cancelled run leaves *)
(* its rows there for the next one.                                          *)
THEOREM TypeCorrect == Spec => []TypeOK
BY TypedHolds, TypedIsEnough, PTL

----------------------------------------------------------------------------
(* The exit flag and the stop command                                       *)

(* What a step does to the exit flag and to the places of the threads: the    *)
(* flag is only ever set, and a step moves one thread at most.               *)
LEMMA Moves ==
  ASSUME Typed, [Next]_vars
  PROVE  /\ pwm_cmd_thread_exit_ => pwm_cmd_thread_exit_'
         /\ \/ UNCHANGED <<task, more>>
            \/ \E t \in Tasks :
                 task[t] = "none" /\ task' = [task EXCEPT ![t] = "load"] /\ more' = more
            \/ \E t \in Tasks :
                 /\ Thread(t) /\ task[t] \notin {"none", "ended"}
                 /\ \A s \in Tasks \ {t} : task'[s] = task[s] /\ more'[s] = more[s]
<1> USE DEF Typed, flags, port, sent, User, Move
<1>1. CASE \E t \in Tasks : BeginPwmCmdTask(t)
  <2>1. PICK t \in Tasks : BeginPwmCmdTask(t)
    BY <1>1
  <2>2. /\ UNCHANGED <<more, pwm_cmd_thread_exit_>>
        /\ task[t] = "none" /\ task' = [task EXCEPT ![t] = "load"]
    BY <2>1 DEF BeginPwmCmdTask
  <2>q. QED
    BY <2>2, Zenon
<1>2. CASE \/ PwmFile \/ Decline \/ PwmCmdThreadClose \/ CleanPwmCmdQueue
           \/ \E enable \in BOOLEAN : PwmCmdSetRecursive(enable)
           \/ StartPwmCmdThread \/ OpenOrClose \/ Unplug \/ Race
  BY <1>2 DEF PwmFile, Decline, PwmCmdThreadClose, CleanPwmCmdQueue, PwmCmdSetRecursive,
     StartPwmCmdThread, OpenOrClose, Unplug, Race
<1>3. ASSUME NEW t \in Tasks, Thread(t)
      PROVE  /\ pwm_cmd_thread_exit_ => pwm_cmd_thread_exit_'
             /\ task[t] \notin {"none", "ended"}
             /\ \A s \in Tasks \ {t} : task'[s] = task[s] /\ more'[s] = more[s]
  BY <1>3 DEF Thread, Load, TestLoop, Front, Send, PushAgain, Pop, SendStop, DevPwmCmd
<1>4. CASE UNCHANGED vars
  BY <1>4 DEF vars
<1>q. QED
  BY <1>1, <1>2, <1>3, <1>4 DEF Next

(* A thread that sent a row after the flag was set is on its way out.         *)
MoreInv ==
  \A t \in Tasks :
    /\ more[t] <= 1
    /\ more[t] = 1 => /\ pwm_cmd_thread_exit_
                      /\ task[t] \in {"push", "pop", "test", "stop", "ended"}

(* After the flag is set, by a user who cancels or a thread whose send threw,  *)
(* each thread sends at most the row it was waiting with (rcws.cc, PwmCmdTask). *)
THEOREM OneMore == Spec => []AtMostOneMore
<1>1. Init => MoreInv
  BY DEF Init, MoreInv
<1>2. Typed /\ MoreInv /\ [Next]_vars => MoreInv'
  <2> SUFFICES ASSUME Typed, MoreInv, [Next]_vars, NEW t \in Tasks
               PROVE  /\ more'[t] <= 1
                      /\ more'[t] = 1 => /\ pwm_cmd_thread_exit_'
                                         /\ task'[t] \in {"push", "pop", "test", "stop", "ended"}
    BY DEF MoreInv
  <2>1. CASE Thread(t)
    <3> USE <2>1 DEF Typed, MoreInv, Move, flags, sent, port
    <3>1. CASE Send(t)
      <4>1. /\ task[t] = "send" /\ task'[t] = "push" /\ more[t] = 0
            /\ more'[t] = IF pwm_cmd_thread_exit_ THEN 1 ELSE 0
        BY <3>1, SMTT(40) DEF Send
      <4>2. pwm_cmd_thread_exit_ => pwm_cmd_thread_exit_'
        BY Moves DEF Next
      <4>q. QED
        BY <4>1, <4>2
    <3>2. CASE \/ Load(t) \/ TestLoop(t) \/ Front(t) \/ PushAgain(t) \/ Pop(t)
               \/ SendStop(t)
      BY <3>2 DEF Load, TestLoop, Front, PushAgain, Pop, SendStop, DevPwmCmd
    <3>q. QED
      BY <3>1, <3>2 DEF Thread
  <2>2. CASE ~Thread(t)
    <3>1. /\ more'[t] = more[t] /\ (task'[t] = task[t] \/ task[t] = "none")
          /\ pwm_cmd_thread_exit_ => pwm_cmd_thread_exit_'
      BY <2>2, Moves DEF Typed
    <3>q. QED
      BY <3>1 DEF MoreInv
  <2>q. QED
    BY <2>1, <2>2
<1>3. MoreInv => AtMostOneMore
  BY DEF MoreInv, AtMostOneMore
<1>q. QED
  BY TypedHolds, <1>1, <1>2, <1>3, PTL DEF Spec

(* A command other than Stop was the last to reach the device only while a     *)
(* thread runs, which has its stop command still to send.                    *)
StopInv == ~SomeRuns => last = Stop \/ unheard

(* However the threads ended, together or alone, cancelled, at the end of the  *)
(* file, or since the device was unplugged, the last command the device heard *)
(* is the stop command, or that one could not be sent (rcws.cc, PwmCmdTask).  *)
THEOREM StopIsLast == Spec => []StopComesLast
<1>1. Init => StopInv
  BY DEF Init, StopInv
<1>2. Typed /\ StopInv /\ [Next]_vars => StopInv'
  <2> SUFFICES ASSUME Typed, StopInv, [Next]_vars, ~SomeRuns'
               PROVE  last' = Stop \/ unheard'
    BY DEF StopInv
  <2>0. \A t \in Tasks : task'[t] \in {"none", "ended"}
    BY DEF SomeRuns, Running
  <2>1. ASSUME NEW t \in Tasks, Thread(t) PROVE SendStop(t)
    BY <2>0, <2>1 DEF Typed, Thread, Load, TestLoop, Front, Send, PushAgain, Pop, Move
  <2>2. ASSUME NEW t \in Tasks, SendStop(t) PROVE last' = Stop \/ unheard'
    BY <2>2 DEF SendStop, DevPwmCmd
  <2>3. CASE ~\E t \in Tasks : Thread(t)
    <3>1. task' = task
      <4>1. ASSUME NEW t \in Tasks, task' = [task EXCEPT ![t] = "load"] PROVE FALSE
        BY <2>0, <4>1 DEF Typed
      <4>q. QED
        BY <2>3, <4>1, Moves
    <3>2. ~SomeRuns
      BY <2>0, <3>1 DEF SomeRuns, Running
    <3>3. UNCHANGED <<last, unheard>>
      BY <2>3 DEF Next, PwmFile, Decline, PwmCmdThreadClose, CleanPwmCmdQueue,
         PwmCmdSetRecursive, StartPwmCmdThread, BeginPwmCmdTask, OpenOrClose, Unplug, Race,
         sent, vars
    <3>q. QED
      BY <3>2, <3>3 DEF StopInv
  <2>q. QED
    BY <2>1, <2>2, <2>3
<1>3. StopInv => StopComesLast
  BY DEF StopInv, StopComesLast
<1>q. QED
  BY TypedHolds, <1>1, <1>2, <1>3, PTL DEF Spec

----------------------------------------------------------------------------
(* The order of the rows                                                    *)

Succ(r) == IF r = Rows THEN 1 ELSE r + 1

Chained(q) == \A i \in 1 .. Len(q) - 1 : q[i + 1] = Succ(q[i])

(* The end of a queue that is chained: in a forever loop its first row comes   *)
(* after its last one, and otherwise the last one is the last of the file.    *)
Closes(q) == IF recursive_flag_ THEN Succ(q[Len(q)]) = q[1] ELSE q[Len(q)] = Rows

(* All rows were sent, or none yet.                                         *)
Done == pwm_cmd_q_ = <<>> /\ before \in {0, Rows}

(* What the queue holds while a thread runs alone, by its place.             *)
InOrder(t) ==
  /\ task[t] = "load" =>
       row[t] = Len(pwm_cmd_q_) /\ (\A i \in 1 .. Len(pwm_cmd_q_) : pwm_cmd_q_[i] = i)
         /\ before \in {0, Rows}
  /\ task[t] \in {"test", "front", "send"} =>
       \/ task[t] = "test" /\ Done /\ ~recursive_flag_
       \/ /\ pwm_cmd_q_ # <<>> /\ Chained(pwm_cmd_q_) /\ Closes(pwm_cmd_q_)
          /\ pwm_cmd_q_[1] = Succ(before)
  /\ task[t] = "send" => row[t] = pwm_cmd_q_[1]
  /\ task[t] \in {"push", "pop"} =>
       /\ pwm_cmd_q_ # <<>> /\ Chained(pwm_cmd_q_)
       /\ pwm_cmd_q_[1] = before /\ row[t] = before
  /\ task[t] = "push" => Closes(pwm_cmd_q_)
  /\ task[t] = "pop" =>
       IF recursive_flag_
         THEN Len(pwm_cmd_q_) >= 2 /\ pwm_cmd_q_[Len(pwm_cmd_q_)] = before
         ELSE pwm_cmd_q_[Len(pwm_cmd_q_)] = Rows
  /\ task[t] = "stop" => pwm_cmd_thread_exit_ \/ Done

OrderInv ==
  ~overlapped =>
    /\ ~undefined
    /\ \A s, t \in Tasks : Running(s) /\ Running(t) => s = t
    /\ \A t \in Tasks : InOrder(t)
    /\ ~SomeRuns => pwm_cmd_thread_exit_ \/ Done
    /\ user \in {"start", "starting"} => ~SomeRuns
    /\ user = "starting" => ~pwm_cmd_thread_exit_

(* The chain when its first row leaves, ...                                  *)
LEMMA ChainTail ==
  ASSUME NEW q \in Seq(1 .. Rows), q # <<>>, Chained(q)
  PROVE  /\ Tail(q) \in Seq(1 .. Rows) /\ Len(Tail(q)) = Len(q) - 1 /\ Len(q) \in Nat \ {0}
         /\ Chained(Tail(q))
         /\ Len(q) >= 2 => /\ Tail(q) # <<>> /\ Tail(q)[1] = Succ(q[1])
                           /\ Tail(q)[Len(Tail(q))] = q[Len(q)]
         /\ Len(q) = 1 => Tail(q) = <<>>
<1> DEFINE rest == Tail(q)
<1>1. /\ rest \in Seq(1 .. Rows) /\ Len(rest) = Len(q) - 1 /\ Len(q) \in Nat \ {0}
      /\ \A i \in 1 .. Len(rest) : rest[i] = q[i + 1]
  BY HeadTailProperties, EmptySeq
<1>2. rest = <<>> <=> Len(rest) = 0
  BY <1>1, EmptySeq
<1> HIDE DEF rest
<1>3. Chained(rest)
  <2> SUFFICES ASSUME NEW i \in 1 .. Len(rest) - 1 PROVE rest[i + 1] = Succ(rest[i])
    BY DEF Chained
  <2>1. /\ i \in 1 .. Len(rest) /\ i + 1 \in 1 .. Len(rest) /\ i + 1 \in 1 .. Len(q) - 1
    BY <1>1
  <2>2. rest[i] = q[i + 1] /\ rest[i + 1] = q[i + 1 + 1]
    BY <1>1, <2>1
  <2>q. QED
    BY <2>1, <2>2 DEF Chained
<1>4. ASSUME Len(q) >= 2
      PROVE  rest # <<>> /\ rest[1] = Succ(q[1]) /\ rest[Len(rest)] = q[Len(q)]
  <2>1. rest[1] = q[2] /\ rest[Len(rest)] = q[Len(q)] /\ rest # <<>>
    BY <1>1, <1>2, <1>4
  <2>2. 1 \in 1 .. Len(q) - 1 /\ 1 + 1 = 2
    BY <1>1, <1>4
  <2>q. QED
    BY <2>1, <2>2 DEF Chained
<1>q. QED
  BY <1>1, <1>2, <1>3, <1>4 DEF rest

(* ... and when a row is put to its end.                                     *)
LEMMA ChainAppend ==
  ASSUME NEW q \in Seq(1 .. Rows), q # <<>>, Chained(q), Succ(q[Len(q)]) \in 1 .. Rows
  PROVE  LET longer == Append(q, Succ(q[Len(q)])) IN
         /\ longer # <<>> /\ Len(longer) = Len(q) + 1 /\ Len(q) \in Nat \ {0}
         /\ Chained(longer)
         /\ longer[1] = q[1] /\ longer[Len(longer)] = Succ(q[Len(q)])
<1> DEFINE r == Succ(q[Len(q)])
           longer == Append(q, r)
<1>1. /\ longer # <<>> /\ Len(longer) = Len(q) + 1 /\ Len(q) \in Nat \ {0}
      /\ \A i \in 1 .. Len(q) : longer[i] = q[i]
      /\ longer[Len(q) + 1] = r
  BY AppendProperties, EmptySeq
<1> HIDE DEF longer
<1>2. Chained(longer)
  <2> SUFFICES ASSUME NEW i \in 1 .. Len(q) PROVE longer[i + 1] = Succ(longer[i])
    BY <1>1 DEF Chained
  <2>1. CASE i = Len(q)
    BY <1>1, <2>1
  <2>2. CASE i \in 1 .. Len(q) - 1
    <3>1. longer[i + 1] = q[i + 1] /\ longer[i] = q[i]
      BY <1>1, <2>2
    <3>q. QED
      BY <2>2, <3>1 DEF Chained
  <2>q. QED
    BY <1>1, <2>1, <2>2
<1>3. longer[1] = q[1]
  BY <1>1
<1>q. QED
  BY <1>1, <1>2, <1>3 DEF longer

(* A thread that runs alone keeps the order, and never meets an empty queue.   *)
LEMMA AloneInOrder ==
  ASSUME Typed, RowInv, ~overlapped, ~undefined, NEW t \in Tasks, InOrder(t), Thread(t)
  PROVE  /\ InOrder(t)' /\ ~undefined'
         /\ task'[t] = "ended" => pwm_cmd_thread_exit_' \/ Done'
<1> DEFINE q == pwm_cmd_q_
<1> USE PwmAssumption DEF Move, flags, port, sent
<1>0. /\ q \in Seq(1 .. Rows) /\ Len(q) \in Nat /\ \A i \in 1 .. Len(q) : q[i] \in 1 .. Rows
      /\ q = <<>> <=> Len(q) = 0
      /\ task \in [Tasks -> Places] /\ row \in [Tasks -> 0 .. Rows] /\ before \in 0 .. Rows
      /\ Rows \in Nat \ {0}
  BY QueueRows DEF Typed
<1>1. CASE Load(t)
  <2>1. /\ task[t] = "load" /\ row[t] = Len(q) /\ row[t] \in 0 .. Rows - 1
        /\ \A i \in 1 .. Len(q) : q[i] = i
        /\ before \in {0, Rows}
        /\ task'[t] = IF row[t] + 1 = Rows THEN "test" ELSE "load"
        /\ row'[t] = row[t] + 1
        /\ q' = Append(q, row[t] + 1)
        /\ UNCHANGED <<before, recursive_flag_, undefined>>
    BY <1>0, <1>1 DEF Load, InOrder, RowInv
  <2>2. /\ Len(q') = row[t] + 1 /\ q' # <<>>
        /\ \A i \in 1 .. Len(q') : q'[i] = i
    <3>1. /\ Len(q') = Len(q) + 1 /\ q' # <<>> /\ q'[Len(q) + 1] = row[t] + 1
          /\ \A i \in 1 .. Len(q) : q'[i] = q[i]
      BY <1>0, <2>1, AppendProperties
    <3>q. QED
      BY <1>0, <2>1, <3>1
  <2>3. CASE task'[t] = "load"
    BY <2>1, <2>2, <2>3 DEF InOrder
  <2>4. CASE task'[t] = "test"
    <3>1. Len(q') = Rows
      BY <1>0, <2>1, <2>2, <2>4
    <3>2. Chained(q')
      BY <1>0, <2>2, <3>1 DEF Chained, Succ
    <3>3. q'[1] = 1 /\ q'[Len(q')] = Rows /\ Succ(before) = 1 /\ Succ(Rows) = 1
      BY <1>0, <2>1, <2>2, <3>1 DEF Succ
    <3>4. Closes(q)'
      BY <3>3 DEF Closes
    <3>q. QED
      BY <2>1, <2>2, <2>4, <3>2, <3>3, <3>4 DEF InOrder
  <2>q. QED
    BY <2>1, <2>3, <2>4
<1>2. CASE TestLoop(t)
  <2>1. /\ task[t] = "test"
        /\ task'[t] = IF q # <<>> /\ ~pwm_cmd_thread_exit_ THEN "front" ELSE "stop"
        /\ UNCHANGED <<q, row, before, recursive_flag_, pwm_cmd_thread_exit_, undefined>>
    BY <1>0, <1>2 DEF TestLoop
  <2>q. QED
    BY <2>1 DEF InOrder, Done, Closes
<1>3. CASE Front(t)
  <2>1. /\ task[t] = "front" /\ task'[t] = "send" /\ q # <<>>
        /\ row'[t] = q[1]
        /\ UNCHANGED <<q, before, recursive_flag_, undefined>>
    BY <1>0, <1>3, QueueRows DEF Front, InOrder
  <2>q. QED
    BY <2>1 DEF InOrder, Done, Closes
<1>4. CASE Send(t)
  <2>1. /\ task[t] = "send" /\ task'[t] = "push"
        /\ before' = row[t]
        /\ UNCHANGED <<q, row, recursive_flag_, undefined>>
    BY <1>0, <1>4 DEF Send
  <2>q. QED
    BY <2>1 DEF InOrder, Done, Closes
<1>5. CASE PushAgain(t)
  <2>1. /\ task[t] = "push" /\ task'[t] = "pop"
        /\ q' = IF recursive_flag_ THEN Append(q, row[t]) ELSE q
        /\ UNCHANGED <<row, before, recursive_flag_, undefined>>
    BY <1>0, <1>5 DEF PushAgain
  <2>2. q # <<>> /\ Chained(q) /\ q[1] = before /\ row[t] = before /\ Closes(q)
    BY <2>1 DEF InOrder
  <2>3. CASE recursive_flag_
    <3>1. Succ(q[Len(q)]) = row[t]
      BY <2>2, <2>3 DEF Closes
    <3>2. row[t] \in 1 .. Rows
      BY <1>0, <2>1 DEF RowInv
    <3>3. /\ q' # <<>> /\ Len(q') = Len(q) + 1 /\ Len(q) \in Nat \ {0}
          /\ Chained(q') /\ q'[1] = q[1] /\ q'[Len(q')] = row[t]
      BY <1>0, <2>1, <2>2, <2>3, <3>1, <3>2, ChainAppend
    <3>q. QED
      BY <2>1, <2>2, <2>3, <3>3 DEF InOrder
  <2>4. CASE ~recursive_flag_
    BY <2>1, <2>2, <2>4 DEF InOrder, Closes
  <2>q. QED
    BY <2>3, <2>4
<1>6. CASE Pop(t)
  <2>1. /\ task[t] = "pop" /\ task'[t] = "test" /\ q # <<>>
        /\ q' = Tail(q)
        /\ UNCHANGED <<row, before, recursive_flag_, undefined>>
    BY <1>0, <1>6 DEF Pop, InOrder
  <2>2. /\ Chained(q) /\ q[1] = before
        /\ IF recursive_flag_ THEN Len(q) >= 2 /\ q[Len(q)] = before ELSE q[Len(q)] = Rows
    BY <2>1 DEF InOrder
  <2>3. /\ Chained(q') /\ Len(q) \in Nat \ {0}
        /\ Len(q) >= 2 => q' # <<>> /\ q'[1] = Succ(before) /\ q'[Len(q')] = q[Len(q)]
        /\ Len(q) = 1 => q' = <<>>
    BY <1>0, <2>1, <2>2, ChainTail
  <2>4. CASE Len(q) >= 2
    <3>1. Closes(q)'
      BY <2>1, <2>2, <2>3, <2>4 DEF Closes
    <3>q. QED
      BY <2>1, <2>3, <2>4, <3>1 DEF InOrder
  <2>5. CASE Len(q) = 1
    <3>1. ~recursive_flag_ /\ before = Rows
      BY <2>2, <2>5
    <3>q. QED
      BY <2>1, <2>3, <2>5, <3>1 DEF InOrder, Done
  <2>6. Len(q) >= 2 \/ Len(q) = 1
    <3>1. \A m \in Nat \ {0} : m >= 2 \/ m = 1
      OBVIOUS
    <3>q. QED
      BY <2>3, <3>1, Zenon
  <2>q. QED
    BY <2>4, <2>5, <2>6
<1>7. CASE SendStop(t)
  <2>1. /\ task[t] = "stop" /\ task'[t] = "ended"
        /\ pwm_cmd_thread_exit_ => pwm_cmd_thread_exit_'
        /\ UNCHANGED <<q, before, undefined>>
    BY <1>0, <1>7 DEF SendStop, DevPwmCmd
  <2>q. QED
    BY <2>1 DEF InOrder, Done
<1>q. QED
  BY <1>1, <1>2, <1>3, <1>4, <1>5, <1>6, <1>7 DEF Thread

LEMMA OrderHolds == Spec => []OrderInv
<1>1. Init => OrderInv
  BY DEF Init, OrderInv, InOrder, Done, Running
<1>2. Typed /\ RowInv /\ OrderInv /\ [Next]_vars => OrderInv'
  <2> SUFFICES ASSUME Typed, RowInv, OrderInv, [Next]_vars, ~overlapped'
               PROVE  /\ ~undefined'
                      /\ \A s, t \in Tasks : Running(s)' /\ Running(t)' => s = t
                      /\ \A t \in Tasks : InOrder(t)'
                      /\ ~SomeRuns' => pwm_cmd_thread_exit_' \/ Done'
                      /\ user' \in {"start", "starting"} => ~SomeRuns'
                      /\ user' = "starting" => ~pwm_cmd_thread_exit_'
    BY DEF OrderInv
  <2> USE DEF Typed, flags, port, sent, User
  <2>0. ~overlapped
    BY DEF Next, PwmFile, Decline, PwmCmdThreadClose, CleanPwmCmdQueue, PwmCmdSetRecursive,
       StartPwmCmdThread, BeginPwmCmdTask, OpenOrClose, Unplug, Race, Thread, Load, TestLoop,
       Front, Send, PushAgain, Pop, SendStop, vars
  <2>1. /\ ~undefined
        /\ \A s, t \in Tasks : Running(s) /\ Running(t) => s = t
        /\ \A t \in Tasks : InOrder(t)
        /\ ~SomeRuns => pwm_cmd_thread_exit_ \/ Done
        /\ user \in {"start", "starting"} => ~SomeRuns
        /\ user = "starting" => ~pwm_cmd_thread_exit_
    BY <2>0 DEF OrderInv
  <2>2. CASE \/ PwmFile \/ Decline \/ PwmCmdThreadClose \/ StartPwmCmdThread
             \/ OpenOrClose \/ Unplug \/ UNCHANGED vars
    <3>1. /\ UNCHANGED <<pwm_cmd_q_, recursive_flag_, task, row, before, undefined>>
          /\ pwm_cmd_thread_exit_ => pwm_cmd_thread_exit_'
      BY <2>2 DEF PwmFile, Decline, PwmCmdThreadClose, StartPwmCmdThread, OpenOrClose, Unplug,
         vars
    <3>2. /\ user' \in {"start", "starting"} => user \in {"start", "starting"}
          /\ user' = "starting" => ~pwm_cmd_thread_exit_'
      BY <2>1, <2>2 DEF PwmFile, Decline, PwmCmdThreadClose, StartPwmCmdThread, OpenOrClose,
         Unplug, PwmCmdThreadRunning, vars
    <3>q. QED
      BY <2>1, <3>1, <3>2 DEF Running, SomeRuns, InOrder, Closes, Done
  <2>3. CASE CleanPwmCmdQueue \/ \E enable \in BOOLEAN : PwmCmdSetRecursive(enable)
    <3>1. ~SomeRuns
      BY <2>3 DEF CleanPwmCmdQueue, PwmCmdSetRecursive
    <3>2. /\ UNCHANGED <<task, row, before, pwm_cmd_thread_exit_>>
          /\ pwm_cmd_q_' = <<>> \/ pwm_cmd_q_' = pwm_cmd_q_
      BY <2>3 DEF CleanPwmCmdQueue, PwmCmdSetRecursive
    <3>3. \A t \in Tasks : task[t] \in {"none", "ended"}
      BY <3>1 DEF SomeRuns, Running
    <3>4. ~undefined' /\ user' # "starting"
      BY <2>1, <2>3 DEF CleanPwmCmdQueue, PwmCmdSetRecursive
    <3>q. QED
      BY <2>1, <3>1, <3>2, <3>3, <3>4 DEF Running, SomeRuns, InOrder, Done
  <2>4. CASE \E t \in Tasks : BeginPwmCmdTask(t)
    <3> PICK t \in Tasks : BeginPwmCmdTask(t)
      BY <2>4
    <3>1. /\ UNCHANGED <<pwm_cmd_q_, recursive_flag_, row, before, undefined>>
          /\ task[t] = "none" /\ task' = [task EXCEPT ![t] = "load"]
          /\ user = "starting" /\ user' = "idle"
      BY DEF BeginPwmCmdTask
    <3>2. \A s \in Tasks \ {t} : task'[s] \in {"none", "ended"}
      BY <2>1, <3>1 DEF SomeRuns, Running
    <3>3. Done /\ row[t] = 0 /\ task'[t] = "load"
      BY <2>1, <3>1 DEF RowInv
    <3>4. InOrder(t)'
      <4>1. Len(pwm_cmd_q_) = 0
        BY <3>3 DEF Done
      <4>q. QED
        BY <3>1, <3>3, <4>1 DEF InOrder, Done
    <3>5. SomeRuns'
      BY <3>3 DEF SomeRuns, Running
    <3>6. \A s \in Tasks \ {t} : InOrder(s)'
      BY <3>2 DEF InOrder
    <3>q. QED
      BY <2>1, <3>1, <3>2, <3>4, <3>5, <3>6 DEF Running
  <2>5. CASE Race
    BY <2>1, <2>5 DEF Race, Running, QueuePlaces
  <2>6. ASSUME NEW t \in Tasks, Thread(t)
        PROVE  /\ ~undefined'
               /\ \A r, s \in Tasks : Running(r)' /\ Running(s)' => r = s
               /\ \A s \in Tasks : InOrder(s)'
               /\ ~SomeRuns' => pwm_cmd_thread_exit_' \/ Done'
               /\ user' \notin {"start", "starting"}
    <3>1. /\ task[t] \notin {"none", "ended"} /\ task'[t] # "none"
          /\ \A s \in Tasks \ {t} : task'[s] = task[s]
      BY <2>6 DEF Thread, Load, TestLoop, Front, Send, PushAgain, Pop, SendStop, Move
    <3>2. \A s \in Tasks \ {t} : task'[s] \in {"none", "ended"}
      BY <2>1, <3>1 DEF Running
    <3>3. /\ InOrder(t)' /\ ~undefined'
          /\ task'[t] = "ended" => pwm_cmd_thread_exit_' \/ Done'
      BY <2>0, <2>1, <2>6, AloneInOrder
    <3>4. \A s \in Tasks \ {t} : InOrder(s)'
      BY <3>2 DEF InOrder
    <3>5. ~SomeRuns' => task'[t] = "ended"
      BY <3>1 DEF SomeRuns, Running
    <3>6. user' = user /\ SomeRuns
      BY <2>6, <3>1 DEF Thread, Load, TestLoop, Front, Send, PushAgain, Pop, SendStop, SomeRuns,
         Running
    <3>q. QED
      BY <2>1, <3>2, <3>3, <3>4, <3>5, <3>6 DEF Running
  <2>q. QED
    BY <2>2, <2>3, <2>4, <2>5, <2>6 DEF Next
<1>q. QED
  BY TypedHolds, <1>1, <1>2, PTL DEF Spec

(* The queue, used without a lock and without a test for emptiness, is safe     *)
(* for as long as its user never starts a thread beside another, nor cleans    *)
(* the queue under one (rcws.cc, PwmCmdTask).                                *)
THEOREM AloneIsSafe == Spec => []AloneIsDefined
<1>1. OrderInv => AloneIsDefined
  BY DEF OrderInv, AloneIsDefined
<1>q. QED
  BY OrderHolds, <1>1, PTL

(* A thread that runs alone sends the rows of the file in turn, and in a        *)
(* forever loop again and again, for a file of any length.                   *)
THEOREM RowsComeInOrder == Spec => []RowsInOrder
<1>1. Typed /\ OrderInv => RowsInOrder
  <2> SUFFICES ASSUME Typed, OrderInv, NEW t \in Tasks, task[t] = "send", ~overlapped
               PROVE  row[t] = (before % Rows) + 1
    BY DEF RowsInOrder
  <2>1. row[t] = Succ(before)
    BY DEF OrderInv, InOrder
  <2>2. before \in 0 .. Rows /\ Rows \in Nat \ {0}
    BY PwmAssumption DEF Typed
  <2>3. before % Rows = IF before = Rows THEN 0 ELSE before
    <3>1. CASE before = Rows
      BY <2>2, <3>1
    <3>2. CASE before \in 0 .. Rows - 1
      BY <2>2, <3>2
    <3>q. QED
      BY <2>2, <3>1, <3>2
  <2>q. QED
    BY <2>1, <2>2, <2>3 DEF Succ
<1>q. QED
  BY TypedHolds, OrderHolds, <1>1, PTL

=============================================================================
