-------------------------- MODULE DrvControl_proofs --------------------------
(***************************************************************************)
(* Proofs about DrvControl for any number of connections, axes, requests   *)
(* and ticks: its type invariant, that real-time data stops with the last  *)
(* client, and, while clients use the real-time page only, that every byte *)
(* stays with the axis it was sent for.                                    *)
(***************************************************************************)
EXTENDS DrvControl, SequenceTheorems, TLAPS

----------------------------------------------------------------------------
(* Calls: what a call of each operation carries, and that the constructors  *)
(* build calls.                                                             *)
LEMMA CallFields ==
  ASSUME NEW call \in Calls
  PROVE  /\ call.op = "SetFlag" => call.flag \in HandlerFlags /\ call.to \in BOOLEAN
         /\ call.op = "StoreRtp" => call.axis \in Axes /\ call.rtp \in RtpValues
         /\ call.op \in {"SetStandBy", "WritePowerCtl", "CacheStandBy", "WriteAll"}
              => call.standby \in BOOLEAN
         /\ call.op \in {"RunCalibration", "UpdateAllReg", "Sweep"} => call.request \in Request
         /\ call.op \in {"Ensure", "Run", "Ready", "WriteGo", "CacheRun"}
              => call.axis \in Axes /\ call.run \in BOOLEAN
         /\ call.op \in {"ChangeDrvCh", "RunAutoCalibration", "ReadRegisters", "Sweep"}
              => call.axis \in Axes
         /\ call.op = "WriteMode"
              => call.axis \in Axes /\ call.mode \in Modes /\ call.standby \in BOOLEAN
         /\ call.op = "UpdateRTP" => call.axis \in Axes /\ call.rtp \in RtpValues
         /\ call.op = "WriteRegisters" => call.axis \in Axes /\ call.registers \in Registers
BY DEF Calls

(* Each constructor builds a call.                                          *)
LEMMA Constructors ==
  /\ \A o \in {"SetOffSet", "CheckModify", "CheckRun", "CheckUpdate",
               "CheckSend", "AliveLog", "broadcastMessage"} : Call(o) \in Calls
  /\ \A f \in HandlerFlags, v \in BOOLEAN : Set(f, v) \in Calls
  /\ \A s \in BOOLEAN : StandBy(s) \in Calls
  /\ \A o \in {"WritePowerCtl", "CacheStandBy", "WriteAll"}, s \in BOOLEAN :
        Power(o, s) \in Calls
  /\ \A o \in {"Ensure", "Run", "Ready", "WriteGo", "CacheRun"},
        a \in Axes, r \in BOOLEAN : AxisRun(o, a, r) \in Calls
  /\ \A o \in {"ChangeDrvCh", "RunAutoCalibration", "ReadRegisters"}, a \in Axes :
        AxisCall(o, a) \in Calls
  /\ \A a \in Axes, m \in Modes, s \in BOOLEAN : Mode(a, m, s) \in Calls
  /\ \A a \in Axes, m \in Request : Sweep(a, m) \in Calls
  /\ \A c \in Connections : Send(c) \in Calls
  /\ \A a \in Axes, v \in RtpValues :
        /\ [op |-> "StoreRtp", axis |-> a, rtp |-> v] \in Calls
        /\ [op |-> "UpdateRTP", axis |-> a, rtp |-> v] \in Calls
  /\ \A a \in Axes, r \in Registers :
        [op |-> "WriteRegisters", axis |-> a, registers |-> r] \in Calls
  /\ \A m \in Request : /\ [op |-> "RunCalibration", request |-> m] \in Calls
                        /\ [op |-> "UpdateAllReg", request |-> m] \in Calls
<1>1. \A o \in {"SetOffSet", "CheckModify", "CheckRun", "CheckUpdate",
               "CheckSend", "AliveLog", "broadcastMessage"} : Call(o) \in Calls
  BY DEF Call, Calls
<1>2. \A f \in HandlerFlags, v \in BOOLEAN : Set(f, v) \in Calls
  BY DEF Set, Calls
<1>3. /\ \A s \in BOOLEAN : StandBy(s) \in Calls
      /\ \A o \in {"WritePowerCtl", "CacheStandBy", "WriteAll"}, s \in BOOLEAN :
           Power(o, s) \in Calls
  BY DEF StandBy, Power, Calls
<1>4. \A o \in {"Ensure", "Run", "Ready", "WriteGo", "CacheRun"},
        a \in Axes, r \in BOOLEAN : AxisRun(o, a, r) \in Calls
  BY DEF AxisRun, Calls
<1>5. \A o \in {"ChangeDrvCh", "RunAutoCalibration", "ReadRegisters"}, a \in Axes :
        AxisCall(o, a) \in Calls
  BY DEF AxisCall, Calls
<1>6. \A a \in Axes, m \in Modes, s \in BOOLEAN : Mode(a, m, s) \in Calls
  BY DEF Mode, Calls
<1>7. \A a \in Axes, m \in Request : Sweep(a, m) \in Calls
  BY DEF Sweep, Calls
<1>8. \A c \in Connections : Send(c) \in Calls
  BY DEF Send, Calls
<1>9. \A a \in Axes, v \in RtpValues :
        /\ [op |-> "StoreRtp", axis |-> a, rtp |-> v] \in Calls
        /\ [op |-> "UpdateRTP", axis |-> a, rtp |-> v] \in Calls
  BY DEF Calls
<1>10. \A a \in Axes, r \in Registers :
        [op |-> "WriteRegisters", axis |-> a, registers |-> r] \in Calls
  BY DEF Calls
<1>11. \A m \in Request : /\ [op |-> "RunCalibration", request |-> m] \in Calls
                          /\ [op |-> "UpdateAllReg", request |-> m] \in Calls
  BY DEF Calls
<1>q. QED
  BY <1>1, <1>2, <1>3, <1>4, <1>5, <1>6, <1>7, <1>8, <1>9, <1>10, <1>11

(* The first and the last axis, and the one after an axis that is not last. *)
LEMMA AxesFacts ==
  /\ 1 \in Axes
  /\ NumAxes \in Axes
  /\ \A a \in Axes : a < NumAxes => a + 1 \in Axes
BY ControlAssumption DEF Axes

(* The calls RunDrv and PauseDrv start with.                                *)
LEMMA RunOrPause == RunDrv \in Calls /\ PauseDrv \in Calls
BY Constructors, AxesFacts, Zenon DEF RunDrv, PauseDrv

(* Tuples of calls, and conditional ones, are sequences of calls.           *)
LEMMA TupleType ==
  /\ \A a \in Calls : <<a>> \in Seq(Calls)
  /\ \A a, b \in Calls : <<a, b>> \in Seq(Calls)
  /\ \A a, b, c \in Calls : <<a, b, c>> \in Seq(Calls)
  /\ \A a, b, c, d \in Calls : <<a, b, c, d>> \in Seq(Calls)
  /\ \A a, b, c, d, e \in Calls : <<a, b, c, d, e>> \in Seq(Calls)
  /\ \A a, b, c, d, e, f \in Calls : <<a, b, c, d, e, f>> \in Seq(Calls)
OBVIOUS

(* Calls put in front of other calls.                                       *)
LEMMA ConcatType ==
  ASSUME NEW s \in Seq(Calls), NEW u \in Seq(Calls)
  PROVE  s \o u \in Seq(Calls)
OBVIOUS

(* Calls made only on a condition.                                          *)
LEMMA IfType ==
  ASSUME NEW condition, NEW calls \in Seq(Calls)
  PROVE  If(condition, calls) \in Seq(Calls)
BY DEF If

(* Replacing the call at the head by the calls of its body.                 *)
LEMMA ContinueType ==
  ASSUME TypeOK, NEW t \in Threads, NEW o, At(t, o), NEW calls \in Seq(Calls),
         Continue(t, calls)
  PROVE  todo' \in [Threads -> Seq(Calls)]
<1>1. todo[t] \in Seq(Calls) /\ todo[t] # <<>>
  BY DEF TypeOK, At
<1>2. Tail(todo[t]) \in Seq(Calls)
  BY <1>1
<1>3. calls \o Tail(todo[t]) \in Seq(Calls)
  BY <1>2
<1>q. QED
  BY <1>3 DEF TypeOK, Continue

(* A handler or a tick that begins has calls to make.                       *)
LEMMA BeginType ==
  ASSUME TypeOK, NEW t \in Threads, NEW calls \in Seq(Calls), Begin(t, calls)
  PROVE  todo' \in [Threads -> Seq(Calls)]
BY DEF TypeOK, Begin

(* The call thread t makes now.                                             *)
LEMMA NowType ==
  ASSUME TypeOK, NEW t \in Threads, NEW o, At(t, o)
  PROVE  Now(t) \in Calls /\ Now(t).op = o
<1>1. todo[t] \in Seq(Calls) /\ todo[t] # <<>>
  BY DEF TypeOK, At
<1>2. Head(todo[t]) \in Calls
  BY <1>1
<1>q. QED
  BY <1>2 DEF Now, At

(* A transfer leaves a register file in every driver.                       *)
LEMMA WriteDriverType ==
  ASSUME TypeOK, NEW registers \in Registers, WriteDriver(registers)
  PROVE  dev' \in [Axes -> Registers]
BY DEF TypeOK, WriteDriver

(* What is done on one axis is a call of that axis.                         *)
LEMMA OnAxisType ==
  ASSUME NEW a \in Axes, NEW m \in Request
  PROVE  OnAxis(a, m) \in Calls
<1>1. m.rtp[a] \in RtpValues /\ m.to_run \in BOOLEAN
  BY DEF Request
<1>2. [mode |-> RtpMode, standby |-> ~m.to_run, go |-> m.to_run, rtp |-> m.rtp[a]]
        \in Registers
  BY <1>1 DEF Registers, Modes, RtpMode
<1>q. QED
  BY <1>1, <1>2, Constructors DEF OnAxis

----------------------------------------------------------------------------
(* Type correctness is preserved by every call of a thread, ...             *)
LEMMA CallStepType ==
  ASSUME TypeOK, NEW t \in Threads, Step(t)
  PROVE  TypeOK'
<1> USE DEF network, driver, shared, adxl
<1> DEFINE a == Now(t).axis
           r == Now(t).run
           m == Now(t).request
<1>0. <<>> \in Seq(Calls) /\ channel \in Axes /\ dev[channel] \in Registers
  BY DEF TypeOK
<1>1. CASE SetFlag(t)
  <2>1. At(t, "SetFlag")
    BY <1>1 DEF SetFlag
  <2>2. Now(t).flag \in Flags /\ Now(t).to \in BOOLEAN
    BY <2>1, NowType, CallFields DEF HandlerFlags, Flags
  <2>4. todo' \in [Threads -> Seq(Calls)]
    BY <1>1, <1>0, <2>1, ContinueType DEF SetFlag
  <2>q. QED
    BY <1>1, <1>0, <2>4, <2>2 DEF SetFlag, TypeOK
<1>2. CASE StoreRtp(t)
  <2>1. At(t, "StoreRtp")
    BY <1>2 DEF StoreRtp
  <2>2. a \in Axes /\ Now(t).rtp \in RtpValues
    BY <2>1, NowType, CallFields
  <2>4. todo' \in [Threads -> Seq(Calls)]
    BY <1>2, <1>0, <2>1, ContinueType DEF StoreRtp
  <2>q. QED
    BY <1>2, <1>0, <2>4, <2>2 DEF StoreRtp, TypeOK
<1>3. CASE SetStandBy(t)
  <2>1. At(t, "SetStandBy")
    BY <1>3 DEF SetStandBy
  <2>2. Now(t).standby \in BOOLEAN
    BY <2>1, NowType, CallFields
  <2>a. <<Power("WritePowerCtl", Now(t).standby)>> \in Seq(Calls)
    BY <2>2, Constructors, TupleType, Zenon
  <2>3. If(standby_ # Now(t).standby, <<Power("WritePowerCtl", Now(t).standby)>>) \in Seq(Calls)
    BY <2>a, IfType, Zenon
  <2>4. todo' \in [Threads -> Seq(Calls)]
    BY <1>3, <2>1, <2>3, ContinueType DEF SetStandBy
  <2>q. QED
    BY <1>3, <1>0, <2>4 DEF SetStandBy, TypeOK
<1>4. CASE WritePowerCtl(t) \/ CacheStandBy(t) \/ WriteAll(t)
  <2>1. /\ WritePowerCtl(t) => At(t, "WritePowerCtl")
        /\ CacheStandBy(t) => At(t, "CacheStandBy")
        /\ WriteAll(t) => At(t, "WriteAll")
    BY DEF WritePowerCtl, CacheStandBy, WriteAll
  <2>2. Now(t).standby \in BOOLEAN
    BY <1>4, <2>1, NowType, CallFields
  <2>a. <<Power("CacheStandBy", Now(t).standby)>> \in Seq(Calls)
    BY <2>2, Constructors, TupleType, Zenon
  <2>3. \A ok \in BusOutcomes : If(ok, <<Power("CacheStandBy", Now(t).standby)>>) \in Seq(Calls)
    BY <2>a, IfType, Zenon
  <2>4. todo' \in [Threads -> Seq(Calls)]
    <3>1. CASE WritePowerCtl(t)
      BY <2>1, <2>3, <3>1, ContinueType DEF WritePowerCtl
    <3>2. CASE CacheStandBy(t)
      BY <1>0, <2>1, <3>2, ContinueType DEF CacheStandBy
    <3>3. CASE WriteAll(t)
      BY <1>0, <2>1, <3>3, ContinueType DEF WriteAll
    <3>q. QED
      BY <1>4, <3>1, <3>2, <3>3
  <2>q. QED
    BY <1>4, <2>2, <2>4 DEF WritePowerCtl, CacheStandBy, WriteAll, TypeOK
<1>25. CASE SetOffSet(t)
  <2>1. At(t, "SetOffSet")
    BY <1>25 DEF SetOffSet
  <2>a. StandBy(TRUE) \in Calls /\ StandBy(standby_) \in Calls
    BY Constructors, Zenon DEF TypeOK
  <2>3. <<StandBy(TRUE), StandBy(standby_)>> \in Seq(Calls)
    BY <2>a, TupleType, Zenon
  <2>4. todo' \in [Threads -> Seq(Calls)]
    BY <1>25, <2>1, <2>3, ContinueType DEF SetOffSet
  <2>q. QED
    BY <1>25, <1>0, <2>4 DEF SetOffSet, TypeOK
<1>26. CASE UpdateAllReg(t)
  <2>1. At(t, "UpdateAllReg")
    BY <1>26 DEF UpdateAllReg
  <2>2. (~m.to_run) \in BOOLEAN
    OBVIOUS
  <2>a. /\ StandBy(TRUE) \in Calls /\ StandBy(standby_) \in Calls
        /\ Power("WriteAll", ~m.to_run) \in Calls
    BY <2>2, Constructors, Zenon DEF TypeOK
  <2>3. <<StandBy(TRUE), Power("WriteAll", ~m.to_run), StandBy(standby_)>> \in Seq(Calls)
    BY <2>a, TupleType, Zenon
  <2>4. todo' \in [Threads -> Seq(Calls)]
    BY <1>26, <2>1, <2>3, ContinueType DEF UpdateAllReg
  <2>q. QED
    BY <1>26, <1>0, <2>4 DEF UpdateAllReg, TypeOK
<1>5. CASE ChangeDrvCh(t)
  <2>1. At(t, "ChangeDrvCh")
    BY <1>5 DEF ChangeDrvCh
  <2>2. a \in Axes
    BY <2>1, NowType, CallFields
  <2>4. todo' \in [Threads -> Seq(Calls)]
    BY <1>5, <1>0, <2>1, ContinueType DEF ChangeDrvCh
  <2>q. QED
    BY <1>5, <1>0, <2>4, <2>2 DEF ChangeDrvCh, TypeOK
<1>6. CASE Ensure(t)
  <2>1. At(t, "Ensure")
    BY <1>6 DEF Ensure
  <2>2. a \in Axes /\ r \in BOOLEAN
    BY <2>1, NowType, CallFields
  <2> DEFINE first == If(run_[a] # r, <<AxisCall("ChangeDrvCh", a), AxisRun("Run", a, r)>>)
             rest  == If(a < NumAxes, <<AxisRun("Ensure", a + 1, r)>>)
  <2>a. first \in Seq(Calls)
    BY <2>2, Constructors DEF If
  <2>b. rest \in Seq(Calls)
    BY <2>2, Constructors, AxesFacts DEF If
  <2>3. first \o rest \in Seq(Calls)
    BY <2>a, <2>b
  <2>4. todo' \in [Threads -> Seq(Calls)]
    BY <1>6, <2>1, <2>3, ContinueType DEF Ensure
  <2>q. QED
    BY <1>6, <1>0, <2>4, <2>2 DEF Ensure, TypeOK
<1>7. CASE Run(t)
  <2>1. At(t, "Run")
    BY <1>7 DEF Run
  <2>2. a \in Axes /\ r \in BOOLEAN
    BY <2>1, NowType, CallFields
  <2>3. If(run_[a] # r, <<AxisRun("Ready", a, r), AxisRun("WriteGo", a, r),
                          AxisRun("CacheRun", a, r)>>) \in Seq(Calls)
    BY <2>2, Constructors DEF If
  <2>4. todo' \in [Threads -> Seq(Calls)]
    BY <1>7, <2>1, <2>3, ContinueType DEF Run
  <2>q. QED
    BY <1>7, <1>0, <2>4, <2>2 DEF Run, TypeOK
<1>8. CASE Ready(t)
  <2>1. At(t, "Ready")
    BY <1>8 DEF Ready
  <2>2. a \in Axes /\ r \in BOOLEAN
    BY <2>1, NowType, CallFields
  <2>a. dev[channel].mode \in Modes
    BY <1>0 DEF Registers
  <2>b. Mode(a, dev[channel].mode, ~r) \in Calls
    BY <2>2, <2>a, Constructors, Zenon
  <2>3. \A ok \in BusOutcomes :
          If(ok, <<Mode(a, dev[channel].mode, ~r)>>) \in Seq(Calls)
    BY <2>b DEF If
  <2>4. todo' \in [Threads -> Seq(Calls)]
    BY <1>8, <2>1, <2>3, ContinueType DEF Ready
  <2>q. QED
    BY <1>8, <1>0, <2>4, <2>2 DEF Ready, TypeOK
<1>9. CASE WriteMode(t)
  <2>1. At(t, "WriteMode")
    BY <1>9 DEF WriteMode
  <2>2. Now(t).mode \in Modes /\ Now(t).standby \in BOOLEAN
    BY <2>1, NowType, CallFields
  <2>4. todo' \in [Threads -> Seq(Calls)]
    BY <1>9, <1>0, <2>1, ContinueType DEF WriteMode
  <2>5. dev' \in [Axes -> Registers]
    BY <1>9, <1>0, <2>2, WriteDriverType DEF WriteMode, Registers
  <2>q. QED
    BY <1>9, <1>0, <2>4, <2>5 DEF WriteMode, TypeOK
<1>10. CASE WriteGo(t)
  <2>1. At(t, "WriteGo")
    BY <1>10 DEF WriteGo
  <2>2. r \in BOOLEAN
    BY <2>1, NowType, CallFields
  <2>4. todo' \in [Threads -> Seq(Calls)]
    BY <1>10, <1>0, <2>1, ContinueType DEF WriteGo
  <2>5. dev' \in [Axes -> Registers]
    BY <1>10, <1>0, <2>2, WriteDriverType DEF WriteGo, Registers
  <2>q. QED
    BY <1>10, <1>0, <2>4, <2>5 DEF WriteGo, TypeOK
<1>11. CASE CacheRun(t)
  <2>1. At(t, "CacheRun")
    BY <1>11 DEF CacheRun
  <2>2. a \in Axes /\ r \in BOOLEAN
    BY <2>1, NowType, CallFields
  <2>4. todo' \in [Threads -> Seq(Calls)]
    BY <1>11, <1>0, <2>1, ContinueType DEF CacheRun
  <2>q. QED
    BY <1>11, <1>0, <2>4, <2>2 DEF CacheRun, TypeOK
<1>12. CASE UpdateRTP(t)
  <2>1. At(t, "UpdateRTP")
    BY <1>12 DEF UpdateRTP
  <2>2. Now(t).rtp \in RtpValues
    BY <2>1, NowType, CallFields
  <2>4. todo' \in [Threads -> Seq(Calls)]
    BY <1>12, <1>0, <2>1, ContinueType DEF UpdateRTP
  <2>5. dev' \in [Axes -> Registers]
    BY <1>12, <1>0, <2>2, WriteDriverType DEF UpdateRTP, Registers
  <2>q. QED
    BY <1>12, <1>0, <2>4, <2>5 DEF UpdateRTP, TypeOK
<1>13. CASE WriteRegisters(t)
  <2>1. At(t, "WriteRegisters")
    BY <1>13 DEF WriteRegisters
  <2>2. Now(t).registers \in Registers
    BY <2>1, NowType, CallFields
  <2>4. todo' \in [Threads -> Seq(Calls)]
    BY <1>13, <1>0, <2>1, ContinueType DEF WriteRegisters
  <2>5. dev' \in [Axes -> Registers]
    BY <1>13, <1>0, <2>2, WriteDriverType DEF WriteRegisters, Registers
  <2>q. QED
    BY <1>13, <1>0, <2>4, <2>5 DEF WriteRegisters, TypeOK
<1>14. CASE ReadRegisters(t)
  <2>1. At(t, "ReadRegisters")
    BY <1>14 DEF ReadRegisters
  <2>4. todo' \in [Threads -> Seq(Calls)]
    BY <1>14, <1>0, <2>1, ContinueType DEF ReadRegisters
  <2>q. QED
    BY <1>14, <1>0, <2>4 DEF ReadRegisters, TypeOK
<1>15. CASE RunAutoCalibration(t)
  <2>1. At(t, "RunAutoCalibration")
    BY <1>15 DEF RunAutoCalibration
  <2>2. a \in Axes
    BY <2>1, NowType, CallFields
  <2>a. /\ CalMode \in Modes
        /\ \A ok \in BusOutcomes :
             (IF ok THEN dev[channel].mode ELSE FailedMode) \in Modes
    BY <1>0 DEF Registers, Modes, CalMode, FailedMode
  <2>b. /\ Mode(a, CalMode, TRUE) \in Calls
        /\ AxisRun("Run", a, TRUE) \in Calls
        /\ AxisRun("Run", a, FALSE) \in Calls
        /\ AxisCall("ReadRegisters", a) \in Calls
    BY <2>2, <2>a, Constructors, Zenon
  <2>c. \A ok \in BusOutcomes :
          Mode(a, IF ok THEN dev[channel].mode ELSE FailedMode, TRUE) \in Calls
    BY <2>2, <2>a, Constructors, Zenon
  <2>3. \A ok \in BusOutcomes :
          <<Mode(a, CalMode, TRUE), AxisRun("Run", a, TRUE), AxisRun("Run", a, FALSE),
            Mode(a, IF ok THEN dev[channel].mode ELSE FailedMode, TRUE),
            AxisCall("ReadRegisters", a)>> \in Seq(Calls)
    BY <2>b, <2>c, TupleType, Zenon
  <2>4. todo' \in [Threads -> Seq(Calls)]
    BY <1>15, <2>1, <2>3, ContinueType DEF RunAutoCalibration
  <2>q. QED
    BY <1>15, <1>0, <2>4, <2>2 DEF RunAutoCalibration, TypeOK
<1>16. CASE DoSweep(t)
  <2>1. At(t, "Sweep")
    BY <1>16 DEF DoSweep
  <2>2. a \in Axes /\ m \in Request
    BY <2>1, NowType, CallFields
  <2>a. OnAxis(a, m) \in Calls
    BY <2>2, OnAxisType
  <2>b. <<OnAxis(a, m)>> \in Seq(Calls)
    BY <2>a
  <2>c. If(a < NumAxes, <<Sweep(a + 1, m)>>) \in Seq(Calls)
    BY <2>2, Constructors, AxesFacts DEF If
  <2>3. <<OnAxis(a, m)>> \o If(a < NumAxes, <<Sweep(a + 1, m)>>) \in Seq(Calls)
    BY <2>b, <2>c
  <2>4. todo' \in [Threads -> Seq(Calls)]
    BY <1>16, <2>1, <2>3, ContinueType DEF DoSweep
  <2>q. QED
    BY <1>16, <1>0, <2>4, <2>2 DEF DoSweep, TypeOK
<1>17. CASE RunCalibration(t)
  <2>1. At(t, "RunCalibration")
    BY <1>17 DEF RunCalibration
  <2>2. m \in Request
    BY <2>1, NowType, CallFields
  <2>a. /\ Sweep(1, m) \in Calls
        /\ StandBy(FALSE) \in Calls
        /\ StandBy(standby_) \in Calls
        /\ Call("SetOffSet") \in Calls
    BY <2>2, Constructors, AxesFacts, Zenon DEF TypeOK
  <2>3. <<Sweep(1, m), StandBy(FALSE), StandBy(standby_), Call("SetOffSet")>>
          \in Seq(Calls)
    BY <2>a, TupleType, Zenon
  <2>4. todo' \in [Threads -> Seq(Calls)]
    BY <1>17, <2>1, <2>3, ContinueType DEF RunCalibration
  <2>q. QED
    BY <1>17, <1>0, <2>4, <2>2 DEF RunCalibration, TypeOK
<1>18. CASE SendMessage(t)
  <2>1. At(t, "sendMessage")
    BY <1>18 DEF SendMessage
  <2>4. todo' \in [Threads -> Seq(Calls)]
    BY <1>18, <1>0, <2>1, ContinueType DEF SendMessage
  <2>q. QED
    BY <1>18, <1>0, <2>4 DEF SendMessage, TypeOK
<1>19. CASE BroadcastMessage(t)
  <2>1. At(t, "broadcastMessage")
    BY <1>19 DEF BroadcastMessage
  <2>4. todo' \in [Threads -> Seq(Calls)]
    BY <1>19, <1>0, <2>1, ContinueType DEF BroadcastMessage
  <2>q. QED
    BY <1>19, <1>0, <2>4 DEF BroadcastMessage, TypeOK
<1>20. CASE CheckModify(t)
  <2>1. At(t, "CheckModify")
    BY <1>20 DEF CheckModify
  <2>a. <<PauseDrv>> \in Seq(Calls)
    BY RunOrPause
  <2>b. <<Call("CheckRun"), Call("CheckUpdate"), Call("CheckSend")>> \in Seq(Calls)
    BY Constructors
  <2>3. (IF flag["on_modify"]
           THEN <<PauseDrv>>
           ELSE <<Call("CheckRun"), Call("CheckUpdate"), Call("CheckSend")>>) \in Seq(Calls)
    BY <2>a, <2>b
  <2>4. todo' \in [Threads -> Seq(Calls)]
    BY <1>20, <2>1, <2>3, ContinueType DEF CheckModify
  <2>q. QED
    BY <1>20, <1>0, <2>4 DEF CheckModify, TypeOK
<1>21. CASE CheckRun(t)
  <2>1. At(t, "CheckRun")
    BY <1>21 DEF CheckRun
  <2>a. StandBy(FALSE) \in Calls
    BY Constructors, Zenon
  <2>b. <<RunDrv, StandBy(FALSE)>> \in Seq(Calls)
    BY <2>a, RunOrPause, TupleType, Zenon
  <2>3. If(flag["on_run"], <<RunDrv, StandBy(FALSE)>>) \in Seq(Calls)
    BY <2>b, IfType, Zenon
  <2>4. todo' \in [Threads -> Seq(Calls)]
    BY <1>21, <2>1, <2>3, ContinueType DEF CheckRun
  <2>q. QED
    BY <1>21, <1>0, <2>4 DEF CheckRun, TypeOK
<1>22. CASE CheckUpdate(t)
  <2>1. At(t, "CheckUpdate")
    BY <1>22 DEF CheckUpdate
  <2> DEFINE u == [kind |-> "drvCmdUpdate", to_run |-> FALSE, rtp |-> ws_rtp_cmd]
  <2>a. u \in Request
    BY DEF TypeOK, Request, RequestKinds
  <2>b. Sweep(1, u) \in Calls
    BY <2>a, Constructors, AxesFacts
  <2>c. Set("on_update_cmd", FALSE) \in Calls
    BY Constructors, Zenon DEF HandlerFlags
  <2>d. <<Sweep(1, u), Set("on_update_cmd", FALSE)>> \in Seq(Calls)
    BY <2>b, <2>c, TupleType, Zenon
  <2>3. If(flag["on_update_cmd"], <<Sweep(1, u), Set("on_update_cmd", FALSE)>>)
          \in Seq(Calls)
    BY <2>d, IfType, Zenon
  <2>4. todo' \in [Threads -> Seq(Calls)]
    BY <1>22, <2>1, <2>3, ContinueType DEF CheckUpdate
  <2>q. QED
    BY <1>22, <1>0, <2>4 DEF CheckUpdate, TypeOK
<1>23. CASE CheckSend(t)
  <2>1. At(t, "CheckSend")
    BY <1>23 DEF CheckSend
  <2> DEFINE k == [kind |-> "dataRTKeepRequire", to_run |-> FALSE,
                   rtp |-> [x \in Axes |-> 0]]
  <2>a. k \in Request
    BY ControlAssumption DEF Request, RequestKinds
  <2>3. If(flag["need_send_rt"], <<Sweep(1, k), Call("broadcastMessage")>>) \in Seq(Calls)
    BY <2>a, Constructors, AxesFacts DEF If
  <2>4. todo' \in [Threads -> Seq(Calls)]
    BY <1>23, <2>1, <2>3, ContinueType DEF CheckSend
  <2>q. QED
    BY <1>23, <1>0, <2>4 DEF CheckSend, TypeOK
<1>24. CASE AliveLog(t)
  <2>1. At(t, "AliveLog")
    BY <1>24 DEF AliveLog
  <2>3. If(ticks' = 0, <<AxisCall("ChangeDrvCh", 1)>>) \in Seq(Calls)
    BY Constructors, AxesFacts DEF If
  <2>4. todo' \in [Threads -> Seq(Calls)]
    BY <1>24, <2>1, <2>3, ContinueType DEF AliveLog
  <2>5. ticks' \in 0 .. AliveTicks - 1
    BY <1>24, ControlAssumption DEF AliveLog, TypeOK
  <2>q. QED
    BY <1>24, <1>0, <2>4, <2>5 DEF AliveLog, TypeOK
<1>q. QED
  BY <1>1, <1>2, <1>3, <1>4, <1>5, <1>6, <1>7, <1>8, <1>9, <1>10, <1>11, <1>12, <1>13, <1>14, <1>15, <1>16, <1>17, <1>18, <1>19, <1>20, <1>21, <1>22, <1>23, <1>24, <1>25, <1>26 DEF Step

----------------------------------------------------------------------------
(* ... and by the handlers, the tick, the timer and the network.            *)

(* The handler at the head of the queue, and the queue without it.          *)
LEMMA HeadOfQueue ==
  ASSUME TypeOK, queue # <<>>
  PROVE  /\ Head(queue) \in Posted
         /\ Tail(queue) \in Seq(Posted)
         /\ Client \in Connections
         /\ Head(queue).kind = "request" => Asked \in Request
<1>1. queue \in Seq(Posted)
  BY DEF TypeOK
<1>2. Head(queue) \in Posted /\ Tail(queue) \in Seq(Posted)
  BY <1>1
<1>3. Client \in Connections /\ (Head(queue).kind = "request" => Asked \in Request)
  BY <1>2 DEF Posted, Client, Asked
<1>q. QED
  BY <1>2, <1>3

(* ... by every handler of the main event loop, ...                         *)
LEMMA MainLoopType ==
  ASSUME TypeOK, MainLoop
  PROVE  TypeOK'
<1> USE DEF network, driver, shared, adxl
<1>0. /\ "main" \in Threads
      /\ RunDrv \in Calls /\ PauseDrv \in Calls
      /\ standby_ \in BOOLEAN
  BY RunOrPause DEF Threads, TypeOK
<1>1. CASE Disconnect
  <2>1. queue' \in Seq(Posted)
    BY <1>1, HeadOfQueue DEF Disconnect
  <2>2. todo' \in [Threads -> Seq(Calls)]
    <3>1. <<PauseDrv>> \in Seq(Calls)
      BY <1>0
    <3>q. QED
      BY <1>0, <1>1, <3>1, BeginType DEF Disconnect, TypeOK
  <2>3. flag' \in [Flags -> BOOLEAN]
    BY <1>1 DEF Disconnect, TypeOK
  <2>q. QED
    BY <1>1, <2>1, <2>2, <2>3 DEF Disconnect, TypeOK
<1>2. CASE ModuleInfoRequire
  <2>1. Client \in Connections /\ Asked \in Request /\ queue' \in Seq(Posted)
    BY <1>2, HeadOfQueue DEF ModuleInfoRequire, Handle
  <2>2. todo' \in [Threads -> Seq(Calls)]
    <3>1. Send(Client) \in Calls
      BY <2>1, Constructors
    <3>2. <<Send(Client)>> \in Seq(Calls)
      BY <3>1
    <3>q. QED
      BY <1>0, <1>2, <3>2, BeginType DEF ModuleInfoRequire
  <2>q. QED
    BY <1>2, <2>1, <2>2 DEF ModuleInfoRequire, Handle, TypeOK
<1>3. CASE DrvDriveUpdate
  <2>1. Client \in Connections /\ Asked \in Request /\ queue' \in Seq(Posted)
    BY <1>3, HeadOfQueue DEF DrvDriveUpdate, Handle
  <2>2. todo' \in [Threads -> Seq(Calls)]
    <3> DEFINE first == If(Asked.to_run # run_[1],
                           IF Asked.to_run THEN <<RunDrv>> ELSE <<PauseDrv>>)
    <3>a. first \in Seq(Calls)
      BY <1>0 DEF If
    <3>b. Asked.to_run \in BOOLEAN
      BY <2>1 DEF Request
    <3>c. Send(Client) \in Calls /\ Set("on_run", Asked.to_run) \in Calls
      BY <2>1, <3>b, Constructors, Zenon DEF HandlerFlags
    <3>d. <<Send(Client), Set("on_run", Asked.to_run)>> \in Seq(Calls)
      BY <3>c, TupleType, Zenon
    <3>2. first \o <<Send(Client), Set("on_run", Asked.to_run)>> \in Seq(Calls)
      BY <3>a, <3>d
    <3>q. QED
      BY <1>0, <1>3, <3>2, BeginType DEF DrvDriveUpdate
  <2>q. QED
    BY <1>3, <2>1, <2>2 DEF DrvDriveUpdate, Handle, TypeOK
<1>4. CASE DrvCmdUpdate
  <2>1. Client \in Connections /\ Asked \in Request /\ queue' \in Seq(Posted)
    BY <1>4, HeadOfQueue DEF DrvCmdUpdate, Handle
  <2>2. todo' \in [Threads -> Seq(Calls)]
    <3> DEFINE store == [a \in Axes |-> [op |-> "StoreRtp", axis |-> a, rtp |-> Asked.rtp[a]]]
    <3>a. \A a \in Axes : Asked.rtp[a] \in RtpValues
      BY <2>1 DEF Request
    <3>b. store \in [Axes -> Calls]
      BY <3>a, Constructors
    <3>c. store \in Seq(Calls)
      BY <3>b, ControlAssumption DEF Axes
    <3>d. Set("on_update_cmd", TRUE) \in Calls /\ Send(Client) \in Calls
      BY <2>1, Constructors, Zenon DEF HandlerFlags
    <3>e. <<Set("on_update_cmd", TRUE), Send(Client)>> \in Seq(Calls)
      BY <3>d, TupleType, Zenon
    <3>2. store \o <<Set("on_update_cmd", TRUE), Send(Client)>> \in Seq(Calls)
      BY <3>c, <3>e, ConcatType, Zenon
    <3>q. QED
      BY <1>0, <1>4, <3>2, BeginType DEF DrvCmdUpdate
  <2>q. QED
    BY <1>4, <2>1, <2>2 DEF DrvCmdUpdate, Handle, TypeOK
<1>5. CASE RegAllUpdate
  <2>1. Client \in Connections /\ Asked \in Request /\ queue' \in Seq(Posted)
    BY <1>5, HeadOfQueue DEF RegAllUpdate, Handle
  <2>2. todo' \in [Threads -> Seq(Calls)]
    <3> DEFINE first == <<Set("on_modify", TRUE), StandBy(TRUE), Sweep(1, Asked),
                          [op |-> "UpdateAllReg", request |-> Asked]>>
               last  == <<Set("on_modify", FALSE), Send(Client)>>
               wake  == If(~flag["on_calibration"], <<StandBy(FALSE)>>)
    <3>a. /\ Set("on_modify", TRUE) \in Calls
          /\ Set("on_modify", FALSE) \in Calls
          /\ StandBy(TRUE) \in Calls
          /\ StandBy(FALSE) \in Calls
      BY Constructors, Zenon DEF HandlerFlags
    <3>b. /\ Sweep(1, Asked) \in Calls
          /\ [op |-> "UpdateAllReg", request |-> Asked] \in Calls
          /\ Send(Client) \in Calls
      BY <2>1, Constructors, AxesFacts
    <3>c. first \in Seq(Calls)
      BY <3>a, <3>b, TupleType, Zenon
    <3>d. last \in Seq(Calls)
      BY <3>a, <3>b, TupleType, Zenon
    <3>e. wake \in Seq(Calls)
      BY <3>a, TupleType, IfType, Zenon
    <3>f. first \o wake \in Seq(Calls)
      BY <3>c, <3>e, ConcatType
    <3>2. first \o wake \o last \in Seq(Calls)
      BY <3>d, <3>f, ConcatType
    <3>q. QED
      BY <1>0, <1>5, <3>2, BeginType DEF RegAllUpdate
  <2>q. QED
    BY <1>5, <2>1, <2>2 DEF RegAllUpdate, Handle, TypeOK
<1>6. CASE CalibrationRequire
  <2>1. Client \in Connections /\ Asked \in Request /\ queue' \in Seq(Posted)
    BY <1>6, HeadOfQueue DEF CalibrationRequire, Handle
  <2>2. todo' \in [Threads -> Seq(Calls)]
    <3>a. /\ Set("on_calibration", TRUE) \in Calls
          /\ Set("on_calibration", FALSE) \in Calls
          /\ StandBy(TRUE) \in Calls
          /\ StandBy(standby_) \in Calls
      BY <1>0, Constructors, Zenon DEF HandlerFlags
    <3>b. /\ [op |-> "RunCalibration", request |-> Asked] \in Calls
          /\ Send(Client) \in Calls
      BY <2>1, Constructors
    <3>2. <<Set("on_calibration", TRUE), StandBy(TRUE),
            [op |-> "RunCalibration", request |-> Asked],
            StandBy(standby_), Set("on_calibration", FALSE), Send(Client)>> \in Seq(Calls)
      BY <3>a, <3>b, TupleType, Zenon
    <3>q. QED
      BY <1>0, <1>6, <3>2, BeginType DEF CalibrationRequire
  <2>q. QED
    BY <1>6, <2>1, <2>2 DEF CalibrationRequire, Handle, TypeOK
<1>7. CASE RegAllRequire
  <2>1. Client \in Connections /\ Asked \in Request /\ queue' \in Seq(Posted)
    BY <1>7, HeadOfQueue DEF RegAllRequire, Handle
  <2>2. todo' \in [Threads -> Seq(Calls)]
    <3>1. Sweep(1, Asked) \in Calls /\ Send(Client) \in Calls
      BY <2>1, Constructors, AxesFacts
    <3>2. <<Sweep(1, Asked), Send(Client)>> \in Seq(Calls)
      BY <3>1
    <3>q. QED
      BY <1>0, <1>7, <3>2, BeginType DEF RegAllRequire
  <2>q. QED
    BY <1>7, <2>1, <2>2 DEF RegAllRequire, Handle, TypeOK
<1>8. CASE DataRTKeepRequire
  <2>1. queue' \in Seq(Posted)
    BY <1>8, HeadOfQueue DEF DataRTKeepRequire, Handle
  <2>q. QED
    BY <1>8, <2>1 DEF DataRTKeepRequire, Handle, TypeOK
<1>9. CASE DataRTStopRequire
  <2>1. queue' \in Seq(Posted)
    BY <1>9, HeadOfQueue DEF DataRTStopRequire, Handle
  <2>q. QED
    BY <1>9, <2>1 DEF DataRTStopRequire, Handle, TypeOK
<1>q. QED
  BY <1>1, <1>2, <1>3, <1>4, <1>5, <1>6, <1>7, <1>8, <1>9 DEF MainLoop

(* ... by a tick of the control loop ...                                    *)
LEMMA TickType ==
  ASSUME TypeOK, Tick
  PROVE  TypeOK'
<1> USE DEF network, driver, adxl
<1>1. <<Call("CheckModify"), Call("AliveLog")>> \in Seq(Calls)
  BY Constructors
<1>2. todo' \in [Threads -> Seq(Calls)]
  BY <1>1, BeginType DEF Tick, Threads
<1>q. QED
  BY <1>2 DEF Tick, TypeOK, Flags

(* ... and by the network thread.                                           *)
LEMMA NetworkType ==
  ASSUME TypeOK, NEW c \in Connections, Network(c)
  PROVE  TypeOK'
<1> USE DEF process, TypeOK
<1>1. CASE OnOpen(c)
  BY <1>1 DEF OnOpen, Move
<1>2. CASE OnMessage(c)
  <2>1. PICK m \in Requests :
          queue' = Append(queue, [conn |-> c, kind |-> "request", request |-> m])
    BY <1>2 DEF OnMessage
  <2>2. [conn |-> c, kind |-> "request", request |-> m] \in Posted
    BY ControlAssumption DEF Posted
  <2>3. queue' \in Seq(Posted)
    BY <2>1, <2>2
  <2>q. QED
    BY <1>2, <2>3, ControlAssumption DEF OnMessage
<1>3. CASE Closing(c)
  BY <1>3 DEF Closing, Move
<1>4. CASE OnClose(c)
  <2>1. [conn |-> c, kind |-> "disconnect"] \in Posted
    BY DEF Posted
  <2>2. queue' \in Seq(Posted)
    BY <1>4, <2>1 DEF OnClose
  <2>q. QED
    BY <1>4, <2>2 DEF OnClose, Move
<1>q. QED
  BY <1>1, <1>2, <1>3, <1>4 DEF Network

(* Everything the program holds keeps its type, for every number of axes and *)
(* connections: every call queued by a handler (main.cc:108-373) or by a tick *)
(* (main.cc:402-510) is well formed, names an axis that exists, and a failed *)
(* MODE read (drv2605l.cc:134) still leaves a mode that fits three bits.      *)
THEOREM TypeCorrect == Spec => []TypeOK
<1>1. Init => TypeOK
  BY ControlAssumption, AxesFacts DEF Init, TypeOK, Registers, Modes, RtpMode
<1>2. TypeOK /\ [Next]_vars => TypeOK'
  <2> SUFFICES ASSUME TypeOK, [Next]_vars PROVE TypeOK'
    OBVIOUS
  <2>1. CASE \E c \in Connections : Network(c)
    BY <2>1, NetworkType
  <2>2. CASE MainLoop
    BY <2>2, MainLoopType
  <2>3. CASE Tick
    BY <2>3, TickType
  <2>4. CASE \E t \in Threads : Step(t)
    BY <2>4, CallStepType
  <2>5. CASE TrigLoopExpired
    BY <2>5 DEF TrigLoopExpired, TypeOK, network, driver, adxl, Flags
  <2>6. CASE UNCHANGED vars
    BY <2>6 DEF vars, TypeOK
  <2>q. QED
    BY <2>1, <2>2, <2>3, <2>4, <2>5, <2>6 DEF Next
<1>q. QED
  BY <1>1, <1>2, PTL DEF Spec

----------------------------------------------------------------------------
(* Real-time data stops with the last client.                               *)

(* While nobody is connected, the handler posted last, if any is left, is    *)
(* the one that notices: no request can follow it before somebody connects.  *)
LastIsDisconnect ==
  openConnections = {}
    => IF queue = <<>> THEN ~flag["need_send_rt"]
                       ELSE queue[Len(queue)].kind = "disconnect"

(* Taking the first element of a longer sequence keeps the last.            *)
LEMMA TailKeepsLast ==
  ASSUME NEW S, NEW s \in Seq(S), s # <<>>, Tail(s) # <<>>
  PROVE  Tail(s)[Len(Tail(s))] = s[Len(s)]
OBVIOUS

(* A handler other than the one of a disconnect leaves a handler behind it   *)
(* when nobody is connected.                                                 *)
LEMMA RequestIsNotLast ==
  ASSUME TypeOK, LastIsDisconnect, NEW kind, Handle(kind)
  PROVE  LastIsDisconnect'
<1>1. openConnections' = openConnections
  BY DEF Handle, openConnections
<1>2. queue \in Seq(Posted) /\ queue # <<>> /\ queue' = Tail(queue)
      /\ Head(queue).kind = "request"
  BY DEF TypeOK, Handle
<1>3. SUFFICES ASSUME openConnections = {}
               PROVE  queue' # <<>> /\ queue'[Len(queue')].kind = "disconnect"
  BY <1>1 DEF LastIsDisconnect
<1>4. queue[Len(queue)].kind = "disconnect"
  BY <1>2, <1>3 DEF LastIsDisconnect
<1>5. Tail(queue) # <<>>
  <2>1. Head(queue) = queue[1] /\ Len(queue) \in Nat \ {0}
    BY <1>2
  <2>2. Len(queue) # 1
    BY <1>2, <1>4, <2>1
  <2>3. Len(Tail(queue)) = Len(queue) - 1
    BY <1>2
  <2>4. Len(Tail(queue)) # 0
    BY <2>1, <2>2, <2>3
  <2>q. QED
    BY <2>4, EmptySeq
<1>q. QED
  BY <1>2, <1>4, <1>5, TailKeepsLast

(* The handler of a disconnect lowers need_send_rt if nobody is connected.  *)
LEMMA DisconnectStops ==
  ASSUME TypeOK, LastIsDisconnect, Disconnect
  PROVE  LastIsDisconnect'
<1>1. openConnections' = openConnections
  BY DEF Disconnect, openConnections
<1>2. queue \in Seq(Posted) /\ queue # <<>> /\ queue' = Tail(queue)
  BY DEF TypeOK, Disconnect
<1>3. openConnections = {} => ~flag'["need_send_rt"]
  BY DEF Disconnect, TypeOK, Flags
<1>4. openConnections = {} /\ queue' # <<>> => queue'[Len(queue')].kind = "disconnect"
  BY <1>2, TailKeepsLast DEF LastIsDisconnect
<1>q. QED
  BY <1>1, <1>3, <1>4 DEF LastIsDisconnect

(* Nothing a thread does inside a handler or a tick touches need_send_rt.    *)
LEMMA CallsKeepStream ==
  ASSUME TypeOK, NEW t \in Threads, Step(t)
  PROVE  /\ flag'["need_send_rt"] = flag["need_send_rt"]
         /\ UNCHANGED <<session, queue>>
<1>1. CASE SetFlag(t)
  <2>1. Now(t).flag \in HandlerFlags
    BY <1>1, NowType, CallFields DEF SetFlag
  <2>q. QED
    BY <1>1, <2>1 DEF SetFlag, TypeOK, HandlerFlags, Flags, network
<1>2. CASE ~SetFlag(t)
  BY <1>2 DEF Step, StoreRtp, SetStandBy, WritePowerCtl, CacheStandBy, SetOffSet,
     UpdateAllReg, WriteAll, ChangeDrvCh, Ensure, Run,
     Ready, WriteMode, WriteGo, CacheRun, UpdateRTP, WriteRegisters, ReadRegisters,
     RunAutoCalibration, DoSweep, RunCalibration, SendMessage, BroadcastMessage,
     CheckModify, CheckRun, CheckUpdate, CheckSend, AliveLog, network, shared
<1>q. QED
  BY <1>1, <1>2

(* Whoever sends is connected, and whoever leaves posts a disconnect.       *)
LEMMA NetworkKeepsLast ==
  ASSUME TypeOK, LastIsDisconnect, NEW c \in Connections, Network(c)
  PROVE  LastIsDisconnect'
<1> USE DEF process
<1>1. CASE OnOpen(c) \/ Closing(c)
  <2>1. c \in openConnections'
    BY <1>1 DEF OnOpen, Closing, Move, openConnections, TypeOK
  <2>q. QED
    BY <2>1 DEF LastIsDisconnect
<1>2. CASE OnMessage(c)
  <2>1. c \in openConnections'
    BY <1>2 DEF OnMessage, openConnections
  <2>q. QED
    BY <2>1 DEF LastIsDisconnect
<1>3. CASE OnClose(c)
  <2>1. queue \in Seq(Posted)
    BY DEF TypeOK
  <2>2. queue' = Append(queue, [conn |-> c, kind |-> "disconnect"])
    BY <1>3 DEF OnClose
  <2>3. queue' # <<>> /\ queue'[Len(queue')] = [conn |-> c, kind |-> "disconnect"]
    BY <2>1, <2>2
  <2>q. QED
    BY <2>3 DEF LastIsDisconnect
<1>q. QED
  BY <1>1, <1>2, <1>3 DEF Network

(* No real-time data is pushed once the last client has gone, however many    *)
(* clients there were and whatever requests were in flight when they closed   *)
(* (main.cc:117-126, 339-373): Disconnect counts the connections when it runs,*)
(* not when it is posted, and need_send_rt can only be raised by a handler    *)
(* that was posted before it.                                                 *)
THEOREM StreamStops == Spec => []StreamStopsWithLastClient
<1>1. Init => LastIsDisconnect
  BY DEF Init, LastIsDisconnect, Flags
<1>2. TypeOK /\ LastIsDisconnect /\ [Next]_vars => LastIsDisconnect'
  <2> SUFFICES ASSUME TypeOK, LastIsDisconnect, [Next]_vars
               PROVE  LastIsDisconnect'
    OBVIOUS
  <2>1. CASE \E c \in Connections : Network(c)
    BY <2>1, NetworkKeepsLast
  <2>2. CASE MainLoop
    BY <2>2, RequestIsNotLast, DisconnectStops
       DEF MainLoop, ModuleInfoRequire, DrvDriveUpdate, DrvCmdUpdate, RegAllUpdate,
           CalibrationRequire, RegAllRequire, DataRTKeepRequire, DataRTStopRequire
  <2>3. CASE Tick
    BY <2>3 DEF Tick, network, LastIsDisconnect, openConnections, TypeOK, Flags
  <2>4. CASE \E t \in Threads : Step(t)
    BY <2>4, CallsKeepStream DEF LastIsDisconnect, openConnections
  <2>5. CASE TrigLoopExpired
    BY <2>5 DEF TrigLoopExpired, network, LastIsDisconnect, openConnections, TypeOK, Flags
  <2>6. CASE UNCHANGED vars
    BY <2>6 DEF vars, LastIsDisconnect, openConnections
  <2>q. QED
    BY <2>1, <2>2, <2>3, <2>4, <2>5, <2>6 DEF Next
<1>3. LastIsDisconnect => StreamStopsWithLastClient
  BY DEF LastIsDisconnect, StreamStopsWithLastClient
<1>q. QED
  BY TypeCorrect, <1>1, <1>2, <1>3, PTL DEF Spec


----------------------------------------------------------------------------
(* The threads while clients use the real-time page only: the handlers then   *)
(* leave the bus to the control loop.                                        *)

(* What the real-time page sends, and a bus that works.                      *)
RealTimeKinds == {"moduleInfoRequire", "drvCmdUpdate", "dataRTKeepRequire",
                  "dataRTStopRequire"}

RealTimePage ==
  /\ BusOutcomes = {TRUE}
  /\ \A m \in Requests : m.kind \in RealTimeKinds

(* The calls of the handlers, which make no transfer as no driver runs, ...   *)
MainCalls ==
  {c \in Calls : \/ c.op \in {"StoreRtp", "sendMessage"}
                 \/ c.op = "SetFlag" /\ c.flag = "on_update_cmd"
                 \/ c.op = "Ensure" /\ c.run = FALSE}

(* ... those of a tick, ...                                                  *)
ControlCalls ==
  {c \in Calls : \/ c.op \in {"CheckModify", "CheckRun", "CheckUpdate", "CheckSend",
                              "AliveLog", "broadcastMessage", "ChangeDrvCh"}
                 \/ c.op = "SetFlag" /\ c.flag = "on_update_cmd"
                 \/ c.op = "Sweep" /\ c.request.kind \in {"drvCmdUpdate",
                                                          "dataRTKeepRequire"}}

(* ... and the one transfer a tick may be about to make, right after it has   *)
(* changed the channel.                                                     *)
AboutTo(calls) ==
  \/ calls = <<>>
  \/ /\ Tail(calls) \in Seq(ControlCalls)
     /\ \/ Head(calls) \in ControlCalls
        \/ Head(calls).op \in {"UpdateRTP", "ReadRegisters"} /\ Head(calls).axis = channel

RealTimePosted == {p \in Posted : p.kind = "request" => p.request.kind \in RealTimeKinds}

RealTimeInv ==
  /\ ~flag["on_run"] /\ ~flag["on_modify"]
  /\ \A a \in Axes : run_[a] = FALSE
  /\ queue \in Seq(RealTimePosted)
  /\ todo["main"] \in Seq(MainCalls)
  /\ AboutTo(todo["control"])

(* The calls that are left, after those that replace the first.              *)
LEMMA GoesOn ==
  ASSUME TypeOK, NEW t \in Threads, NEW S, NEW calls \in Seq(S),
         Tail(todo[t]) \in Seq(S), Continue(t, calls)
  PROVE  /\ todo'[t] \in Seq(S)
         /\ \A u \in Threads : u # t => todo'[u] = todo[u]
<1>1. calls \o Tail(todo[t]) \in Seq(S)
  OBVIOUS
<1>q. QED
  BY <1>1 DEF TypeOK, Continue

LEMMA AboutToCall ==
  ASSUME NEW calls \in Seq(ControlCalls)
  PROVE  AboutTo(calls)
BY DEF AboutTo

(* What main may be making, and what control may.                            *)
LEMMA MainAt ==
  ASSUME TypeOK, RealTimeInv, NEW o, At("main", o)
  PROVE  /\ o \in {"StoreRtp", "sendMessage", "SetFlag", "Ensure"}
         /\ Now("main") \in MainCalls /\ Now("main").op = o
         /\ Tail(todo["main"]) \in Seq(MainCalls)
<1>1. todo["main"] \in Seq(MainCalls) /\ todo["main"] # <<>> /\ Now("main").op = o
  BY DEF RealTimeInv, At, Now
<1>2. Head(todo["main"]) \in MainCalls /\ Tail(todo["main"]) \in Seq(MainCalls)
  BY <1>1
<1>3. \A c \in MainCalls : c.op \in {"StoreRtp", "sendMessage", "SetFlag", "Ensure"}
  BY DEF MainCalls
<1>q. QED
  BY <1>1, <1>2, <1>3, Zenon DEF Now

LEMMA ControlAt ==
  ASSUME TypeOK, RealTimeInv, NEW o, At("control", o)
  PROVE  /\ Now("control").op = o /\ Now("control") \in Calls
         /\ Tail(todo["control"]) \in Seq(ControlCalls)
         /\ \/ Now("control") \in ControlCalls
            \/ o \in {"UpdateRTP", "ReadRegisters"}
         /\ o \in {"CheckModify", "CheckRun", "CheckUpdate", "CheckSend", "AliveLog",
                   "broadcastMessage", "ChangeDrvCh", "SetFlag", "Sweep", "UpdateRTP",
                   "ReadRegisters"}
<1>1. todo["control"] # <<>> /\ Now("control").op = o /\ Now("control") = Head(todo["control"])
  BY DEF At, Now
<1>2. Now("control") \in Calls
  BY NowType DEF Threads
<1>3. /\ Tail(todo["control"]) \in Seq(ControlCalls)
      /\ \/ Now("control") \in ControlCalls
         \/ Now("control").op \in {"UpdateRTP", "ReadRegisters"}
  BY <1>1, Zenon DEF RealTimeInv, AboutTo
<1>4. \A c \in ControlCalls :
        c.op \in {"CheckModify", "CheckRun", "CheckUpdate", "CheckSend", "AliveLog",
                  "broadcastMessage", "ChangeDrvCh", "SetFlag", "Sweep"}
  BY DEF ControlCalls
<1>5. o \in {"CheckModify", "CheckRun", "CheckUpdate", "CheckSend", "AliveLog",
             "broadcastMessage", "ChangeDrvCh", "SetFlag", "Sweep", "UpdateRTP",
             "ReadRegisters"}
  <2> DEFINE c == Now("control")
  <2>1. c.op = o /\ (c \in ControlCalls \/ c.op \in {"UpdateRTP", "ReadRegisters"})
    BY <1>1, <1>3, Zenon
  <2> HIDE DEF c
  <2>q. QED
    BY <1>4, <2>1
<1>q. QED
  BY <1>1, <1>2, <1>3, <1>5, Zenon

LEMMA StepsOfMain ==
  ASSUME TypeOK, RealTimeInv, Step("main")
  PROVE  SetFlag("main") \/ StoreRtp("main") \/ Ensure("main") \/ SendMessage("main")
<1>1. \A o : At("main", o) => o \in {"StoreRtp", "sendMessage", "SetFlag", "Ensure"}
  BY MainAt, Zenon
<1>2. \A o \in {"SetStandBy", "WritePowerCtl", "CacheStandBy", "SetOffSet", "UpdateAllReg",
                "WriteAll", "ChangeDrvCh", "Run", "Ready", "WriteMode", "WriteGo",
                "CacheRun", "UpdateRTP", "WriteRegisters", "ReadRegisters",
                "RunAutoCalibration", "Sweep", "RunCalibration", "broadcastMessage",
                "CheckModify", "CheckRun", "CheckUpdate", "CheckSend", "AliveLog"} :
        ~At("main", o)
  BY <1>1
<1>q. QED
  BY <1>2, Zenon
  DEF Step, SetStandBy, WritePowerCtl, CacheStandBy, SetOffSet, UpdateAllReg, WriteAll,
      ChangeDrvCh, Run, Ready, WriteMode, WriteGo, CacheRun,
      UpdateRTP, WriteRegisters, ReadRegisters, RunAutoCalibration, DoSweep, RunCalibration,
      BroadcastMessage, CheckModify, CheckRun, CheckUpdate, CheckSend, AliveLog

LEMMA StepsOfControl ==
  ASSUME TypeOK, RealTimeInv, Step("control")
  PROVE  \/ SetFlag("control") \/ ChangeDrvCh("control") \/ UpdateRTP("control")
         \/ ReadRegisters("control") \/ DoSweep("control") \/ BroadcastMessage("control")
         \/ CheckModify("control") \/ CheckRun("control") \/ CheckUpdate("control")
         \/ CheckSend("control") \/ AliveLog("control")
<1>1. \A o : At("control", o) =>
        o \in {"CheckModify", "CheckRun", "CheckUpdate", "CheckSend", "AliveLog",
               "broadcastMessage", "ChangeDrvCh", "SetFlag", "Sweep", "UpdateRTP",
               "ReadRegisters"}
  BY ControlAt, Zenon
<1>2. \A o \in {"StoreRtp", "SetStandBy", "WritePowerCtl", "CacheStandBy", "SetOffSet",
                "UpdateAllReg", "WriteAll", "Ensure", "Run", "Ready",
                "WriteMode", "WriteGo", "CacheRun", "WriteRegisters", "RunAutoCalibration",
                "RunCalibration", "sendMessage"} :
        ~At("control", o)
  BY <1>1
<1>q. QED
  BY <1>2, Zenon
  DEF Step, StoreRtp, SetStandBy, WritePowerCtl, CacheStandBy, SetOffSet, UpdateAllReg,
      WriteAll, Ensure, Run, Ready, WriteMode, WriteGo,
      CacheRun, WriteRegisters, RunAutoCalibration, RunCalibration, SendMessage


(* Pausing drivers that do not run is a walk over the axes.                  *)
LEMMA EnsureGoesOn ==
  ASSUME TypeOK, RealTimeInv, Ensure("main")
  PROVE  \/ Continue("main", <<>>)
         \/ \E b \in Axes : Continue("main", <<AxisRun("Ensure", b, FALSE)>>)
<1> DEFINE a == Now("main").axis
<1>1. Now("main") \in MainCalls /\ Now("main").op = "Ensure" /\ Now("main") \in Calls
  BY MainAt, NowType, Zenon DEF Ensure, Threads
<1>2. Now("main").run = FALSE /\ a \in Axes
  BY <1>1, CallFields DEF MainCalls
<1>3. Continue("main", If(run_[a] # FALSE,
             <<AxisCall("ChangeDrvCh", a), AxisRun("Run", a, FALSE)>>)
           \o If(a < NumAxes, <<AxisRun("Ensure", a + 1, FALSE)>>))
  BY <1>2, Zenon DEF Ensure
<1>4. run_[a] = FALSE
  BY <1>2 DEF RealTimeInv
<1>5. Continue("main", If(a < NumAxes, <<AxisRun("Ensure", a + 1, FALSE)>>))
  <2>1. If(run_[a] # FALSE, <<AxisCall("ChangeDrvCh", a), AxisRun("Run", a, FALSE)>>) = <<>>
    BY <1>4 DEF If
  <2>2. ASSUME NEW c
        PROVE  <<>> \o <<c>> = <<c>> /\ <<>> \o <<>> = <<>>
    OBVIOUS
  <2>3. CASE a < NumAxes
    BY <1>3, <2>1, <2>2, <2>3, Zenon DEF If
  <2>4. CASE ~(a < NumAxes)
    BY <1>3, <2>1, <2>2, <2>4, Zenon DEF If
  <2>q. QED
    BY <2>3, <2>4
<1>6. CASE a < NumAxes
  BY <1>2, <1>5, <1>6, AxesFacts, Zenon DEF If
<1>7. CASE ~(a < NumAxes)
  BY <1>5, <1>7, Zenon DEF If
<1>q. QED
  BY <1>6, <1>7

(* A handler's calls change no channel.                                      *)
LEMMA MainKeeps ==
  ASSUME TypeOK, RealTimeInv, Step("main")
  PROVE  RealTimeInv'
<1>0. "main" \in Threads /\ "control" \in Threads /\ "main" # "control"
      /\ <<>> \in Seq(MainCalls)
  BY DEF Threads
<1>1. ASSUME UNCHANGED <<run_, queue, channel>>,
             ~flag'["on_run"], ~flag'["on_modify"],
             NEW o, At("main", o), NEW calls \in Seq(MainCalls), Continue("main", calls)
      PROVE  RealTimeInv'
  <2>1. Tail(todo["main"]) \in Seq(MainCalls)
    BY <1>1, MainAt, Zenon
  <2>2. todo'["main"] \in Seq(MainCalls) /\ todo'["control"] = todo["control"]
    BY <1>0, <1>1, <2>1, GoesOn, Zenon
  <2>3. AboutTo(todo["control"])'
    BY <1>1, <2>2 DEF RealTimeInv, AboutTo
  <2>q. QED
    BY <1>1, <2>2, <2>3 DEF RealTimeInv
<1>2. CASE SetFlag("main")
  <2>1. Now("main") \in MainCalls /\ Now("main").op = "SetFlag"
    BY <1>2, MainAt, Zenon DEF SetFlag
  <2>2. Now("main").flag = "on_update_cmd"
    BY <2>1 DEF MainCalls
  <2>3. ~flag'["on_run"] /\ ~flag'["on_modify"]
    BY <1>2, <2>2 DEF SetFlag, RealTimeInv, TypeOK, Flags
  <2>q. QED
    BY <1>0, <1>1, <1>2, <2>3, Zenon DEF SetFlag, network, driver
<1>3. CASE StoreRtp("main") \/ SendMessage("main")
  BY <1>0, <1>1, <1>3, Zenon DEF StoreRtp, SendMessage, network, driver, shared, RealTimeInv
<1>4. CASE Ensure("main")
  <2>1. PICK calls \in Seq(MainCalls) : Continue("main", calls)
    <3>1. \A b \in Axes : <<AxisRun("Ensure", b, FALSE)>> \in Seq(MainCalls)
      <4>1. \A b \in Axes : AxisRun("Ensure", b, FALSE) \in Calls
        BY Constructors
      <4>2. \A b \in Axes : AxisRun("Ensure", b, FALSE) \in MainCalls
        BY <4>1 DEF MainCalls, AxisRun
      <4>3. \A c \in MainCalls : <<c>> \in Seq(MainCalls)
        OBVIOUS
      <4>q. QED
        BY <4>2, <4>3, Zenon
    <3>q. QED
      BY <1>0, <1>4, <3>1, EnsureGoesOn, Zenon
  <2>2. At("main", "Ensure") /\ UNCHANGED <<run_, queue, channel, flag>>
    BY <1>4, Zenon DEF Ensure, network, driver, shared
  <2>q. QED
    BY <1>1, <2>1, <2>2, Zenon DEF RealTimeInv
<1>q. QED
  BY <1>2, <1>3, <1>4, StepsOfMain, Zenon

(* A tick changes the channel right before it makes a transfer.              *)
LEMMA ControlKeeps ==
  ASSUME TypeOK, RealTimeInv, RealTimePage, Step("control")
  PROVE  RealTimeInv'
<1>0. "main" \in Threads /\ "control" \in Threads /\ "main" # "control"
      /\ <<>> \in Seq(ControlCalls)
  BY DEF Threads
<1>1. ASSUME UNCHANGED <<run_, queue>>,
             ~flag'["on_run"], ~flag'["on_modify"], NEW calls, Continue("control", calls),
             NEW list, list = calls \o Tail(todo["control"]),
             Tail(list) \in Seq(ControlCalls),
             Head(list).op \in {"UpdateRTP", "ReadRegisters"}, Head(list).axis = channel'
      PROVE  RealTimeInv'
  <2>1. todo'["main"] = todo["main"] /\ todo'["control"] = list
    BY <1>0, <1>1 DEF Continue, TypeOK
  <2>2. AboutTo(todo["control"])'
    BY <1>1, <2>1, Zenon DEF AboutTo
  <2>q. QED
    BY <1>1, <2>1, <2>2 DEF RealTimeInv
<1>2. ASSUME UNCHANGED <<run_, queue>>,
             ~flag'["on_run"], ~flag'["on_modify"], NEW calls \in Seq(ControlCalls),
             Continue("control", calls), NEW o, At("control", o)
      PROVE  RealTimeInv'
  <2>1. Tail(todo["control"]) \in Seq(ControlCalls)
    BY <1>2, ControlAt, Zenon
  <2>2. todo'["control"] \in Seq(ControlCalls) /\ todo'["main"] = todo["main"]
    BY <1>0, <1>2, <2>1, GoesOn, Zenon
  <2>3. AboutTo(todo["control"])'
    BY <2>2 DEF AboutTo
  <2>q. QED
    BY <1>2, <2>2, <2>3 DEF RealTimeInv
<1>3. CASE SetFlag("control")
  <2>1. Now("control") \in ControlCalls /\ Now("control").op = "SetFlag"
    <3>1. "SetFlag" \notin {"UpdateRTP", "ReadRegisters"}
      OBVIOUS
    <3>q. QED
      BY <1>3, <3>1, ControlAt, Zenon DEF SetFlag
  <2>2. Now("control").flag = "on_update_cmd"
    BY <2>1 DEF ControlCalls
  <2>3. ~flag'["on_run"] /\ ~flag'["on_modify"]
    BY <1>3, <2>2 DEF SetFlag, RealTimeInv, TypeOK, Flags
  <2>q. QED
    BY <1>0, <1>2, <1>3, <2>3, Zenon DEF SetFlag, network, driver
<1>4. CASE ChangeDrvCh("control") \/ UpdateRTP("control") \/ ReadRegisters("control")
           \/ BroadcastMessage("control")
  BY <1>0, <1>2, <1>4, Zenon
  DEF ChangeDrvCh, UpdateRTP, ReadRegisters, BroadcastMessage, network, driver, shared,
      RealTimeInv
<1>5. /\ \A o \in {"CheckModify", "CheckRun", "CheckUpdate", "CheckSend", "AliveLog",
                   "broadcastMessage"} : Call(o) \in ControlCalls
      /\ \A v \in BOOLEAN : Set("on_update_cmd", v) \in ControlCalls
      /\ \A a \in Axes : AxisCall("ChangeDrvCh", a) \in ControlCalls
      /\ \A a \in Axes, m \in Request :
           m.kind \in {"drvCmdUpdate", "dataRTKeepRequire"} => Sweep(a, m) \in ControlCalls
  <2>1. \A o \in {"CheckModify", "CheckRun", "CheckUpdate", "CheckSend", "AliveLog",
                   "broadcastMessage"} : Call(o) \in Calls
    BY Constructors
  <2>2. \A v \in BOOLEAN : Set("on_update_cmd", v) \in Calls
    BY Constructors DEF HandlerFlags
  <2>3. \A a \in Axes : AxisCall("ChangeDrvCh", a) \in Calls
    BY Constructors
  <2>4. \A a \in Axes, m \in Request : Sweep(a, m) \in Calls
    BY Constructors
  <2>q. QED
    BY <2>1, <2>2, <2>3, <2>4 DEF ControlCalls, Call, Set, AxisCall, Sweep
<1>6. \A c, d, e \in ControlCalls : /\ <<c>> \in Seq(ControlCalls)
                                    /\ <<c, d>> \in Seq(ControlCalls)
                                    /\ <<c, d, e>> \in Seq(ControlCalls)
  OBVIOUS
<1>7. ASSUME NEW condition, NEW calls \in Seq(ControlCalls)
      PROVE  If(condition, calls) \in Seq(ControlCalls)
  BY DEF If
<1>8. CASE CheckModify("control")
  <2>1. Continue("control", <<Call("CheckRun"), Call("CheckUpdate"), Call("CheckSend")>>)
    BY <1>8, Zenon DEF CheckModify, RealTimeInv
  <2>2. <<Call("CheckRun"), Call("CheckUpdate"), Call("CheckSend")>> \in Seq(ControlCalls)
    BY <1>5, <1>6, Zenon
  <2>q. QED
    BY <1>2, <1>8, <2>1, <2>2, Zenon DEF CheckModify, network, driver, shared, RealTimeInv
<1>9. CASE CheckRun("control")
  <2>1. If(flag["on_run"], <<RunDrv, StandBy(FALSE)>>) = <<>>
    BY Zenon DEF If, RealTimeInv
  <2>q. QED
    BY <1>0, <1>2, <1>9, <2>1, Zenon DEF CheckRun, network, driver, shared, RealTimeInv
<1>10. CASE CheckUpdate("control")
  <2> DEFINE m == [kind |-> "drvCmdUpdate", to_run |-> FALSE, rtp |-> ws_rtp_cmd]
             calls == <<Sweep(1, m), Set("on_update_cmd", FALSE)>>
  <2>1. m \in Request /\ m.kind = "drvCmdUpdate"
    BY DEF Request, RequestKinds, TypeOK
  <2>2. 1 \in Axes
    BY AxesFacts
  <2> HIDE DEF m
  <2>3. Sweep(1, m) \in ControlCalls /\ Set("on_update_cmd", FALSE) \in ControlCalls
    BY <1>5, <2>1, <2>2, Zenon
  <2>4. calls \in Seq(ControlCalls)
    BY <1>6, <2>3, Zenon
  <2> HIDE DEF calls
  <2>5. If(flag["on_update_cmd"], calls) \in Seq(ControlCalls)
    BY <1>7, <2>4, Zenon
  <2>6. Continue("control", If(flag["on_update_cmd"], calls))
    BY <1>10, Zenon DEF CheckUpdate, calls, m
  <2>q. QED
    BY <1>2, <1>10, <2>5, <2>6, Zenon
    DEF CheckUpdate, network, driver, shared, RealTimeInv
<1>11. CASE CheckSend("control")
  <2> DEFINE m == [kind |-> "dataRTKeepRequire", to_run |-> FALSE, rtp |-> [a \in Axes |-> 0]]
             calls == <<Sweep(1, m), Call("broadcastMessage")>>
  <2>1. m \in Request /\ m.kind = "dataRTKeepRequire"
    BY ControlAssumption DEF Request, RequestKinds
  <2>2. 1 \in Axes
    BY AxesFacts
  <2> HIDE DEF m
  <2>3. Sweep(1, m) \in ControlCalls /\ Call("broadcastMessage") \in ControlCalls
    BY <1>5, <2>1, <2>2, Zenon
  <2>4. calls \in Seq(ControlCalls)
    BY <1>6, <2>3, Zenon
  <2> HIDE DEF calls
  <2>5. If(flag["need_send_rt"], calls) \in Seq(ControlCalls)
    BY <1>7, <2>4, Zenon
  <2>6. Continue("control", If(flag["need_send_rt"], calls))
    BY <1>11, Zenon DEF CheckSend, calls, m
  <2>q. QED
    BY <1>2, <1>11, <2>5, <2>6, Zenon DEF CheckSend, network, driver, shared, RealTimeInv
<1>12. CASE AliveLog("control")
  <2>1. PICK condition : Continue("control", If(condition, <<AxisCall("ChangeDrvCh", 1)>>))
    BY <1>12, Zenon DEF AliveLog
  <2>2. <<AxisCall("ChangeDrvCh", 1)>> \in Seq(ControlCalls)
    BY <1>5, <1>6, AxesFacts, Zenon
  <2>3. If(condition, <<AxisCall("ChangeDrvCh", 1)>>) \in Seq(ControlCalls)
    BY <1>7, <2>2, Zenon
  <2>q. QED
    BY <1>2, <1>12, <2>1, <2>3, Zenon DEF AliveLog, network, driver, RealTimeInv
<1>13. CASE DoSweep("control")
  <2> DEFINE a == Now("control").axis
             m == Now("control").request
             x == OnAxis(a, m)
             s == If(a < NumAxes, <<Sweep(a + 1, m)>>)
  <2>1. At("control", "Sweep") /\ Continue("control", <<x>> \o s)
        /\ \E ok \in BusOutcomes : channel' = IF ok THEN a ELSE channel
    BY <1>13, Zenon DEF DoSweep
  <2>2. Now("control") \in ControlCalls /\ Now("control").op = "Sweep"
        /\ Now("control") \in Calls /\ Tail(todo["control"]) \in Seq(ControlCalls)
    <3>1. "Sweep" \notin {"UpdateRTP", "ReadRegisters"}
      OBVIOUS
    <3>q. QED
      BY <2>1, <3>1, ControlAt, Zenon
  <2>3. /\ a \in Axes /\ m \in Request
        /\ m.kind \in {"drvCmdUpdate", "dataRTKeepRequire"}
    BY <2>2, CallFields DEF ControlCalls
  <2>4. x.op \in {"UpdateRTP", "ReadRegisters"} /\ x.axis = a
    BY <2>3 DEF OnAxis, AxisCall
  <2>5. channel' = a
    BY <2>1 DEF RealTimePage
  <2>6. s \in Seq(ControlCalls)
    <3>1. CASE a < NumAxes
      <4>1. a + 1 \in Axes
        BY <2>3, <3>1, AxesFacts
      <4>2. Sweep(a + 1, m) \in ControlCalls
        BY <1>5, <2>3, <4>1, Zenon
      <4>q. QED
        BY <1>6, <1>7, <4>2, Zenon
    <3>2. CASE ~(a < NumAxes)
      BY <3>2 DEF If
    <3>q. QED
      BY <3>1, <3>2
  <2> DEFINE rest == Tail(todo["control"])
             list == (<<x>> \o s) \o rest
  <2> HIDE DEF x, s, a
  <2>7. Head(list) = x /\ Tail(list) \in Seq(ControlCalls)
    <3>1. rest \in Seq(ControlCalls)
      BY <2>2, Zenon
    <3> HIDE DEF rest
    <3>2. s \o rest \in Seq(ControlCalls)
      BY <2>6, <3>1
    <3>3. list = <<x>> \o (s \o rest)
      BY <2>6, <3>1
    <3>4. ASSUME NEW z \in Seq(ControlCalls)
          PROVE  Head(<<x>> \o z) = x /\ Tail(<<x>> \o z) = z
      BY <3>4
    <3>q. QED
      BY <3>2, <3>3, <3>4, Zenon
  <2>8. list = (<<x>> \o s) \o Tail(todo["control"])
    OBVIOUS
  <2> HIDE DEF list
  <2>9. Head(list).op \in {"UpdateRTP", "ReadRegisters"} /\ Head(list).axis = channel'
    BY <2>4, <2>5, <2>7, Zenon
  <2>10. UNCHANGED <<run_, queue>> /\ ~flag'["on_run"] /\ ~flag'["on_modify"]
    BY <1>13, Zenon DEF DoSweep, network, shared, RealTimeInv
  <2>q. QED
    BY <1>1, <2>1, <2>7, <2>8, <2>9, <2>10, Zenon
<1>q. QED
  BY <1>3, <1>4, <1>8, <1>9, <1>10, <1>11, <1>12, <1>13, StepsOfControl, Zenon


(* The handlers of the real-time page begin with calls of that kind, and those *)
(* of a disconnect too, as no driver runs.                                   *)
LEMMA HandlersKeep ==
  ASSUME TypeOK, RealTimeInv, MainLoop
  PROVE  RealTimeInv'
<1>0. "main" \in Threads /\ "control" \in Threads /\ "main" # "control"
  BY DEF Threads
<1>1. ASSUME queue # <<>>, queue' = Tail(queue), UNCHANGED <<run_, channel>>,
             flag'["on_run"] = flag["on_run"], flag'["on_modify"] = flag["on_modify"],
             todo' = todo \/ \E calls \in Seq(MainCalls) : Begin("main", calls)
      PROVE  RealTimeInv'
  <2>1. todo'["main"] \in Seq(MainCalls) /\ todo'["control"] = todo["control"]
    BY <1>0, <1>1 DEF Begin, TypeOK, RealTimeInv
  <2>2. AboutTo(todo["control"])'
    BY <1>1, <2>1 DEF RealTimeInv, AboutTo
  <2>3. queue' \in Seq(RealTimePosted)
    BY <1>1 DEF RealTimeInv
  <2>q. QED
    BY <1>1, <2>1, <2>2, <2>3 DEF RealTimeInv
<1>2. \A c, d \in MainCalls : <<c>> \in Seq(MainCalls) /\ <<c, d>> \in Seq(MainCalls)
  OBVIOUS
<1>3. ASSUME NEW kind, Handle(kind)
      PROVE  /\ kind \in RealTimeKinds
             /\ Client \in Connections /\ Asked \in Request
             /\ queue # <<>> /\ queue' = Tail(queue) /\ UNCHANGED <<run_, channel>>
  <2>1. queue # <<>> /\ queue' = Tail(queue) /\ UNCHANGED <<run_, channel>>
        /\ Head(queue).kind = "request" /\ Head(queue).request.kind = kind
    BY <1>3, Zenon DEF Handle, driver
  <2>2. queue \in Seq(RealTimePosted)
    BY DEF RealTimeInv
  <2>3. Head(queue) \in RealTimePosted
    BY <2>1, <2>2
  <2>4. kind \in RealTimeKinds
    BY <2>1, <2>3 DEF RealTimePosted
  <2>q. QED
    BY <2>1, <2>4, HeadOfQueue, Zenon
<1>4. ASSUME NEW c \in Connections
      PROVE  Send(c) \in MainCalls
  <2>1. Send(c) \in Calls
    BY Constructors
  <2>q. QED
    BY <2>1 DEF Send, MainCalls
<1>5. CASE Disconnect
  <2>1. PauseDrv \in MainCalls
    BY RunOrPause DEF PauseDrv, AxisRun, MainCalls
  <2>2. <<PauseDrv>> \in Seq(MainCalls)
    BY <1>2, <2>1, Zenon
  <2>3. flag'["on_run"] = flag["on_run"] /\ flag'["on_modify"] = flag["on_modify"]
    BY <1>5 DEF Disconnect, TypeOK, Flags
  <2>q. QED
    BY <1>1, <1>5, <2>2, <2>3, Zenon DEF Disconnect, driver
<1>6. CASE ModuleInfoRequire
  <2>1. Client \in Connections /\ queue # <<>> /\ queue' = Tail(queue)
        /\ UNCHANGED <<run_, channel>>
    BY <1>3, <1>6, Zenon DEF ModuleInfoRequire
  <2>2. <<Send(Client)>> \in Seq(MainCalls)
    BY <1>2, <1>4, <2>1, Zenon
  <2>q. QED
    BY <1>1, <1>6, <2>1, <2>2, Zenon DEF ModuleInfoRequire
<1>7. CASE DrvCmdUpdate
  <2> DEFINE store == [a \in Axes |-> [op |-> "StoreRtp", axis |-> a, rtp |-> Asked.rtp[a]]]
             end == <<Set("on_update_cmd", TRUE), Send(Client)>>
  <2>1. /\ Client \in Connections /\ Asked \in Request
        /\ queue # <<>> /\ queue' = Tail(queue) /\ UNCHANGED <<run_, channel>>
    BY <1>3, <1>7, Zenon DEF DrvCmdUpdate
  <2>2. store \in Seq(MainCalls)
    <3>1. \A a \in Axes : Asked.rtp[a] \in RtpValues
      BY <2>1 DEF Request
    <3>2. ASSUME NEW a \in Axes
          PROVE  [op |-> "StoreRtp", axis |-> a, rtp |-> Asked.rtp[a]] \in MainCalls
      <4>1. [op |-> "StoreRtp", axis |-> a, rtp |-> Asked.rtp[a]] \in Calls
        BY <3>1, Constructors
      <4>q. QED
        BY <4>1 DEF MainCalls
    <3>3. store \in [Axes -> MainCalls]
      BY <3>2
    <3>q. QED
      BY <3>3, ControlAssumption DEF Axes
  <2>3. end \in Seq(MainCalls)
    <3>1. Set("on_update_cmd", TRUE) \in Calls
      BY Constructors DEF HandlerFlags
    <3>2. Set("on_update_cmd", TRUE) \in MainCalls
      BY <3>1 DEF Set, MainCalls
    <3>q. QED
      BY <1>2, <1>4, <2>1, <3>2, Zenon
  <2>4. Begin("main", store \o end) /\ flag' = flag
    BY <1>7, Zenon DEF DrvCmdUpdate
  <2> HIDE DEF store, end
  <2>5. store \o end \in Seq(MainCalls)
    BY <2>2, <2>3
  <2>q. QED
    BY <1>1, <2>1, <2>4, <2>5, Zenon
<1>8. CASE DataRTKeepRequire \/ DataRTStopRequire
  <2>1. queue # <<>> /\ queue' = Tail(queue) /\ UNCHANGED <<run_, channel, todo>>
    BY <1>3, <1>8, Zenon DEF DataRTKeepRequire, DataRTStopRequire
  <2>2. flag'["on_run"] = flag["on_run"] /\ flag'["on_modify"] = flag["on_modify"]
    BY <1>8 DEF DataRTKeepRequire, DataRTStopRequire, TypeOK, Flags
  <2>q. QED
    BY <1>1, <2>1, <2>2, Zenon
<1>9. ~DrvDriveUpdate /\ ~RegAllUpdate /\ ~CalibrationRequire /\ ~RegAllRequire
  <2>1. /\ "drvDriveUpdate" \notin RealTimeKinds /\ "regAllUpdate" \notin RealTimeKinds
        /\ "calibrationRequire" \notin RealTimeKinds /\ "regAllRequire" \notin RealTimeKinds
    BY DEF RealTimeKinds
  <2>q. QED
    BY <1>3, <2>1, Zenon DEF DrvDriveUpdate, RegAllUpdate, CalibrationRequire, RegAllRequire
<1>q. QED
  BY <1>5, <1>6, <1>7, <1>8, <1>9, Zenon DEF MainLoop

LEMMA NetworkKeeps ==
  ASSUME TypeOK, RealTimeInv, RealTimePage, NEW c \in Connections, Network(c)
  PROVE  RealTimeInv'
<1>1. UNCHANGED <<flag, todo, run_, channel>>
  BY DEF Network, OnOpen, OnMessage, Closing, OnClose, process
<1>2. queue \in Seq(RealTimePosted)
  BY DEF RealTimeInv
<1>3. queue' \in Seq(RealTimePosted)
  <2>1. CASE queue' = queue
    BY <1>2, <2>1
  <2>2. CASE OnClose(c)
    <3>1. [conn |-> c, kind |-> "disconnect"] \in RealTimePosted
      BY DEF RealTimePosted, Posted
    <3>q. QED
      BY <1>2, <2>2, <3>1 DEF OnClose
  <2>3. CASE OnMessage(c)
    <3>1. PICK m \in Requests :
            queue' = Append(queue, [conn |-> c, kind |-> "request", request |-> m])
      BY <2>3 DEF OnMessage
    <3>2. m \in Request /\ m.kind \in RealTimeKinds
      BY ControlAssumption DEF RealTimePage
    <3>3. [conn |-> c, kind |-> "request", request |-> m] \in RealTimePosted
      BY <3>2 DEF RealTimePosted, Posted
    <3>q. QED
      BY <1>2, <3>1, <3>3
  <2>q. QED
    BY <2>1, <2>2, <2>3 DEF Network, OnOpen, Closing
<1>q. QED
  BY <1>1, <1>3 DEF RealTimeInv, AboutTo

LEMMA TickKeeps ==
  ASSUME TypeOK, RealTimeInv, Tick \/ TrigLoopExpired
  PROVE  RealTimeInv'
<1>1. UNCHANGED <<queue, run_, channel>>
  BY DEF Tick, TrigLoopExpired, network, driver
<1>2. flag'["on_run"] = flag["on_run"] /\ flag'["on_modify"] = flag["on_modify"]
  BY DEF Tick, TrigLoopExpired, TypeOK, Flags
<1>3. CASE TrigLoopExpired
  <2>1. todo' = todo
    BY <1>3 DEF TrigLoopExpired
  <2>q. QED
    BY <1>1, <1>2, <2>1 DEF RealTimeInv, AboutTo
<1>4. CASE Tick
  <2> DEFINE calls == <<Call("CheckModify"), Call("AliveLog")>>
  <2>1. calls \in Seq(ControlCalls)
    <3>1. Call("CheckModify") \in Calls /\ Call("AliveLog") \in Calls
      BY Constructors
    <3>2. Call("CheckModify") \in ControlCalls /\ Call("AliveLog") \in ControlCalls
      BY <3>1 DEF Call, ControlCalls
    <3>q. QED
      BY <3>2
  <2>2. Begin("control", calls)
    BY <1>4, Zenon DEF Tick
  <2> HIDE DEF calls
  <2>3. todo'["control"] = calls /\ todo'["main"] = todo["main"]
    BY <2>2 DEF Begin, TypeOK, Threads
  <2>4. AboutTo(todo["control"])'
    BY <2>1, <2>3 DEF AboutTo
  <2>q. QED
    BY <1>1, <1>2, <2>3, <2>4 DEF RealTimeInv
<1>q. QED
  BY <1>3, <1>4

(* While clients use the real-time page only, RealTimeInv holds.             *)
LEMMA RealTime ==
  ASSUME RealTimePage
  PROVE  Spec => []RealTimeInv
<1>1. Init => RealTimeInv
  BY DEF Init, RealTimeInv, Flags, Threads, AboutTo
<1>2. TypeOK /\ RealTimeInv /\ [Next]_vars => RealTimeInv'
  <2> SUFFICES ASSUME TypeOK, RealTimeInv, [Next]_vars
               PROVE  RealTimeInv'
    OBVIOUS
  <2>1. CASE UNCHANGED vars
    BY <2>1 DEF vars, RealTimeInv, AboutTo
  <2>q. QED
    BY <2>1, MainKeeps, ControlKeeps, HandlersKeep, NetworkKeeps, TickKeeps, Zenon
    DEF Next, Threads
<1>q. QED
  BY TypeCorrect, <1>1, <1>2, PTL DEF Spec

----------------------------------------------------------------------------
(* The byte of a command keeps its axis.  Byte(a) is what axis a may hold;   *)
(* safe are the calls that carry such bytes only.                            *)
Byte(a) == Commanded(a) \cup {0}

Safe ==
  {c \in Calls :
     /\ c.op \in {"StoreRtp", "UpdateRTP"} => c.rtp \in Byte(c.axis)
     /\ c.op = "Sweep" /\ c.request.kind = "drvCmdUpdate"
          => \A a \in Axes : c.request.rtp[a] \in Byte(a)}

Requested == {p \in Posted : p.kind = "request" => p.request \in Requests}

BytesInv ==
  /\ \A a \in Axes : ws_rtp_cmd[a] \in Byte(a) /\ dev[a].rtp \in Byte(a)
  /\ queue \in Seq(Requested)
  /\ \A t \in Threads : todo[t] \in Seq(Safe)

(* Calls that carry no byte are safe, and so are tuples of safe calls.        *)
LEMMA PlainIsSafe ==
  ASSUME NEW c \in Calls, c.op \notin {"StoreRtp", "UpdateRTP", "Sweep"}
  PROVE  c \in Safe
BY DEF Safe

LEMMA SafeTuples ==
  /\ <<>> \in Seq(Safe)
  /\ \A c, d, e \in Safe : /\ <<c>> \in Seq(Safe)
                           /\ <<c, d>> \in Seq(Safe)
                           /\ <<c, d, e>> \in Seq(Safe)
  /\ \A s, r \in Seq(Safe) : s \o r \in Seq(Safe)
  /\ \A condition : \A s \in Seq(Safe) : If(condition, s) \in Seq(Safe)
<1>1. \A s, r \in Seq(Safe) : s \o r \in Seq(Safe)
  OBVIOUS
<1>2. \A c, d, e \in Safe : /\ <<c>> \in Seq(Safe)
                            /\ <<c, d>> \in Seq(Safe)
                            /\ <<c, d, e>> \in Seq(Safe)
  OBVIOUS
<1>3. <<>> \in Seq(Safe)
  OBVIOUS
<1>q. QED
  BY <1>1, <1>2, <1>3, Zenon DEF If

(* The call a thread makes is safe, and so are those that follow.            *)
LEMMA SafeNow ==
  ASSUME TypeOK, BytesInv, NEW t \in Threads, NEW o, At(t, o)
  PROVE  Now(t) \in Safe /\ Now(t).op = o /\ Tail(todo[t]) \in Seq(Safe)
<1>1. todo[t] \in Seq(Safe) /\ todo[t] # <<>> /\ Now(t).op = o
  BY DEF BytesInv, At, Now
<1>q. QED
  BY <1>1 DEF Now

(* A step that replaces its call by safe ones and leaves the bytes alone.     *)
LEMMA SafeStep ==
  ASSUME TypeOK, BytesInv, NEW t \in Threads, NEW o, At(t, o),
         NEW calls \in Seq(Safe), Continue(t, calls), UNCHANGED <<queue, ws_rtp_cmd, dev>>
  PROVE  BytesInv'
<1>1. Tail(todo[t]) \in Seq(Safe)
  BY SafeNow
<1>2. /\ todo'[t] \in Seq(Safe)
      /\ \A u \in Threads : u # t => todo'[u] = todo[u]
  BY <1>1, GoesOn, Zenon
<1>q. QED
  BY <1>2 DEF BytesInv, Byte

(* The handlers' calls: a store gives each axis its byte.                     *)
LEMMA MainKeepsBytes ==
  ASSUME TypeOK, RealTimeInv, BytesInv, Step("main")
  PROVE  BytesInv'
<1>0. "main" \in Threads /\ "control" \in Threads
  BY DEF Threads
<1>1. CASE SetFlag("main") \/ SendMessage("main")
  BY <1>0, <1>1, SafeStep, SafeTuples, Zenon
  DEF SetFlag, SendMessage, network, driver, shared
<1>2. CASE Ensure("main")
  <2>1. \A b \in Axes : AxisRun("Ensure", b, FALSE) \in Safe
    <3>1. \A b \in Axes : AxisRun("Ensure", b, FALSE) \in Calls
      BY Constructors
    <3>q. QED
      BY <3>1, PlainIsSafe DEF AxisRun
  <2>2. \A b \in Axes : <<AxisRun("Ensure", b, FALSE)>> \in Seq(Safe)
    BY <2>1, SafeTuples, Zenon
  <2>q. QED
    BY <1>0, <1>2, <2>2, EnsureGoesOn, SafeStep, SafeTuples, Zenon
    DEF Ensure, network, driver, shared
<1>3. CASE StoreRtp("main")
  <2> DEFINE c == Now("main")
  <2>1. At("main", "StoreRtp") /\ Continue("main", <<>>) /\ UNCHANGED <<queue, dev>>
        /\ ws_rtp_cmd' = [ws_rtp_cmd EXCEPT ![c.axis] = c.rtp]
    BY <1>3, Zenon DEF StoreRtp, network, driver
  <2>2. c \in Safe /\ c.op = "StoreRtp" /\ Tail(todo["main"]) \in Seq(Safe)
    BY <1>0, <2>1, SafeNow, Zenon
  <2>3. c.axis \in Axes /\ c.rtp \in Byte(c.axis)
    BY <2>2, CallFields DEF Safe
  <2>4. /\ todo'["main"] \in Seq(Safe)
        /\ \A u \in Threads : u # "main" => todo'[u] = todo[u]
    BY <1>0, <2>1, <2>2, SafeTuples, GoesOn, Zenon
  <2> HIDE DEF c
  <2>5. \A a \in Axes : ws_rtp_cmd'[a] \in Byte(a)
    BY <2>1, <2>3 DEF BytesInv, TypeOK
  <2>q. QED
    BY <2>1, <2>4, <2>5 DEF BytesInv, Byte
<1>q. QED
  BY <1>1, <1>2, <1>3, StepsOfMain, Zenon

(* A tick copies the command with each byte at its axis, and its sweep takes  *)
(* to each driver the byte of that axis.                                     *)
LEMMA SweepIsSafe ==
  ASSUME NEW a \in Axes, NEW m \in Request,
         m.kind = "dataRTKeepRequire"
           \/ (m.kind = "drvCmdUpdate" /\ \A b \in Axes : m.rtp[b] \in Byte(b))
  PROVE  Sweep(a, m) \in Safe /\ OnAxis(a, m) \in Safe
<1>1. Sweep(a, m) \in Calls /\ OnAxis(a, m) \in Calls
  BY Constructors, OnAxisType
<1>2. Sweep(a, m) \in Safe
  BY <1>1 DEF Sweep, Safe
<1>3. OnAxis(a, m) \in Safe
  <2>1. CASE m.kind = "dataRTKeepRequire"
    BY <1>1, <2>1 DEF OnAxis, AxisCall, Safe
  <2>2. CASE m.kind = "drvCmdUpdate"
    BY <1>1, <2>2 DEF OnAxis, Safe
  <2>q. QED
    BY <2>1, <2>2
<1>q. QED
  BY <1>2, <1>3

LEMMA ControlKeepsBytes ==
  ASSUME TypeOK, RealTimeInv, RealTimePage, BytesInv, Step("control")
  PROVE  BytesInv'
<1>0. "main" \in Threads /\ "control" \in Threads /\ 1 \in Axes
  BY AxesFacts DEF Threads
<1>1. ASSUME NEW o, At("control", o), NEW calls \in Seq(Safe), Continue("control", calls),
             UNCHANGED <<queue, ws_rtp_cmd, dev>>
      PROVE  BytesInv'
  BY <1>0, <1>1, SafeStep, Zenon
<1>2. CASE \/ SetFlag("control") \/ ChangeDrvCh("control") \/ ReadRegisters("control")
           \/ BroadcastMessage("control")
  BY <1>1, <1>2, SafeTuples, Zenon
  DEF SetFlag, ChangeDrvCh, ReadRegisters, BroadcastMessage, network, driver, shared
<1>3. /\ \A o \in {"CheckRun", "CheckUpdate", "CheckSend", "broadcastMessage"} : Call(o) \in Safe
      /\ Set("on_update_cmd", FALSE) \in Safe
      /\ AxisCall("ChangeDrvCh", 1) \in Safe
  <2>1. \A o \in {"CheckRun", "CheckUpdate", "CheckSend", "broadcastMessage"} : Call(o) \in Calls
    BY Constructors
  <2>2. Set("on_update_cmd", FALSE) \in Calls /\ AxisCall("ChangeDrvCh", 1) \in Calls
    BY <1>0, Constructors DEF HandlerFlags
  <2>q. QED
    BY <2>1, <2>2, PlainIsSafe DEF Call, Set, AxisCall
<1>4. CASE CheckModify("control")
  <2>1. Continue("control", <<Call("CheckRun"), Call("CheckUpdate"), Call("CheckSend")>>)
    BY <1>4, Zenon DEF CheckModify, RealTimeInv
  <2>2. <<Call("CheckRun"), Call("CheckUpdate"), Call("CheckSend")>> \in Seq(Safe)
    BY <1>3, SafeTuples, Zenon
  <2>q. QED
    BY <1>1, <1>4, <2>1, <2>2, Zenon DEF CheckModify, network, driver, shared
<1>5. CASE CheckRun("control")
  <2>1. If(flag["on_run"], <<RunDrv, StandBy(FALSE)>>) = <<>>
    BY Zenon DEF If, RealTimeInv
  <2>q. QED
    BY <1>1, <1>5, <2>1, SafeTuples, Zenon DEF CheckRun, network, driver, shared
<1>6. CASE CheckUpdate("control")
  <2> DEFINE m == [kind |-> "drvCmdUpdate", to_run |-> FALSE, rtp |-> ws_rtp_cmd]
             calls == <<Sweep(1, m), Set("on_update_cmd", FALSE)>>
  <2>1. m \in Request /\ m.kind = "drvCmdUpdate"
    BY DEF Request, RequestKinds, TypeOK
  <2>2. \A b \in Axes : m.rtp[b] \in Byte(b)
    BY DEF BytesInv
  <2> HIDE DEF m
  <2>3. calls \in Seq(Safe)
    BY <1>0, <1>3, <2>1, <2>2, SweepIsSafe, SafeTuples, Zenon
  <2> HIDE DEF calls
  <2>4. If(flag["on_update_cmd"], calls) \in Seq(Safe)
    BY <2>3, SafeTuples, Zenon
  <2>5. Continue("control", If(flag["on_update_cmd"], calls))
    BY <1>6, Zenon DEF CheckUpdate, calls, m
  <2>q. QED
    BY <1>1, <1>6, <2>4, <2>5, Zenon DEF CheckUpdate, network, driver, shared
<1>7. CASE CheckSend("control")
  <2> DEFINE m == [kind |-> "dataRTKeepRequire", to_run |-> FALSE, rtp |-> [a \in Axes |-> 0]]
             calls == <<Sweep(1, m), Call("broadcastMessage")>>
  <2>1. m \in Request /\ m.kind = "dataRTKeepRequire"
    BY ControlAssumption DEF Request, RequestKinds
  <2> HIDE DEF m
  <2>2. calls \in Seq(Safe)
    BY <1>0, <1>3, <2>1, SweepIsSafe, SafeTuples, Zenon
  <2> HIDE DEF calls
  <2>3. If(flag["need_send_rt"], calls) \in Seq(Safe)
    BY <2>2, SafeTuples, Zenon
  <2>4. Continue("control", If(flag["need_send_rt"], calls))
    BY <1>7, Zenon DEF CheckSend, calls, m
  <2>q. QED
    BY <1>1, <1>7, <2>3, <2>4, Zenon DEF CheckSend, network, driver, shared
<1>8. CASE AliveLog("control")
  <2>1. PICK condition : Continue("control", If(condition, <<AxisCall("ChangeDrvCh", 1)>>))
    BY <1>8, Zenon DEF AliveLog
  <2>2. If(condition, <<AxisCall("ChangeDrvCh", 1)>>) \in Seq(Safe)
    BY <1>3, SafeTuples, Zenon
  <2>q. QED
    BY <1>1, <1>8, <2>1, <2>2, Zenon DEF AliveLog, network, driver
<1>9. CASE DoSweep("control")
  <2> DEFINE a == Now("control").axis
             m == Now("control").request
             s == If(a < NumAxes, <<Sweep(a + 1, m)>>)
  <2>1. At("control", "Sweep") /\ Continue("control", <<OnAxis(a, m)>> \o s)
        /\ UNCHANGED <<queue, ws_rtp_cmd, dev>>
    BY <1>9, Zenon DEF DoSweep, network, shared
  <2>2. /\ Now("control") \in ControlCalls /\ Now("control").op = "Sweep"
        /\ Now("control") \in Calls /\ Now("control") \in Safe
    <3>1. "Sweep" \notin {"UpdateRTP", "ReadRegisters"}
      OBVIOUS
    <3>q. QED
      BY <1>0, <2>1, <3>1, ControlAt, SafeNow, Zenon
  <2>3. a \in Axes /\ m \in Request
    BY <2>2, CallFields
  <2>4. \/ m.kind = "dataRTKeepRequire"
        \/ m.kind = "drvCmdUpdate" /\ \A b \in Axes : m.rtp[b] \in Byte(b)
    BY <2>2 DEF ControlCalls, Safe
  <2> HIDE DEF a, m
  <2>5. OnAxis(a, m) \in Safe
    BY <2>3, <2>4, SweepIsSafe, Zenon
  <2>6. s \in Seq(Safe)
    <3>1. CASE a < NumAxes
      <4>1. a + 1 \in Axes
        BY <2>3, <3>1, AxesFacts
      <4>q. QED
        BY <2>3, <2>4, <4>1, SweepIsSafe, SafeTuples, Zenon
    <3>2. CASE ~(a < NumAxes)
      BY <3>2, SafeTuples, Zenon DEF If
    <3>q. QED
      BY <3>1, <3>2
  <2> HIDE DEF s
  <2>7. <<OnAxis(a, m)>> \o s \in Seq(Safe)
    BY <2>5, <2>6, SafeTuples, Zenon
  <2>q. QED
    BY <1>1, <2>1, <2>7, Zenon
<1>10. CASE UpdateRTP("control")
  <2> DEFINE c == Now("control")
  <2>1. At("control", "UpdateRTP") /\ Continue("control", <<>>)
        /\ UNCHANGED <<queue, ws_rtp_cmd>>
        /\ WriteDriver([dev[channel] EXCEPT !.rtp = c.rtp])
    BY <1>10, Zenon DEF UpdateRTP, network, shared
  <2>2. c \in Safe /\ c.op = "UpdateRTP" /\ Tail(todo["control"]) \in Seq(Safe)
    BY <1>0, <2>1, SafeNow, Zenon
  <2>3. c.axis = channel
    <3>1. c \notin ControlCalls
      BY <2>2 DEF ControlCalls
    <3>2. c = Head(todo["control"]) /\ todo["control"] # <<>>
      BY <2>1 DEF At, Now
    <3>q. QED
      BY <3>1, <3>2, Zenon DEF RealTimeInv, AboutTo
  <2>4. channel \in Axes /\ c.rtp \in Byte(channel)
    BY <2>2, <2>3 DEF Safe, TypeOK
  <2>5. /\ todo'["control"] \in Seq(Safe)
        /\ \A u \in Threads : u # "control" => todo'[u] = todo[u]
    BY <1>0, <2>1, <2>2, SafeTuples, GoesOn, Zenon
  <2> HIDE DEF c
  <2>6. dev' = [dev EXCEPT ![channel] = [dev[channel] EXCEPT !.rtp = c.rtp]]
    BY <2>1 DEF WriteDriver, RealTimePage
  <2>7. \A a \in Axes : dev'[a].rtp \in Byte(a)
    <3>1. dev \in [Axes -> Registers] /\ \A a \in Axes : dev[a].rtp \in Byte(a)
      BY DEF TypeOK, BytesInv
    <3>2. dev'[channel].rtp = c.rtp /\ \A a \in Axes \ {channel} : dev'[a] = dev[a]
      BY <2>4, <2>6, <3>1 DEF Registers
    <3>q. QED
      BY <2>4, <3>1, <3>2, Zenon
  <2>q. QED
    BY <2>1, <2>5, <2>7 DEF BytesInv, Byte
<1>q. QED
  BY <1>2, <1>4, <1>5, <1>6, <1>7, <1>8, <1>9, <1>10, StepsOfControl, Zenon

(* A handler of a command stores the bytes the client gave, axis by axis.      *)
LEMMA HandlersKeepBytes ==
  ASSUME TypeOK, RealTimeInv, BytesInv, MainLoop
  PROVE  BytesInv'
<1>0. "main" \in Threads
  BY DEF Threads
<1>1. ASSUME queue # <<>>, queue' = Tail(queue), UNCHANGED <<ws_rtp_cmd, dev>>,
             todo' = todo \/ \E calls \in Seq(Safe) : Begin("main", calls)
      PROVE  BytesInv'
  <2>1. queue' \in Seq(Requested)
    BY <1>1 DEF BytesInv
  <2>2. \A t \in Threads : todo'[t] \in Seq(Safe)
    BY <1>0, <1>1 DEF Begin, TypeOK, BytesInv
  <2>q. QED
    BY <1>1, <2>1, <2>2 DEF BytesInv, Byte
<1>2. ASSUME NEW kind, Handle(kind)
      PROVE  /\ kind \in RealTimeKinds /\ Client \in Connections /\ Asked \in Requests
             /\ Asked.kind = kind
             /\ queue # <<>> /\ queue' = Tail(queue) /\ UNCHANGED <<ws_rtp_cmd, dev>>
  <2>1. /\ queue # <<>> /\ queue' = Tail(queue) /\ UNCHANGED <<ws_rtp_cmd, dev>>
        /\ Head(queue).kind = "request" /\ Head(queue).request.kind = kind
    BY <1>2, Zenon DEF Handle, driver
  <2>2. Head(queue) \in RealTimePosted /\ Head(queue) \in Requested
    <3>1. queue \in Seq(RealTimePosted) /\ queue \in Seq(Requested)
      BY DEF RealTimeInv, BytesInv
    <3>2. ASSUME NEW S, queue \in Seq(S)
          PROVE  Head(queue) \in S
      BY <2>1, <3>2
    <3>q. QED
      BY <3>1, <3>2, Zenon
  <2>3. kind \in RealTimeKinds /\ Head(queue).request \in Requests
    BY <2>1, <2>2 DEF RealTimePosted, Requested
  <2>q. QED
    BY <2>1, <2>3, HeadOfQueue, Zenon DEF Asked
<1>3. ASSUME NEW c \in Connections
      PROVE  Send(c) \in Safe
  <2>1. Send(c) \in Calls
    BY Constructors
  <2>q. QED
    BY <2>1, PlainIsSafe DEF Send
<1>4. CASE Disconnect
  <2>1. PauseDrv \in Safe
    BY RunOrPause, PlainIsSafe DEF PauseDrv, AxisRun
  <2>2. <<PauseDrv>> \in Seq(Safe)
    BY <2>1, SafeTuples, Zenon
  <2>q. QED
    BY <1>1, <1>4, <2>2, Zenon DEF Disconnect, driver
<1>5. CASE ModuleInfoRequire
  <2>1. Client \in Connections /\ queue # <<>> /\ queue' = Tail(queue)
        /\ UNCHANGED <<ws_rtp_cmd, dev>>
    BY <1>2, <1>5, Zenon DEF ModuleInfoRequire
  <2>2. <<Send(Client)>> \in Seq(Safe)
    BY <1>3, <2>1, SafeTuples, Zenon
  <2>q. QED
    BY <1>1, <1>5, <2>1, <2>2, Zenon DEF ModuleInfoRequire
<1>6. CASE DrvCmdUpdate
  <2> DEFINE store == [a \in Axes |-> [op |-> "StoreRtp", axis |-> a, rtp |-> Asked.rtp[a]]]
             end == <<Set("on_update_cmd", TRUE), Send(Client)>>
  <2>1. /\ Client \in Connections /\ Asked \in Requests /\ Asked.kind = "drvCmdUpdate"
        /\ queue # <<>> /\ queue' = Tail(queue) /\ UNCHANGED <<ws_rtp_cmd, dev>>
    BY <1>2, <1>6, Zenon DEF DrvCmdUpdate
  <2>2. store \in Seq(Safe)
    <3>1. \A a \in Axes : Asked.rtp[a] \in RtpValues /\ Asked.rtp[a] \in Byte(a)
      BY <2>1, ControlAssumption DEF Request, Byte, Commanded
    <3>2. ASSUME NEW a \in Axes
          PROVE  [op |-> "StoreRtp", axis |-> a, rtp |-> Asked.rtp[a]] \in Safe
      <4>1. [op |-> "StoreRtp", axis |-> a, rtp |-> Asked.rtp[a]] \in Calls
        BY <3>1, Constructors
      <4>q. QED
        BY <3>1, <4>1 DEF Safe
    <3>3. store \in [Axes -> Safe]
      BY <3>2
    <3>q. QED
      BY <3>3, ControlAssumption DEF Axes
  <2>3. end \in Seq(Safe)
    <3>1. Set("on_update_cmd", TRUE) \in Calls
      BY Constructors DEF HandlerFlags
    <3>2. Set("on_update_cmd", TRUE) \in Safe
      BY <3>1, PlainIsSafe DEF Set
    <3>q. QED
      BY <1>3, <2>1, <3>2, SafeTuples, Zenon
  <2>4. Begin("main", store \o end)
    BY <1>6, Zenon DEF DrvCmdUpdate
  <2> HIDE DEF store, end
  <2>5. store \o end \in Seq(Safe)
    BY <2>2, <2>3, SafeTuples, Zenon
  <2>q. QED
    BY <1>1, <2>1, <2>4, <2>5, Zenon
<1>7. CASE DataRTKeepRequire \/ DataRTStopRequire
  BY <1>1, <1>2, <1>7, Zenon DEF DataRTKeepRequire, DataRTStopRequire
<1>8. ~DrvDriveUpdate /\ ~RegAllUpdate /\ ~CalibrationRequire /\ ~RegAllRequire
  <2>1. /\ "drvDriveUpdate" \notin RealTimeKinds /\ "regAllUpdate" \notin RealTimeKinds
        /\ "calibrationRequire" \notin RealTimeKinds /\ "regAllRequire" \notin RealTimeKinds
    BY DEF RealTimeKinds
  <2>q. QED
    BY <1>2, <2>1, Zenon DEF DrvDriveUpdate, RegAllUpdate, CalibrationRequire, RegAllRequire
<1>q. QED
  BY <1>4, <1>5, <1>6, <1>7, <1>8, Zenon DEF MainLoop

(* The network posts what clients sent; the timer and a tick carry no bytes.   *)
LEMMA NetworkKeepsBytes ==
  ASSUME TypeOK, BytesInv, NEW c \in Connections, Network(c)
  PROVE  BytesInv'
<1>1. UNCHANGED <<todo, ws_rtp_cmd, dev>>
  BY DEF Network, OnOpen, OnMessage, Closing, OnClose, process
<1>2. queue \in Seq(Requested)
  BY DEF BytesInv
<1>3. queue' \in Seq(Requested)
  <2>1. CASE OnOpen(c) \/ Closing(c)
    BY <1>2, <2>1 DEF OnOpen, Closing
  <2>2. CASE OnClose(c)
    <3>1. [conn |-> c, kind |-> "disconnect"] \in Requested
      BY DEF Requested, Posted
    <3>q. QED
      BY <1>2, <2>2, <3>1 DEF OnClose
  <2>3. CASE OnMessage(c)
    <3>1. PICK m \in Requests :
            queue' = Append(queue, [conn |-> c, kind |-> "request", request |-> m])
      BY <2>3 DEF OnMessage
    <3>2. [conn |-> c, kind |-> "request", request |-> m] \in Requested
      BY ControlAssumption DEF Requested, Posted
    <3>q. QED
      BY <1>2, <3>1, <3>2
  <2>q. QED
    BY <2>1, <2>2, <2>3 DEF Network
<1>q. QED
  BY <1>1, <1>3 DEF BytesInv, Byte

LEMMA TickKeepsBytes ==
  ASSUME TypeOK, BytesInv, Tick \/ TrigLoopExpired
  PROVE  BytesInv'
<1>1. UNCHANGED <<queue, ws_rtp_cmd, dev>>
  BY DEF Tick, TrigLoopExpired, network, driver
<1>2. \A t \in Threads : todo'[t] \in Seq(Safe)
  <2>1. CASE TrigLoopExpired
    BY <2>1 DEF TrigLoopExpired, BytesInv
  <2>2. CASE Tick
    <3>1. Call("CheckModify") \in Calls /\ Call("AliveLog") \in Calls
      BY Constructors
    <3>2. Call("CheckModify") \in Safe /\ Call("AliveLog") \in Safe
      BY <3>1, PlainIsSafe DEF Call
    <3>3. <<Call("CheckModify"), Call("AliveLog")>> \in Seq(Safe)
      BY <3>2, SafeTuples, Zenon
    <3>q. QED
      BY <2>2, <3>3 DEF Tick, Begin, BytesInv, TypeOK
  <2>q. QED
    BY <2>1, <2>2
<1>q. QED
  BY <1>1, <1>2 DEF BytesInv, Byte

(* In the same scope a byte stays with its axis on its way from the message   *)
(* (main.cc:196-205) through ws_rtp_cmd and the copy of a tick (main.cc:423)   *)
(* to the driver (controller.cc:338-347), although the handler's stores, the  *)
(* copy and the transfers interleave.                                        *)
THEOREM BytesArrive ==
  ASSUME RealTimePage
  PROVE  Spec => []CommandsKeepTheirAxis
<1>1. Init => BytesInv
  <2>1. <<>> \in Seq(Requested) /\ <<>> \in Seq(Safe)
    OBVIOUS
  <2>q. QED
    BY <2>1 DEF Init, BytesInv, Byte
<1>2. TypeOK /\ RealTimeInv /\ BytesInv /\ [Next]_vars => BytesInv'
  <2> SUFFICES ASSUME TypeOK, RealTimeInv, BytesInv, [Next]_vars
               PROVE  BytesInv'
    OBVIOUS
  <2>1. CASE UNCHANGED vars
    BY <2>1 DEF vars, BytesInv, Byte
  <2>q. QED
    BY <2>1, MainKeepsBytes, ControlKeepsBytes, HandlersKeepBytes, NetworkKeepsBytes,
       TickKeepsBytes, Zenon
    DEF Next, Threads
<1>3. BytesInv => CommandsKeepTheirAxis
  BY DEF BytesInv, CommandsKeepTheirAxis, Byte
<1>q. QED
  BY TypeCorrect, RealTime, <1>1, <1>2, <1>3, PTL DEF Spec

=============================================================================
