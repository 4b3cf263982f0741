----------------------------- MODULE DrvControl -----------------------------
(***************************************************************************)
(* The Raspberry-Pi server's command path: websocket handlers posted to    *)
(* the main event loop (src/main/main.cc), the 10 ms control loop thread,  *)
(* and what both do through Controller to the DRV2605L drivers, which      *)
(* share one I2C address behind the TCA9548A channel switch.               *)
(*                                                                         *)
(* Each thread runs one call at a time: todo[t] holds the calls thread t   *)
(* has still to make in its current handler or tick.  A call is either one *)
(* bus transfer, one access to a shared variable, or a function that is    *)
(* replaced by the calls of its body.  Steps of the threads interleave     *)
(* between calls: no mutex guards the Controller.                          *)
(***************************************************************************)
EXTENDS Naturals, Sequences, FiniteSets

CONSTANTS
  Connections,  \* websocket connections, each opened at most once
  Requests,     \* the requests the clients may send (a subset of Request)
  NumAxes,      \* drivers behind the switch: 3 in the code (x, y, z)
  RtpValues,    \* bytes a driver's RTP_INPUT register may hold; 0 at start
  MaxRequests,  \* bound: requests the clients send altogether
  AliveTicks,   \* ticks per "thread alive" log: 500 in the code
  BusOutcomes   \* {TRUE}: every transfer succeeds; BOOLEAN: it may fail

Axes == 1 .. NumAxes

RequestKinds ==
  {"moduleInfoRequire", "drvDriveUpdate", "drvCmdUpdate", "regAllUpdate",
   "calibrationRequire", "regAllRequire", "dataRTKeepRequire",
   "dataRTStopRequire"}

(* to_run: data.run of drvDriveUpdate, and for regAllUpdate whether the     *)
(* user's MODE, GO and POWER_CTL bytes leave drivers and accelerometer       *)
(* running.  rtp: data.x,y,z of drvCmdUpdate and the RTP_INPUT bytes of      *)
(* regAllUpdate.                                                            *)
Request == [kind : RequestKinds, to_run : BOOLEAN, rtp : [Axes -> RtpValues]]

ASSUME ControlAssumption ==
  /\ NumAxes \in Nat \ {0}
  /\ AliveTicks \in Nat \ {0}
  /\ MaxRequests \in Nat
  /\ 0 \in RtpValues
  /\ Requests \subseteq Request
  /\ BusOutcomes \subseteq BOOLEAN
  /\ TRUE \in BusOutcomes

VARIABLES
  session,  \* websocketpp's state of each connection
  sent,     \* requests sent so far (for the bound)
  queue,    \* handlers posted to mainEventLoop, in order
  alive,    \* FALSE once an exception nothing catches ended the process
  flag,     \* the globals of main.h
  ws_rtp_cmd,
  ticks,    \* i: ticks since the last "thread alive" log
  todo,     \* calls each thread has still to make
  run_,     \* Drv2605l::run_ of each driver object
  standby_, \* Adxl355::standby_
  power_ctl,\* whether the accelerometer's POWER_CTL has it in standby
  channel,  \* the axis the TCA9548A connects
  dev       \* registers of the drivers themselves

vars == <<session, sent, queue, alive, flag, ws_rtp_cmd, ticks, todo, run_,
          standby_, power_ctl, channel, dev>>
network  == <<session, sent, queue>>
driver   == <<run_, channel, dev>>
adxl     == <<standby_, power_ctl>>
shared   == <<flag, ws_rtp_cmd, ticks, adxl>>

Threads == {"main", "control"}

Flags == {"control_loop_expired", "on_calibration", "on_modify",
          "on_update_cmd", "on_run", "need_send_rt"}

(* The flags a handler or a tick assigns in the middle of its work.         *)
HandlerFlags == {"on_calibration", "on_modify", "on_update_cmd", "on_run"}

(* The low three bits of MODE.  A failed read returns -2, and -2 & 7 = 6.   *)
Modes      == 0 .. 7
RtpMode    == 5
CalMode    == 7
FailedMode == 6

Registers == [mode : Modes, standby : BOOLEAN, go : BOOLEAN, rtp : RtpValues]

(* A handler posted to mainEventLoop, by onMessage or by onClose.           *)
Posted ==
  [conn : Connections, kind : {"request"}, request : Request]
  \cup [conn : Connections, kind : {"disconnect"}]

----------------------------------------------------------------------------
(* Calls                                                                    *)

Calls ==
       [op : {"SetFlag"}, flag : HandlerFlags, to : BOOLEAN]
  \cup [op : {"StoreRtp"}, axis : Axes, rtp : RtpValues]
  \cup [op : {"SetStandBy", "WritePowerCtl", "CacheStandBy", "WriteAll"},
        standby : BOOLEAN]
  \cup [op : {"CheckModify", "CheckRun", "CheckUpdate", "CheckSend",
              "AliveLog", "SetOffSet", "broadcastMessage"}]
  \cup [op : {"sendMessage"}, conn : Connections]
  \cup [op : {"RunCalibration", "UpdateAllReg"}, request : Request]
  \cup [op : {"Sweep"}, axis : Axes, request : Request]
  \cup [op : {"Ensure", "Run", "Ready", "WriteGo", "CacheRun"}, axis : Axes,
        run : BOOLEAN]
  \cup [op : {"ChangeDrvCh", "RunAutoCalibration", "ReadRegisters"},
        axis : Axes]
  \cup [op : {"WriteMode"}, axis : Axes, mode : Modes, standby : BOOLEAN]
  \cup [op : {"UpdateRTP"}, axis : Axes, rtp : RtpValues]
  \cup [op : {"WriteRegisters"}, axis : Axes, registers : Registers]

(* The calls that are one transfer to the driver on axis `axis`.            *)
DriverTransfers == {"Ready", "WriteMode", "WriteGo", "UpdateRTP",
                    "WriteRegisters", "ReadRegisters", "RunAutoCalibration"}

Call(o)          == [op |-> o]
Set(f, v)        == [op |-> "SetFlag", flag |-> f, to |-> v]
StandBy(s)       == [op |-> "SetStandBy", standby |-> s]
Power(o, s)      == [op |-> o, standby |-> s]
AxisRun(o, a, r) == [op |-> o, axis |-> a, run |-> r]
AxisCall(o, a)   == [op |-> o, axis |-> a]
Mode(a, m, s)    == [op |-> "WriteMode", axis |-> a, mode |-> m, standby |-> s]
Sweep(a, m)      == [op |-> "Sweep", axis |-> a, request |-> m]
Send(c)          == [op |-> "sendMessage", conn |-> c]

RunDrv   == AxisRun("Ensure", 1, TRUE)
PauseDrv == AxisRun("Ensure", 1, FALSE)

At(t, o)           == alive /\ todo[t] # <<>> /\ Head(todo[t]).op = o
Now(t)             == Head(todo[t])
Continue(t, calls) == todo' = [todo EXCEPT ![t] = calls \o Tail(@)]

If(condition, calls) == IF condition THEN calls ELSE <<>>

----------------------------------------------------------------------------
(* The calls in detail, as thread t makes them.                             *)

(* A write to the driver the switch connects, lost when the transfer fails: *)
(* no caller looks at the result.                                           *)
WriteDriver(registers) ==
  \E ok \in BusOutcomes :
    dev' = IF ok THEN [dev EXCEPT ![channel] = registers] ELSE dev

SetFlag(t) ==
  /\ At(t, "SetFlag")
  /\ flag' = [flag EXCEPT ![Now(t).flag] = Now(t).to]
  /\ Continue(t, <<>>)
  /\ UNCHANGED <<network, alive, ws_rtp_cmd, ticks, adxl, driver>>

StoreRtp(t) ==
  /\ At(t, "StoreRtp")
  /\ ws_rtp_cmd' = [ws_rtp_cmd EXCEPT ![Now(t).axis] = Now(t).rtp]
  /\ Continue(t, <<>>)
  /\ UNCHANGED <<network, alive, flag, ticks, adxl, driver>>

(* Adxl355::SetStandBy: the test of the cache; the read after it has no      *)
(* effect, as what it returns is masked with 0.                             *)
SetStandBy(t) ==
  /\ At(t, "SetStandBy")
  /\ Continue(t, If(standby_ # Now(t).standby, <<Power("WritePowerCtl", Now(t).standby)>>))
  /\ UNCHANGED <<network, alive, shared, driver>>

(* Its write, and then the cache, which follows only a write that succeeded. *)
WritePowerCtl(t) ==
  /\ At(t, "WritePowerCtl")
  /\ \E ok \in BusOutcomes :
       /\ power_ctl' = IF ok THEN Now(t).standby ELSE power_ctl
       /\ Continue(t, If(ok, <<Power("CacheStandBy", Now(t).standby)>>))
  /\ UNCHANGED <<network, alive, flag, ws_rtp_cmd, ticks, standby_, driver>>

CacheStandBy(t) ==
  /\ At(t, "CacheStandBy")
  /\ standby_' = Now(t).standby
  /\ Continue(t, <<>>)
  /\ UNCHANGED <<network, alive, flag, ws_rtp_cmd, ticks, power_ctl, driver>>

(* Adxl355::SetOffSet and UpdateAllReg: write in standby, then go back to     *)
(* the mode found.                                                          *)
SetOffSet(t) ==
  /\ At(t, "SetOffSet")
  /\ Continue(t, <<StandBy(TRUE), StandBy(standby_)>>)
  /\ UNCHANGED <<network, alive, shared, driver>>

UpdateAllReg(t) ==
  /\ At(t, "UpdateAllReg")
  /\ Continue(t, <<StandBy(TRUE), Power("WriteAll", ~Now(t).request.to_run),
                   StandBy(standby_)>>)
  /\ UNCHANGED <<network, alive, shared, driver>>

(* The user's bytes, POWER_CTL among them: the cache does not follow.         *)
WriteAll(t) ==
  /\ At(t, "WriteAll")
  /\ \E ok \in BusOutcomes : power_ctl' = IF ok THEN Now(t).standby ELSE power_ctl
  /\ Continue(t, <<>>)
  /\ UNCHANGED <<network, alive, flag, ws_rtp_cmd, ticks, standby_, driver>>

(* Controller::ChangeDrvCh.                                                 *)
ChangeDrvCh(t) ==
  /\ At(t, "ChangeDrvCh")
  /\ \E ok \in BusOutcomes : channel' = IF ok THEN Now(t).axis ELSE channel
  /\ Continue(t, <<>>)
  /\ UNCHANGED <<network, alive, shared, run_, dev>>

(* One axis of Controller::RunDrv or PauseDrv, and then the next.           *)
Ensure(t) ==
  LET a == Now(t).axis
      r == Now(t).run
  IN
  /\ At(t, "Ensure")
  /\ Continue(t,
       If(run_[a] # r, <<AxisCall("ChangeDrvCh", a), AxisRun("Run", a, r)>>)
       \o If(a < NumAxes, <<AxisRun("Ensure", a + 1, r)>>))
  /\ UNCHANGED <<network, alive, shared, driver>>

(* Drv2605l::Run and Ready: run_ is set whatever became of the transfers.   *)
Run(t) ==
  LET a == Now(t).axis
      r == Now(t).run
  IN
  /\ At(t, "Run")
  /\ Continue(t, If(run_[a] # r,
       <<AxisRun("Ready", a, r), AxisRun("WriteGo", a, r),
         AxisRun("CacheRun", a, r)>>))
  /\ UNCHANGED <<network, alive, shared, driver>>

Ready(t) ==
  /\ At(t, "Ready")
  /\ \E ok \in BusOutcomes :
       Continue(t, If(ok, <<Mode(Now(t).axis, dev[channel].mode, ~Now(t).run)>>))
  /\ UNCHANGED <<network, alive, shared, driver>>

WriteMode(t) ==
  /\ At(t, "WriteMode")
  /\ WriteDriver([dev[channel] EXCEPT !.mode    = Now(t).mode,
                                      !.standby = Now(t).standby])
  /\ Continue(t, <<>>)
  /\ UNCHANGED <<network, alive, shared, run_, channel>>

WriteGo(t) ==
  /\ At(t, "WriteGo")
  /\ WriteDriver([dev[channel] EXCEPT !.go = Now(t).run])
  /\ Continue(t, <<>>)
  /\ UNCHANGED <<network, alive, shared, run_, channel>>

CacheRun(t) ==
  /\ At(t, "CacheRun")
  /\ run_' = [run_ EXCEPT ![Now(t).axis] = Now(t).run]
  /\ Continue(t, <<>>)
  /\ UNCHANGED <<network, alive, shared, channel, dev>>

UpdateRTP(t) ==
  /\ At(t, "UpdateRTP")
  /\ WriteDriver([dev[channel] EXCEPT !.rtp = Now(t).rtp])
  /\ Continue(t, <<>>)
  /\ UNCHANGED <<network, alive, shared, run_, channel>>

(* Drv2605l::UpdateAllReg: the user's bytes, MODE and GO among them.         *)
WriteRegisters(t) ==
  /\ At(t, "WriteRegisters")
  /\ WriteDriver(Now(t).registers)
  /\ Continue(t, <<>>)
  /\ UNCHANGED <<network, alive, shared, run_, channel>>

(* Drv2605l::GetAllReg, GetRt and GetCalibrationInfo.                        *)
ReadRegisters(t) ==
  /\ At(t, "ReadRegisters")
  /\ Continue(t, <<>>)
  /\ UNCHANGED <<network, alive, shared, driver>>

RunAutoCalibration(t) ==
  LET a == Now(t).axis IN
  /\ At(t, "RunAutoCalibration")
  /\ \E ok \in BusOutcomes :
       Continue(t,
         <<Mode(a, CalMode, TRUE), AxisRun("Run", a, TRUE),
           AxisRun("Run", a, FALSE),
           Mode(a, IF ok THEN dev[channel].mode ELSE FailedMode, TRUE),
           AxisCall("ReadRegisters", a)>>)
  /\ UNCHANGED <<network, alive, shared, driver>>

(* What a handler or the control loop does on each axis once the switch     *)
(* connects it.                                                             *)
OnAxis(a, m) ==
  CASE m.kind = "drvCmdUpdate" ->
         [op |-> "UpdateRTP", axis |-> a, rtp |-> m.rtp[a]]
    [] m.kind = "regAllUpdate" ->
         [op |-> "WriteRegisters", axis |-> a, registers |->
            [mode |-> RtpMode, standby |-> ~m.to_run, go |-> m.to_run,
             rtp |-> m.rtp[a]]]
    [] m.kind = "calibrationRequire" -> AxisCall("RunAutoCalibration", a)
    [] OTHER -> AxisCall("ReadRegisters", a)

(* Mutant of DoSweep: the channel is changed after the transfer.            *)
DoSweep_TransferFirst(t) ==
  LET a == Now(t).axis
      m == Now(t).request
  IN
  /\ At(t, "Sweep")
  /\ Continue(t, <<OnAxis(a, m), AxisCall("ChangeDrvCh", a)>>
                   \o If(a < NumAxes, <<Sweep(a + 1, m)>>))
  /\ UNCHANGED <<network, alive, shared, driver>>

(* One axis of Controller::UpdateAllRtp, GetRt, GetAllRegisters,             *)
(* UpdateAllRegisters or RunCalibration, which all change the channel first,*)
(* and then the next.                                                       *)
DoSweep(t) ==
  LET a == Now(t).axis
      m == Now(t).request
  IN
  /\ At(t, "Sweep")
  /\ \E ok \in BusOutcomes : channel' = IF ok THEN a ELSE channel
  /\ Continue(t, <<OnAxis(a, m)>> \o If(a < NumAxes, <<Sweep(a + 1, m)>>))
  /\ UNCHANGED <<network, alive, shared, run_, dev>>

(* Controller::RunCalibration once the measure thread exists; the samples   *)
(* it pops are AccSampling's.                                               *)
RunCalibration(t) ==
  /\ At(t, "RunCalibration")
  /\ Continue(t, <<Sweep(1, Now(t).request), StandBy(FALSE), StandBy(standby_),
                   Call("SetOffSet")>>)
  /\ UNCHANGED <<network, alive, shared, driver>>

(* WebsocketServer::sendMessage throws unless the connection is open, and   *)
(* nothing in the main loop catches.                                        *)
SendMessage(t) ==
  /\ At(t, "sendMessage")
  /\ alive' = (session[Now(t).conn] = "open")
  /\ Continue(t, <<>>)
  /\ UNCHANGED <<network, shared, driver>>

openConnections == {c \in Connections : session[c] \in {"open", "closing"}}

BroadcastMessage(t) ==
  /\ At(t, "broadcastMessage")
  /\ alive' = (\A c \in openConnections : session[c] = "open")
  /\ Continue(t, <<>>)
  /\ UNCHANGED <<network, shared, driver>>

----------------------------------------------------------------------------
(* The main event loop takes the next posted handler when the last one has  *)
(* returned.                                                                *)

MainIdle == alive /\ todo["main"] = <<>>

Begin(t, calls) == todo' = [todo EXCEPT ![t] = calls]

Handle(kind) ==
  /\ MainIdle
  /\ queue # <<>>
  /\ Head(queue).kind = "request"
  /\ Head(queue).request.kind = kind
  /\ queue' = Tail(queue)
  /\ UNCHANGED <<session, sent, alive, ws_rtp_cmd, ticks, adxl, driver>>

Client  == Head(queue).conn
Asked   == Head(queue).request

(* Mutant of Disconnect: need_send_rt survives the last client.             *)
Disconnect_KeepsStream ==
  /\ MainIdle
  /\ queue # <<>>
  /\ Head(queue).kind = "disconnect"
  /\ queue' = Tail(queue)
  /\ IF openConnections = {} THEN Begin("main", <<PauseDrv>>) ELSE UNCHANGED todo
  /\ UNCHANGED <<session, sent, alive, shared, driver>>

Disconnect ==
  /\ MainIdle
  /\ queue # <<>>
  /\ Head(queue).kind = "disconnect"
  /\ queue' = Tail(queue)
  /\ IF openConnections = {}
       THEN /\ flag' = [flag EXCEPT !["need_send_rt"] = FALSE]
            /\ Begin("main", <<PauseDrv>>)
       ELSE UNCHANGED <<flag, todo>>
  /\ UNCHANGED <<session, sent, alive, ws_rtp_cmd, ticks, adxl, driver>>

ModuleInfoRequire ==
  /\ Handle("moduleInfoRequire")
  /\ Begin("main", <<Send(Client)>>)
  /\ UNCHANGED flag

DrvDriveUpdate ==
  /\ Handle("drvDriveUpdate")
  /\ Begin("main",
       If(Asked.to_run # run_[1], IF Asked.to_run THEN <<RunDrv>> ELSE <<PauseDrv>>)
       \o <<Send(Client), Set("on_run", Asked.to_run)>>)
  /\ UNCHANGED flag

(* Mutant of DrvCmdUpdate: every axis gets the byte of the first.            *)
DrvCmdUpdate_OneByte ==
  /\ Handle("drvCmdUpdate")
  /\ Begin("main",
       [a \in Axes |-> [op |-> "StoreRtp", axis |-> a, rtp |-> Asked.rtp[1]]]
       \o <<Set("on_update_cmd", TRUE), Send(Client)>>)
  /\ UNCHANGED flag

DrvCmdUpdate ==
  /\ Handle("drvCmdUpdate")
  /\ Begin("main",
       [a \in Axes |-> [op |-> "StoreRtp", axis |-> a, rtp |-> Asked.rtp[a]]]
       \o <<Set("on_update_cmd", TRUE), Send(Client)>>)
  /\ UNCHANGED flag

(* on_calibration is only written by this thread, so it is tested here.     *)
RegAllUpdate ==
  /\ Handle("regAllUpdate")
  /\ Begin("main",
       <<Set("on_modify", TRUE), StandBy(TRUE), Sweep(1, Asked),
         [op |-> "UpdateAllReg", request |-> Asked]>>
       \o If(~flag["on_calibration"], <<StandBy(FALSE)>>)
       \o <<Set("on_modify", FALSE), Send(Client)>>)
  /\ UNCHANGED flag

(* Mutant of CalibrationRequire: on_calibration is never lowered.           *)
CalibrationRequire_NoReset ==
  /\ Handle("calibrationRequire")
  /\ Begin("main",
       <<Set("on_calibration", TRUE), StandBy(TRUE),
         [op |-> "RunCalibration", request |-> Asked],
         StandBy(standby_), Send(Client)>>)
  /\ UNCHANGED flag

CalibrationRequire ==
  /\ Handle("calibrationRequire")
  /\ Begin("main",
       <<Set("on_calibration", TRUE), StandBy(TRUE),
         [op |-> "RunCalibration", request |-> Asked],
         StandBy(standby_), Set("on_calibration", FALSE), Send(Client)>>)
  /\ UNCHANGED flag

RegAllRequire ==
  /\ Handle("regAllRequire")
  /\ Begin("main", <<Sweep(1, Asked), Send(Client)>>)
  /\ UNCHANGED flag

DataRTKeepRequire ==
  /\ Handle("dataRTKeepRequire")
  /\ flag' = [flag EXCEPT !["need_send_rt"] = TRUE]
  /\ UNCHANGED todo

DataRTStopRequire ==
  /\ Handle("dataRTStopRequire")
  /\ flag' = [flag EXCEPT !["need_send_rt"] = FALSE]
  /\ UNCHANGED todo

MainLoop ==
  \/ Disconnect
  \/ ModuleInfoRequire
  \/ DrvDriveUpdate
  \/ DrvCmdUpdate
  \/ RegAllUpdate
  \/ CalibrationRequire
  \/ RegAllRequire
  \/ DataRTKeepRequire
  \/ DataRTStopRequire

----------------------------------------------------------------------------
(* The control loop thread.                                                 *)

Tick ==
  /\ alive
  /\ todo["control"] = <<>>
  /\ flag["control_loop_expired"]
  /\ ~flag["on_calibration"]
  /\ flag' = [flag EXCEPT !["control_loop_expired"] = FALSE]
  /\ Begin("control", <<Call("CheckModify"), Call("AliveLog")>>)
  /\ UNCHANGED <<network, alive, ws_rtp_cmd, ticks, adxl, driver>>

CheckModify(t) ==
  /\ At(t, "CheckModify")
  /\ Continue(t, IF flag["on_modify"]
                   THEN <<PauseDrv>>
                   ELSE <<Call("CheckRun"), Call("CheckUpdate"), Call("CheckSend")>>)
  /\ UNCHANGED <<network, alive, shared, driver>>

CheckRun(t) ==
  /\ At(t, "CheckRun")
  /\ Continue(t, If(flag["on_run"], <<RunDrv, StandBy(FALSE)>>))
  /\ UNCHANGED <<network, alive, shared, driver>>

(* on_update_cmd is cleared after the copied command has been written.  The  *)
(* copy is one step; a handler's three stores may interleave with it.        *)
CheckUpdate(t) ==
  /\ At(t, "CheckUpdate")
  /\ Continue(t, If(flag["on_update_cmd"],
       <<Sweep(1, [kind |-> "drvCmdUpdate", to_run |-> FALSE, rtp |-> ws_rtp_cmd]),
         Set("on_update_cmd", FALSE)>>))
  /\ UNCHANGED <<network, alive, shared, driver>>

(* GetRt and the broadcast.                                                 *)
CheckSend(t) ==
  /\ At(t, "CheckSend")
  /\ Continue(t, If(flag["need_send_rt"],
       <<Sweep(1, [kind |-> "dataRTKeepRequire", to_run |-> FALSE,
                  rtp |-> [a \in Axes |-> 0]]),
         Call("broadcastMessage")>>))
  /\ UNCHANGED <<network, alive, shared, driver>>

(* Mutant of AliveLog: i > 500 for i >= 500.                                *)
AliveLog_OffByOne(t) ==
  /\ At(t, "AliveLog")
  /\ ticks' = (ticks + 1) % (AliveTicks + 1)
  /\ Continue(t, If(ticks' = 0, <<AxisCall("ChangeDrvCh", 1)>>))
  /\ UNCHANGED <<network, alive, flag, ws_rtp_cmd, adxl, driver>>

AliveLog(t) ==
  /\ At(t, "AliveLog")
  /\ ticks' = (ticks + 1) % AliveTicks
  /\ Continue(t, If(ticks' = 0, <<AxisCall("ChangeDrvCh", 1)>>))
  /\ UNCHANGED <<network, alive, flag, ws_rtp_cmd, adxl, driver>>

(* Every 10 ms, from the timer's thread pool.                               *)
TrigLoopExpired ==
  /\ alive
  /\ ~flag["control_loop_expired"]
  /\ flag' = [flag EXCEPT !["control_loop_expired"] = TRUE]
  /\ UNCHANGED <<network, alive, ws_rtp_cmd, ticks, adxl, todo, driver>>

Step(t) ==
  \/ SetFlag(t) \/ StoreRtp(t) \/ SetStandBy(t) \/ WritePowerCtl(t)
  \/ CacheStandBy(t) \/ SetOffSet(t) \/ UpdateAllReg(t) \/ WriteAll(t)
  \/ ChangeDrvCh(t) \/ Ensure(t) \/ Run(t) \/ Ready(t) \/ WriteMode(t)
  \/ WriteGo(t) \/ CacheRun(t) \/ UpdateRTP(t) \/ WriteRegisters(t)
  \/ ReadRegisters(t) \/ RunAutoCalibration(t) \/ DoSweep(t)
  \/ RunCalibration(t) \/ SendMessage(t) \/ BroadcastMessage(t)
  \/ CheckModify(t) \/ CheckRun(t) \/ CheckUpdate(t) \/ CheckSend(t)
  \/ AliveLog(t)

----------------------------------------------------------------------------
(* The network thread.                                                      *)

process == <<alive, flag, ws_rtp_cmd, ticks, todo, run_, standby_, power_ctl, channel, dev>>

Move(c, from, to) ==
  /\ alive
  /\ session[c] = from
  /\ session' = [session EXCEPT ![c] = to]

(* onOpen adds the connection; the handler it posts only logs.              *)
OnOpen(c) ==
  /\ Move(c, "new", "open")
  /\ UNCHANGED <<sent, queue, process>>

OnMessage(c) ==
  /\ alive
  /\ session[c] = "open"
  /\ sent < MaxRequests
  /\ sent' = sent + 1
  /\ \E m \in Requests :
       queue' = Append(queue, [conn |-> c, kind |-> "request", request |-> m])
  /\ UNCHANGED <<session, process>>

(* The closing handshake: the connection is no longer open, and still       *)
(* listed in openConnections until onClose runs.                            *)
Closing(c) ==
  /\ Move(c, "open", "closing")
  /\ UNCHANGED <<sent, queue, process>>

OnClose(c) ==
  /\ Move(c, "closing", "closed")
  /\ queue' = Append(queue, [conn |-> c, kind |-> "disconnect"])
  /\ UNCHANGED <<sent, process>>

Network(c) == OnOpen(c) \/ OnMessage(c) \/ Closing(c) \/ OnClose(c)

----------------------------------------------------------------------------

(* After Controller::Init: the three drivers calibrated and in standby.     *)
Init ==
  /\ session = [c \in Connections |-> "new"]
  /\ sent = 0
  /\ queue = <<>>
  /\ alive = TRUE
  /\ flag = [f \in Flags |-> FALSE]
  /\ ws_rtp_cmd = [a \in Axes |-> 0]
  /\ ticks = 0
  /\ todo = [t \in Threads |-> <<>>]
  /\ run_ = [a \in Axes |-> FALSE]
  /\ standby_ = TRUE
  /\ power_ctl = TRUE
  /\ channel = NumAxes
  /\ dev = [a \in Axes |-> [mode |-> RtpMode, standby |-> TRUE, go |-> FALSE,
                            rtp |-> 0]]

Next ==
  \/ \E c \in Connections : Network(c)
  \/ MainLoop
  \/ Tick
  \/ \E t \in Threads : Step(t)
  \/ TrigLoopExpired

Spec == Init /\ [][Next]_vars

(* The operating system runs both threads and the timer; what the clients   *)
(* do is not fair.                                                          *)
FairSpec ==
  /\ Spec
  /\ WF_vars(MainLoop \/ Step("main"))
  /\ WF_vars(Tick \/ Step("control"))
  /\ WF_vars(TrigLoopExpired)

----------------------------------------------------------------------------
(* Properties                                                               *)

(* What each part of the program may hold: the 10 ms counter stays below     *)
(* AliveTicks, the switch connects an axis, and every pending call is one    *)
(* the code makes.                                                          *)
TypeOK ==
  /\ session \in [Connections -> {"new", "open", "closing", "closed"}]
  /\ sent \in 0 .. MaxRequests
  /\ queue \in Seq(Posted)
  /\ alive \in BOOLEAN
  /\ flag \in [Flags -> BOOLEAN]
  /\ ws_rtp_cmd \in [Axes -> RtpValues]
  /\ ticks \in 0 .. AliveTicks - 1
  /\ todo \in [Threads -> Seq(Calls)]
  /\ run_ \in [Axes -> BOOLEAN]
  /\ standby_ \in BOOLEAN
  /\ power_ctl \in BOOLEAN
  /\ channel \in Axes
  /\ dev \in [Axes -> Registers]

(* Real-time data is broadcast only while somebody may listen: once the     *)
(* last connection is gone and every posted handler has run, need_send_rt   *)
(* is false, whatever requests were in flight when it closed.               *)
StreamStopsWithLastClient ==
  openConnections = {} /\ queue = <<>> /\ todo["main"] = <<>>
    => ~flag["need_send_rt"]

(* The bytes some drvCmdUpdate gives axis a.                                *)
Commanded(a) == {m.rtp[a] : m \in {q \in Requests : q.kind = "drvCmdUpdate"}}

(* A byte stays with its axis, from the message through ws_rtp_cmd, the copy *)
(* a tick takes of it and the transfer to the driver, though a handler's     *)
(* three stores interleave with the copy: the command and every RTP_INPUT    *)
(* hold a byte a client gave that axis, or the 0 they start with.            *)
CommandsKeepTheirAxis ==
  \A a \in Axes : {ws_rtp_cmd[a], dev[a].rtp} \subseteq Commanded(a) \cup {0}

(* The control loop is writing the command it copied.                        *)
TakesUp == \E i \in DOMAIN todo["control"] : todo["control"][i] = Set("on_update_cmd", FALSE)

(* A command that waits to be taken up, with the flag up and no older one on *)
(* its way to the drivers, comes to be the command of all drivers, each axis *)
(* its own byte, unless a newer one is stored first.  (One that is stored    *)
(* while an older one is written is acknowledged and may be forgotten, as    *)
(* the flag is lowered after the write.)                                    *)
CommandReachesDrivers ==
  \A m \in {q \in Requests : q.kind = "drvCmdUpdate"} :
    flag["on_update_cmd"] /\ ws_rtp_cmd = m.rtp /\ ~TakesUp
      ~> (~alive \/ ws_rtp_cmd # m.rtp \/ \A a \in Axes : dev[a].rtp = m.rtp[a])

(* The control loop always comes back to another tick: no handler leaves a   *)
(* flag behind, or takes so long, that the loop waits for ever.              *)
LoopKeepsTicking == []<>(~alive \/ todo["control"] # <<>>)

(* PauseDrv "should be called when disconnect of websocket": once every     *)
(* client is gone, no driver is left driving.                               *)
DisconnectStopsDriving ==
  <>[](alive /\ \A c \in Connections : session[c] = "closed")
    => <>[](\A a \in Axes : ~run_[a])

(* ... "or pause being called by user": a stop that was the last word of    *)
(* the user, and acknowledged, leaves no driver driving.                    *)
StopIsEnforced ==
  <>[](alive /\ ~flag["on_run"]) => <>[](\A a \in Axes : ~run_[a])

(* The traffic of the handlers and that of the control loop "theoretically  *)
(* do not conflict": a transfer meant for one axis goes out while the       *)
(* switch connects that axis.                                               *)
TransfersReachTheirAxis ==
  \A t \in Threads :
    todo[t] # <<>> /\ Head(todo[t]).op \in DriverTransfers
      => channel = Head(todo[t]).axis

(* "Resume previous mode": drivers are only ever put in the real-time        *)
(* playback mode they are configured for, or in calibration mode, even when  *)
(* a transfer of RunAutoCalibration fails.                                   *)
DriverModes == \A a \in Axes : dev[a].mode \in {RtpMode, CalMode}

=============================================================================
