# Verification of the LRA server

LRA is the server of a vibration testbench.  A Raspberry Pi drives three linear
resonant actuators through three DRV2605L haptic drivers (axes x, y, z), which
have the same I2C address and are reached one at a time through a TCA9548A
channel switch.  An ADXL355 accelerometer on SPI measures what the actuators do.
Web pages talk to the server over websockets: they start and stop the drivers,
send real-time playback (RTP) amplitudes, change registers, ask for a calibration
and subscribe to real-time data.  A second program under `src/test/usb_test` speaks
with a USB device (RCWS) over a serial line.

This directory holds TLA+ models of that code, the TLC configurations that
check them and the TLAPS proofs about them.  Paths below are relative to `src/`
(the repository), so that `src/main/main.cc` is `src/src/main/main.cc` in
`PROJECT.json`.

## 1. Inventory

### Threads

| thread | created at | what it runs |
|---|---|---|
| main | `main.cc:535` | `mainEventLoop.run()`: the handlers the network thread posted, one after the other |
| network | `serverThread`, `main.cc:515` | websocketpp's loop: `onOpen`, `onClose`, `onMessage` |
| control loop | `controller_t`, `main.cc:402` | polls `control_loop_expired`, runs a tick every 10 ms |
| timer | `util/timer/timer.cc:22` | `Timer::Run`: a detached daemon that hands expired events, such as `TrigLoopExpired`, to a pool |
| measure | `controller.cc:273` | `AccMeasureTask`, polls `new_acc_data_` |
| interrupt | wiringPi | `ItCallback`, sets `new_acc_data_` |
| UI (USB program) | `parser/ui_parser.hpp` | commands of the user, one after the other |
| PWM command (USB program) | `rcws.cc:566` | `PwmCmdTask`, detached: sends the rows of a file in time |

The globals of `main.h` (`on_calibration`, `on_modify`, `on_update_cmd`,
`on_run`, `need_send_rt`, `control_loop_expired`) are plain `bool`s.  Nothing
guards `Controller`, the switch or the I2C bus: the main thread and the control
loop call them as they please.  The timer's queue and uids, and the PWM queue of
the USB program, are unguarded too.  The websocket server guards its list of
connections, the ADXL355 guards its deque of samples and each SPI transfer.

### Components

| component | state | operations | interacts through |
|---|---|---|---|
| main program and control loop (`main/main.cc`) | the globals, `ws_rtp_cmd`, the tick counter | ten posted handlers (that of a new connection only logs), the tick, `TrigLoopExpired` | calls into Controller and WebsocketServer, flags |
| WebsocketServer (`websocket/`) | `openConnections`, state of each connection | `onOpen`, `onClose`, `onMessage`, `sendMessage`, `broadcastMessage`, `numConnections` | handlers posted to the main event loop; `send` throws |
| Controller (`controller/`) | the drivers, the switch, the measure thread | `RunDrv`, `PauseDrv`, `UpdateAllRtp`, `GetRt`, `GetAllRegisters`, `UpdateAllRegisters`, `RunCalibration`, `StartMeasureTask`, `CancelMeasureTask`, `AccMeasureTask` | called by two threads, owns a third |
| Drv2605l (`device/drv2605l/`) | `run_`; the registers of the chip | `Run`, `Ready`, `UpdateRTP`, `UpdateAllReg`, `RunAutoCalibration`, getters | I2C behind the switch |
| Tca9548a (`device/tca/`) | connected channel | `Write(CONTROL)` | I2C |
| Adxl355 (`device/adxl355/`) | `standby_`, `range_`, the deque `data_`, `new_acc_data_` | `SetStandBy`, `SetOffSet`, `UpdateAllReg`, `GetAcc`, `AccPushBack`, `AccPopFront`, `AccPopFrontN`, `AccPopAll` | SPI, the interrupt, three threads |
| I2C bus and adapter (`bus/i2c/`, `bus_adapter/i2c_adapter/`) | the open file, `func_`, `last_slave_addr_` | `Init`, `Write`, `Read`, plain or SMBus | one bus object under the adapters of all devices, both threads |
| SPI bus, registers, LogUnit, small utilities | none that matters | stubs, descriptions, logging | |
| Timer (`util/timer/`) | `event_queue_`, `valid_uid_`, `push_flag_`, `run_flag_`, `can_destroy_` | `SetEvent`, `SetLoopEvent`, `CancelEvent`, `Delete`, the daemon | tasks pushed to a pool, flags |
| RCWS device (`test/usb_test`, `cdcDevice/`) | serial port, `pwm_cmd_q_`, `pwm_cmd_thread_exit_`, `recursive_flag_` | `Open`, `Close`, PWM commands and their threads, framing | serial line, log files, user input |
| RCWS parsers, commands, plotting, input | parser state, pipes | parse, build, draw | |

### What is hard here, and what makes each part correct

* **Two threads, one switch.**  Every access to a driver is "change the channel,
  then transfer".  Correct: a transfer meant for an axis goes out while the switch
  connects that axis.
* **Flags instead of messages.**  A tick reads a flag at its start and acts on it
  for many milliseconds.  Correct: a stop stays a stop, a command that waits to be
  taken up reaches the drivers whole, an unset flag is not resurrected.
* **Caches of hardware state** (`run_`, `standby_`) that two threads write, that
  handlers save and restore, and that a failed transfer makes stale.
* **Connections that end while their requests are queued.**  Correct: the stream
  stops with its last listener; a reply to one who left ends the process, since
  nothing catches what `send` throws.
* **A busy-waiting control loop held up by a flag.**  Correct: it always ticks again.
* **A deque with one writer and two readers**, whose size is looked at outside the
  mutex.  Correct: bounded, ordered, no sample twice, no pop of an empty deque.
* **A collecting loop** that must end when the sensor is silent.
* **A daemon that computes its sleep from a queue others push to.**  Correct: it never
  sleeps past the earliest deadline, and an event that was set fires, once, though
  others are pushed while the daemon has its hand on the queue.
* **A remembered slave selection.**  `last_slave_addr_` saves an ioctl, and is worth
  something only while it is what the kernel holds.  Correct: a transfer reaches the
  slave it is for.
* **Remembered registers** (`range_`, `standby_`) that scale samples and decide whether
  a register is written at all, beside settings that users write as bytes.
* **Detached threads on one queue.**  Correct: they end when told to, and leave the
  device stopped.

`PROJECT.json` lists these as hazards at their lines, each with the properties
that would catch it or the reason why none does yet.

## 2. Modules

| module | models | status |
|---|---|---|
| `DrvControl` | main program, websocket server, Controller, Drv2605l, switch | done |
| `MCDrvControl` | requests and bytes for TLC | done |
| `DrvControl_proofs` | types, end of the stream, bytes of the real-time page | done |
| `AccSampling` | interrupt, measure thread, calibration, stream | done |
| `AccSampling_proofs` | types, bound of the deque, order of the samples, refinement | done |
| `SampleBuffer` | the bounded buffer `AccSampling` implements | done |
| `AdxlRegisters` | registers of the ADXL355, their caches and conversions; who writes them | done |
| `MCAdxlRegisters` | averages and settings for TLC | done |
| `AdxlRegisters_proofs` | types, offsets, range, standby, protected writes, misscaled samples | done |
| `I2cBus` | bus and adapters, and the two threads that use them | done |
| `MCI2cBus` | the devices of the program and of its tests, for TLC | done |
| `I2cBus_proofs` | types, true cache, right slave, whole transfers | done |
| `TimerQueue` | the timer: caller, daemon and time | done |
| `TimerQueue_proofs` | types, events lost or fired twice only when overtaken, cancellation, no oversleeping | done |
| `RcwsPwm` | PWM command threads of the USB program, its user and its port | done |
| `RcwsPwm_proofs` | types and size of the queue, end of the threads' rows, stop command, order of the rows | done |

`DrvControl` is about who uses the drivers and when; `I2cBus` is about what happens
to a single call below it; `AdxlRegisters` and `AccSampling` are about the two sides
of the accelerometer.  `DrvControl` takes from the first that a transfer reaches its
device or fails, and from `TimerQueue` that the loop event fires again and again
(`EventsFire` is the reason for the fairness of `TrigLoopExpired`).

### DrvControl

Each thread runs handlers (or ticks), and a handler is a list of calls.
`todo[t]` is the list of calls thread `t` has still to make.  An action makes
the call at the head.  It is one of

* one transfer on the bus (`ChangeDrvCh`, `WriteMode`, `WriteGo`, `UpdateRTP`,
  `WriteRegisters`, `ReadRegisters`, `WritePowerCtl`, `WriteAll`), which the two threads interleave;
* one access to a shared variable (`SetFlag`, `StoreRtp`, `CheckRun`, `SetStandBy`, `CacheStandBy`, ...);
* a function, replaced by the calls of its body (`Ensure`, `Run`, `Sweep`,
  `RunAutoCalibration`, `RunCalibration`, `SetOffSet`, `UpdateAllReg`).

So the call stack is data, and each function of the code is one definition
whichever handler calls it.  What a body reads when it is entered (the standby
to be restored, the mode to be resumed) is in the calls that replace it, as
the local variables of the code are.

| state | code |
|---|---|
| `session` | websocketpp's session state; `openConnections` are those not yet removed by `onClose` |
| `queue` | handlers posted to `mainEventLoop` |
| `flag`, `ws_rtp_cmd`, `ticks` | globals of `main.h`, locals of `main()` and of the control loop |
| `run_`, `standby_` | the caches of `Drv2605l` and `Adxl355` |
| `channel`, `dev`, `power_ctl` | what the chips hold: the connected channel; MODE, STANDBY, GO, RTP_INPUT; the standby bit of the accelerometer |
| `alive` | FALSE once an exception has left `mainEventLoop.run()` |

The handlers are the actions `ModuleInfoRequire` ... `DataRTStopRequire` and
`Disconnect`; the control loop is `Tick`, `CheckModify`, `CheckRun`,
`CheckUpdate`, `CheckSend`, `AliveLog`.

Abstractions:

* a request keeps what the checks tell apart: its kind, whether the drivers
  should run, and one byte per axis.  The MODE and GO bytes a user writes with
  `regAllUpdate` are reduced to the pair "running, in RTP mode" or "stopped, in
  RTP mode", and POWER_CTL to measuring or standby with them; a vector of the wrong length is not written by the code and is left out;
* messages no handler is registered for, and those that are not JSON, change
  nothing and are left out;
* `VecToTuple(ws_rtp_cmd)` copies three bytes in one step; the handler stores
  them one by one;
* the read in `Adxl355::SetStandBy` is left out: what it returns is masked with 0.  Its test
  of the cache, its write and its store to the cache are three steps, so the `SetStandBy` of
  the two threads can overlap;
* an unsuccessful bus transfer (`BusOutcomes` contains FALSE) has no effect on
  the chip; the two results the code looks at, that of `Ready`'s read and that
  of the write in `SetStandBy`, are followed;
* the registers of the accelerometer other than its standby bit, and the samples
  a calibration takes, are not in this module: the samples are `AccSampling`'s.

### AccSampling

The variables `measure`, `main` and `control` are the places of the measure
thread, the main thread and the control loop.  Samples are numbered by the
sensor in the order it takes them, so a duplicated, reordered or stale sample
shows.  `DataReady` is the interrupt; `Enter`, `TestExit`, ..., `ClearNewData`
are `AccMeasureTask` statement by statement; `RunCalibration` ...
`ReturnToHandler` are `RunCalibration` and its two callers, `Controller::Init`
and the `calibrationRequire` handler; `Tick` ... `PopAll` are what the control
loop does with the accelerometer.  Each push and each pop is one step, because
the code holds the mutex for it; reading the size is a step of its own.

`front()` and `pop_front()` of an empty `std::deque` are undefined behaviour.
`AccPopFront` then sets `undefined`, after which the model takes no step and
claims nothing: the safety properties hold up to that point.

The control loop takes the sensor out of standby when `on_run` is set; users
set it as they like, so `EnsureMeasuring` may or may not do so.

`ImplementsBuffer` says that `AccSampling` implements `SampleBuffer`, with the
numbers of the samples in the deque as its buffer and the sample the measure thread is
about to push as the one held.  Every pop, of whichever thread, takes the oldest; a
sample enters once, in order, and only when the deque has been cut to its bound.

### AdxlRegisters

`todo` holds, as in `DrvControl`, the steps main and control have still to take, and
the functions of the code are lists of steps: `SetOffSet`, `UpdateAllReg`,
`RunCalibration`.  A step is one SPI transfer (`PowerRead`, `PowerWrite`, `WriteAll`,
`WriteOffSet`, `GetOffSet`) or one access to a cache (`PowerCache`, `CacheRange`,
`SaveStandBy`).  `saved` are the local variables `origin`, `origin_standby` and `tmp`
that are restored.  The sensor (`chip`) keeps RANGE, POWER_CTL and OFFSET.
`DataReady`, `ReadData`, `ParseDigitalAcc` and `ClearNewData` follow a sample from
the range it was measured under to the range it is scaled by.

A user's settings end with the byte for RESET (`adxl355.cc:137-146`).  If it is 0x52 the
sensor goes back to its reset state (`Fresh`: 2 g, standby, no offset) while `range_` keeps
what the user asked for; `was_reset` records whether the last update, or an earlier one, did so.

Abstractions: one axis stands for three; a sample is the range under which it was
measured; an acceleration is a number of offset steps of the 2 g range; `Averages`
are results of the summation.  A reset clears INT_MAP too, and only `SetToDefault` sets it, so
after a reset no interrupt comes any more; `DataReady` goes on, which is the more adverse
case for the scaling of samples.  The self-test register is left out.  When SPI cannot be
opened `Init` returns early (`adxl355.cc:44-46`), no transfer works, and the calibration that
follows takes bytes from the empty vector `GetOffSet` read: that process ends before anything here happens,
and is a run of the model that stays before `Boot`.  Not a number becomes 0 in the conversion to
`int16_t`, which C++ leaves undefined and ARM builds do.

### I2cBus

`at[t]` is where thread `t` is.  A plain transfer is one ioctl (`PlainRW`); an SMBus one
goes through `Compare`, `Select`, `Remember` and `SmbusRW`, the statements of
`I2c::SmbusRW`, which nothing keeps together.  `Write` and `Read` are the overloads of
the adapter up to the bus, with their refusals; `Return` is what follows, with
`TakenAsDone` for the test of `ret_size`.  `slave` is what the kernel holds for the open
file; `done[t]` is what the last call of `t` came to, and the slave it reached.  Any
ioctl may fail; all errors return -1.  `mixed` records that two SMBus calls to
different slaves have overlapped.

### TimerQueue

An operation of the caller on a container has a beginning and an end: `SetEvent`
registers in `CreateTimerEvent`, pushes in `BeginPush` and `EndPush`, and sets
`push_flag_`; `CancelEvent` erases in `RemoveUid`.  The daemon follows `Run`,
`HandleExpiredEvents`, `EvalNextInterval` and `PreciseSleepms` statement by statement.
When it uses the queue while a push is under way, or `valid_uid_` while it is changed,
the behaviour is undefined, and nothing is claimed from there on.

The queue holds copies of events (`Entries`): `<<u, u>>` is the one `SetEvent` pushed.
`left[e]` is the time to the deadline of an entry, negative once it has passed, and
`operator<` compares deadlines, passed ones too.  Its time is taken in `CreateTimerEvent`,
before the push, so an event can be pushed that is earlier than the one the daemon has read
with `top()` and not yet popped, even one that is overdue.  `overtook` records such pushes as
pairs of the new event and the one read.  `Pop` removes the top of that moment: the event read, if it is still among the
earliest, and otherwise the one that overtook it, which is lost, while the event that was
read stays queued and fires again.  If that event is a loop event `u` and `w` went in its
place, `u` is pushed again beside the entry that stayed, as `<<u, w>>`.  `Elapse` lets time
pass for entries and sleep.  How long ago a deadline passed is kept as its rank among the
passed ones (`Later`), which keeps the order of any two and the number of states finite.

A sleep ends when its time is up: `PreciseSleepms` estimates the error of the system's
sleep in order to end on time, and that estimate is left out.

### RcwsPwm

Each of `Tasks` is one `PwmCmdTask`, from loading its rows to the stop command; all share
`pwm_cmd_q_` and the flags.  The user's command `p` in file mode is `PwmFile` and what
follows it; `OpenOrClose` are the commands `o` and `c`, `Unplug` is the cable.
`StartPwmCmdThread` tests the exit flag and `BeginPwmCmdTask` starts the thread, so another
thread may set the flag in between.
`DevPwmCmd` throws, or only reports, when the port is not there.  Two threads, or a thread and
a user who cleans the queue, that stand at a statement on the queue may use it at the same
time (`Race`), or one after the other.  `Race`, and `front()` and `pop()` of an empty queue, set
`undefined`, after which nothing is claimed.

## 3. Runs

| run | asks | instance |
|---|---|---|
| `realtime_page` | does the stream stop with the last client, does a command that waits reach every driver, and do bytes stay with their axis, when the page only plays and streams? | 2 clients, 2 axes, 2 requests |
| `settings` | does the control loop always tick again, whatever handlers that drive, calibrate, modify and read do? | 1 client, 2 axes, 2 requests |
| `disconnect_keeps_driving` | does the last disconnect stop the drivers? (no) | 1 client, 1 axis, 1 request |
| `lost_stop` | does an acknowledged stop last? (no) | 1 client, 2 axes, 2 requests |
| `bus_conflict` | do handlers and control loop share the switch without conflict, as the comment says? (no) | 1 client, 2 axes, 2 requests |
| `calibration_resume` | does a calibration resume the previous mode when a transfer fails? (no) | 1 client, 1 axis, 1 request, faulty bus |
| `acc_sampling` | is the deque bounded and ordered, and does a calibration end with at most its number of samples? | bound 3, calibration 2, 5 samples, 2 calibrations |
| `pop_on_empty` | is there a sample when the measure thread pops? (no) | bound 2, 4 samples |
| `timer` | does each event that overtakes no other fire, once or periodically, without oversleeping, and does Delete return? | 2 events, periods 1 and 2 |
| `i2c_bus` | does a transfer reach its slave, and is what counts as done whole? | 2 threads, 5 devices, lengths 1 and 35 |
| `adxl_registers` | do the caches agree with the sensor, are settings written in standby, are samples scaled rightly, do offsets survive? | 2 handlers, 3 settings, one of them with the reset byte, 1 average, 1 kind of failing transfer |
| `rcws_pwm` | what do command threads guarantee, alone and together? | 2 threads, 2 rows |

The passing runs explore, in the order of the table, some 281 000, 832 000, 450 000,
634 000, 114 000, 7 643 000 and 279 000 distinct states.

**Bounds.**  Every bound is a constant.

* `Connections`, `MaxRequests`: two clients are needed for one to leave while
  the other listens; two requests for one to be undone by the other, or to overtake
  it in the control loop.  A third request meets the same handler boundaries.
* `NumAxes`: the code has 3, and treats them alike, one after the other.  The
  passing runs use 2, the least number for which a sweep has a first axis and a
  last one, as does `lost_stop`, where a stop can meet a tick that has started one driver
  only; the other findings about one driver use 1.
* `RtpValues`: 0 is the initial value; the two commands have no byte in common, and
  the bytes of one axis are not those of its neighbour, so that a byte that goes to the
  wrong driver is not taken for a command of that driver.
* `AliveTicks` is 500 in the code.  With 1 each tick ends with the
  change of channel that the 500th makes, which is the adverse case for
  the other properties.  `bus_conflict` uses 20 so that the conflict it shows does
  not come from that debug line.
* `MaxInDeque` 3 and `DataNum` 2 keep the order of the code's numbers
  (327 680 and 5 000); `MaxSamples` 5 fills the deque beyond its bound.
  `MaxCalibrations` 1 adds a client's calibration to the one of start-up.

* `timer`: two events are needed for one to be pushed before, or ahead of, the other.  The
  idle sleep (3) is longer than every period.  Times of deadlines that passed are ranks, so
  nothing bounds how long a thread may stand still.
* `i2c_bus`: the drivers and the switch are two slaves; `byte` and `plain` are the switch
  without internal address, and with the other method, as its tests use it; `eeprom` is
  refused.  35 is the number of registers `Drv2605l` reads at once, beyond the 32 of a
  block.  Nothing is bounded: the state space is finite.
* `adxl_registers`: the settings are 2 g with the sensor left measuring, the
  invalid range 00, and 8 g with the byte that resets the sensor to 2 g.  The average is negative and near the end of 16 bits, so that two
  calibrations, or one after a change of range, meet the sign, the rounding and the wrap.
  Two handlers are needed for one to rely on what the other left.  One kind of transfer
  (boot, power, update, offset, data) fails in a behaviour, any number of times.
* `rcws_pwm`: two rows make an order, two threads an overlap; a third thread meets the
  same queue.

`CHECK_DEADLOCK FALSE` is set in all runs but `i2c_bus`: the process of `DrvControl` may
end by an uncaught exception, a timer can be deleted, threads end, undefined behaviour is
not followed, and models stop when their bounds are used up.  The I2C bus never stops, and
its run checks that.

**Fairness.**  `FairSpec` of `DrvControl` lets the operating system run the main
thread, the control loop and the timer: a thread that can go on, goes
on.  Weak fairness is enough, since only a thread itself disables its next step, or the
end of the process does.  What clients send, and when they come and go, is not
fair.  `FairSpec` of `AccSampling` assumes that the main thread runs and that five
seconds pass; neither the sensor, the measure thread nor the control loop need
do anything for a calibration to stop collecting.  `FairSpec` of `TimerQueue` lets the
caller finish an operation it began, the daemon go on, and time pass; setting, cancelling
and deleting are not fair.  `FairSpec` of `RcwsPwm` lets each thread go on: its spin wait
is for a time that comes.

### What the passing runs show

* `StreamStopsWithLastClient`: whatever was in flight when the last client closed, `need_send_rt`
  is FALSE once the posted handlers have run.  It holds because the
  handler counts connections when it runs, not when it is posted.
* `CommandsKeepTheirAxis`: a tick that copies the command while a handler stores it may
  take bytes of two commands, but none of them for another axis.
* `CommandReachesDrivers`: whenever a command is stored with the flag up and the control loop is
  not writing an older one, then all drivers come to hold that command at once, each axis its
  byte, unless a newer one is stored first or the process dies.  The premise leaves out one
  window, and the property claims nothing about it: a command stored while an older one is being written is acknowledged, and forgotten
  when `main.cc:428` lowers the flag.  No text promises otherwise.
* Standby has no property in these runs, and it does go wrong: `SetStandBy` of the
  control loop (`main.cc:417`) and of a handler can overlap, and `standby_` and POWER_CTL are then
  different with both threads idle.  So, and because `run_` and `standby_` follow calls and not
  registers, a system whose `on_run` is set need not be running, although the comment at
  `main.cc:416` says the tick ensures it; `AdxlRegisters` says under which conditions
  standby is right.
* `LoopKeepsTicking`: no handler leaves `on_calibration` set.
* `DequeBounded`, `SamplesInOrder`, `CalibrationSampleSize`, `CollectEnds`,
  `ImplementsBuffer`: see section 4 for those proved for all sizes.
* `NoOversleep`, `EventsFire`, `DeleteReturns`: `push_flag_` is set after the push, and
  looked at after the sleep was computed; this order is enough.
  The sleep of an empty queue (`timer.cc:148-150`) cannot be interrupted: `NoOversleep` is not about
  it, and `EventsFire` is.
* `CancelledFiresOnce`; `OneShotFiresOnce` and `NothingLost`.  The last two say what becomes of an event
  but for one case, which the code does not exclude: an event that is
  pushed between `top()` (`timer.cc:245`) and `pop()` (`timer.cc:248`, `270`) and is earlier than the one read is
  popped in its place and never fires, and the one read fires once more.  It needs no
  cancellation, only a caller that took its time (`timer.cc:175`) well before it pushed.  `EventsFire` leaves the
  overtaking events out too.  The server sets one loop event and cancels nothing.
* `CacheIsTrue`, `ReachesItsSlave`: selection failures and new files do no harm, overlapping
  calls do.  If one thread selects, another selects and remembers, and then the first
  remembers, the cache names the first slave and the kernel holds the second: calls to the
  first go to the wrong one until some call is to another.  In the server two threads use
  the drivers and the switch, so the overlap is possible.
* `CompleteIsWhole`: no caller is told that more was done than was.  But an SMBus block
  write returns 0 when it succeeds, against the comment at `i2c_adapter.h:106`: its callers
  never see a success, and the delay after a write is left out.  A block is cut to 32 bytes,
  so the last registers of `Drv2605l::GetAllReg` and `UpdateAllReg` are never transferred.
* `RangeAgrees`, `StandbyAgrees`, `WritesInStandby`, `AtMostOneMisscaled`: the caches of
  the accelerometer are right between handlers as long as `Init`, `SetStandBy` and the updates reached the
  sensor, no update holds the reset byte, and the control loop did not change standby during a handler.
  All conditions are needed: with the byte 0x52 the sensor returns to 2 g and `range_` keeps the
  user's range, so every sample is scaled wrongly until the next update (`StandbyAgrees` and
  `WritesInStandby` hold all the same); `Init` sets `standby_` whether or not the reset was heard, and the control loop's
  `SetStandBy(false)` between a handler's `SetStandBy(true)` and its write is the hazard
  the comment at `adxl355.cc:185` names.
* `OffsetRoundTrip`: for what the register can hold.  The test for more compares `int16_t`
  values with 32768 and never fires, so that larger offsets wrap.
* `AloneIsDefined`, `RowsInOrder`, `AtMostOneMore`: the loop of a single thread is sound.
  `AtMostOneMore`, `StopComesLast` and `ExitEndsThreads` hold for two as well, and for a thread that begins after
  the flag was set.
  `PwmCmdThreadRunning` returns the exit flag (`rcws.cc:546`), which is
  never reset.  So while a thread runs, a second one can be started on the same queue, and
  nothing can be cancelled; once the flag is set, by an exception, the program offers to
  cancel a thread that has ended.

### Findings

Five runs show the code doing other than the repository says; each
is a property TLC violates, quoted in `PROJECT.json`.

1. After the last disconnect the drivers start again at the next tick, as `on_run`
   is not cleared (`main.cc:123`).
2. A stop between the control loop's test of `on_run` and its `RunDrv` is lost, and
   no later tick stops the drivers (`main.cc:186`, `415`).
3. A tick's `PauseDrv` moves the switch under a `regAllUpdate`, whose registers go to
   another driver (`main.cc:491`).
4. A failed read of MODE is masked to 6 and written back (`drv2605l.cc:134`).
5. The real-time stream can empty the deque between the measure thread's size check
   and its `AccPopFront` (`controller.cc:283`).

## 4. Proofs

Every invariant and every action property without fairness that a passing run checks is also a
theorem, and so is the refinement of `SampleBuffer`.  The theorems hold for every value of the
constants that satisfies the assumption of the module:

| assumption | says |
|---|---|
| `ControlAssumption` | at least one axis, a positive `AliveTicks`, 0 among the bytes, a bus that may succeed |
| `SamplingAssumption` | the bounds are numbers, and a calibration takes at least one sample |
| `BusAssumption` | slave addresses are positive, lengths positive and of 16 bits |
| `RegistersAssumption` | averages are integers, settings are registers of 2, 1 and 16 bits, bounds are numbers |
| `TimerAssumption` | periods, the idle sleep and the bound are numbers |
| `PwmAssumption` | a file has at least one row, the bound is a number |

One theorem, `BytesArrive`, has a hypothesis of its own, given below.  Each inductive
invariant was checked by TLC on the instance of the run before it was proved.

**DrvControl_proofs**

* `TypeCorrect`: `Spec => []TypeOK`.  `TypeOK` is inductive.  The proof has one
  lemma per group of actions (`CallStepType`, `MainLoopType`, `TickType`,
  `NetworkType`) with one case per action; each case shows that the calls an action adds
  are calls (`Constructors`) and that replacing the head keeps a sequence of calls (`ContinueType`).
* `StreamStops`: `Spec => []StreamStopsWithLastClient`.  The property is not
  inductive: it says nothing while handlers are queued.  `LastIsDisconnect` strengthens it: while nobody is
  connected, either the queue is empty and `need_send_rt` is FALSE, or the
  handler posted last is that of a disconnect.  Then no request is ever the last handler to run
  (`RequestIsNotLast`), the disconnect that is last lowers the flag (`DisconnectStops`), and a network
  event either connects somebody or posts a disconnect (`NetworkKeepsLast`).
* `BytesArrive`: `RealTimePage` implies `Spec => []CommandsKeepTheirAxis`.  `RealTimePage` says
  that clients send what the real-time page sends and that the bus works.  It is not an
  assumption of the model, since the program meets other requests: with those of the other pages
  transfers go to the wrong driver (run `bus_conflict`), and a change of channel that fails leaves the
  wrong one connected.  The property says where bytes end up, and is not inductive: bytes are
  also on their way.  `BytesInv` adds that each call
  either thread has still to make is `Safe` (one that carries a byte for an axis carries one that was sent for it, or
  the 0 of the start) and that posted handlers are of requests clients send (`Requested`).  A
  handler stores three bytes one by one while a tick may copy them (`SweepIsSafe`), so the copy
  may mix two commands, but never two axes.  Where a byte lands is what a second invariant,
  `RealTimeInv`, says: no driver runs and `on_run` is not set, so that the handlers, a disconnect included,
  make no transfer (`MainCalls`); what a tick has still to do begins with no transfer, or
  with one to the axis connected now (`AboutTo`), because a sweep
  puts the change of channel right before its transfer.

**AccSampling_proofs**

* `TypeCorrect`: `Spec => [](TypeOK /\ CalibrationSampleSize)`.  The two are proved together:
  that the number of missing samples is a natural number needs the bound on `v`.
* `Bounded`: `Spec => []DequeBounded`.  The property is inductive given the types: only
  `AccPushBack` makes the deque longer, it does so from a place where the bound holds, and the
  measure thread leaves the place where it does not hold only after a pop or a size that is small
  enough.
* `InOrder`: `Spec => []SamplesInOrder`.  `OrderInv` adds why a sample is never pushed twice: the
  one the measure thread read last is at most the sensor's (`sample <= sensor`), strictly less
  while `new_acc_data_` is up, unless that sample is being handled and the flag
  not cleared yet; and what the calibration and the deque hold is older than a sample still to
  be pushed.  Lemmas on sequences (`OrderAfterPop`, `OrderAfterMove`, ...) say that a pop from the
  front, a move from the front of one to the end of the other and a push keep the order.
* `Refinement`: `Spec => ImplementsBuffer`.  Each pop, of one sample or of many, is one `Pop` of
  `SampleBuffer` (`PopRefines`), reading the sensor is its taking of a sample, and needs `OrderInv`
  to be a newer one; pushing needs the bound; everything else stutters.

**I2cBus_proofs**

* `TypeCorrect`: `Spec => [](TypeOK /\ PathFits)`.  `PathFits` says that a
  thread inside `SmbusRW` has an SMBus call and one inside `PlainRW` a plain one; without it
  the bound of 32 bytes is not inductive.
* `CacheTrue` and `Reaches`: from the inductive invariant `Coherent`.  As long
  as calls have not mixed, all threads inside `SmbusRW` want the same slave (`Agree`), a
  thread about to remember or to transfer has it selected (`Selected`), and the cache is 0
  or what is selected, unless some thread has selected and not yet remembered
  (`CacheIsLate`).
* `DoneIsWhole`: `OneByte`, that a call without internal address is for one
  byte, is carried along; then a write that returns a positive number over SMBus wrote
  one byte, a read returns what it read, and a plain transfer moves all or fails.

**TimerQueue_proofs**

All five theorems rest on `Inv`, which relates where caller and daemon are to the entry each has in its
hand, and is stated for entries: an event about to be pushed is in no queue and has not fired (`CallerInv`); an event the daemon
read is still queued, and if it was valid its deadline has passed (`DaemonInv`); what is now before that event was pushed since, and is
the only entry of its event (`HeldInv`); only loop events are queued again or have more than one
entry (`CopyInv`); what was not created has neither fired nor overtaken (`MadeInv`); an event that fired after
its cancellation is past the test of its validity (`LateInv`).

* `TypeCorrect` and `CancelWorks` follow from `Inv`.
* `NoEventLost`: `NothingLost` is inductive given `Inv`.  What `pop()` removes is the entry
  read or one in front of it (`PopRemoves`), and one in front of it was pushed after `top()`: it is an overtaker.
* `FiresOnce`: from `FiredInv`, which counts: a one-shot event has fired at most once more
  than others that overtook it have gone from the queue (`Spent`), and no more often than that while it is queued,
  but for the moment before the `pop()` that is to remove it.
* `NoLostWakeUp`: `NoOversleep` is inductive given `Inv`.  Time passes for the sleep and for the
  deadlines alike (`LaterMonotone`), and an event pushed during a sleep comes with `push_flag_` or with a caller about
  to set it.  It is about the interruptible sleep of `PreciseSleepms`.

**RcwsPwm_proofs**

* `TypeCorrect`.  That the queue holds at most `Rows + 1` rows per thread is a
  counting argument: each thread has a share of slots that depends on its place and its row, it
  grows by one with each row the thread pushes and shrinks by one with each row it pops (`Slots`, `SlotInv`).  The
  size of a set of pairs takes the place of a sum over threads, which would need an induction.
* `OneMore`: from where a thread may be once the exit flag is set and it has sent a row (`MoreInv`).
* `StopIsLast`: every thread ends in `SendStop`, and nothing but threads sends commands (`StopInv`).
* `AloneIsSafe`, `RowsComeInOrder`: from `OrderInv`.  A user about to start a thread meets none that runs, and
  no flag that was set, unless threads overlapped; while one thread runs alone, each row in the queue is
  followed by its successor (`Chained`), the end fits the beginning in a forever loop or is
  the last row of the file (`Closes`), and the first is the successor of the row sent last (`InOrder`).

**AdxlRegisters_proofs**

* `TypeCorrect`: types, with the steps that threads have still to take.
* `OffsetsComeBack`: `OffInv` says that the register holds what the last
  `SetOffSet` computed.  The rest is arithmetic (`RoundedNear`): a conversion to 16 bits is the
  identity within its range, and rounding by a divisor of 1, 2 or 4 is off by at most half a step.
* `RangeIsTheSensors`, `WritesAreProtected`, `StandbyIsTheSensors` and `FewMisscaled` are four
  consequences of one invariant, `Inv`.  The handlers are lists of steps; `C9 .. C0` and `U6 .. U0`
  name what is left of a calibration and of an update at each point, and `Place` says for each of them
  what has been achieved: the sensor is in standby where something is to be
  written, and what will be restored is what the handler found.  `MainInv` says that the
  main thread is at such a place, or in the three steps that write POWER_CTL before one; `ControlInv`
  that the control loop does nothing but end standby; `AgreeInv` that cache and register agree but for
  the thread that is writing them.  `ResetKept` follows `was_reset`, the
  condition of the two theorems about the range.  `Credit` counts the samples that are, or may still be, scaled by the
  wrong range, those being read or pending included: an update brings one, and
  between its cache and its transfer it has not spent it.

**Only model-checked.**  The liveness properties `CommandReachesDrivers`,
`LoopKeepsTicking`, `CollectEnds`, `EventsFire`, `DeleteReturns` and `ExitEndsThreads`: liveness
under fairness, and the ENABLED it rests on, are out of the prover's reach.  The five properties of
the findings are false, and TLC shows how.

## 5. Not modelled

* The SPI adapter (a stub), register descriptions (compile time), LogUnit and the small
  utilities: tables, wrappers and logging.
* Of the I2C bus: the byte order of values, the query of the bus speed, the close in the
  destructor, and `errno` values, which all are -1.
* The conversions of `Drv2605l` (frequencies, calibration results) and its registers other
  than MODE, GO and RTP_INPUT; `GetAllReg`, filter, interrupt map and FIFO of `Adxl355`; the
  summation of an average.
* The timer's estimate of the sleep error and `GetErrorOfNanosleep`, and its pool: a task
  that was pushed is a task that fired.
* A compiler that reads a polled plain `bool` once: the models read it each turn.
* `controller_p.reset()` and what follows `mainEventLoop.run()` in `main()`, which never
  returns.
* Of the USB program: framing and the reader thread (`rcws.cc:319-451`,
  `msg_generator.hpp`), the log files they write and the user closes, the commands other
  than `p` in file mode, `o` and `c`, exceptions of the CSV reader, and the destructor of
  `Rcws`, which a detached command thread may outlive.  Plotting, user input and the test
  programs are I/O.  `src/data` holds recorded command files.

## 6. Plan

All invariants that runs check are proved.  Next, in this order:

1. Sharper forms of what is proved: `BytesArrive` for a bus that may fail, with
   the failed change of channel named in the conclusion.
2. `RcwsFraming` (`rcws.cc:319-451`, `msg_generator.hpp`): frames, lengths, timeouts, a late
   reply, the close of the port and of the log file under the reader thread.
