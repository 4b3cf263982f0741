----------------------------- MODULE AccSampling -----------------------------
(***************************************************************************)
(* Acceleration samples on their way from the ADXL355 to their readers     *)
(* (src/controller/controller.cc, src/device/adxl355/adxl355.cc): the      *)
(* interrupt raises a flag, the measure thread polls it, reads the sensor  *)
(* and pushes to a deque it trims, and two readers pop from the deque: the *)
(* main thread's calibration and the control loop's real-time stream.      *)
(*                                                                         *)
(* A mutex guards each push and each pop, but neither the flag, nor the    *)
(* size a thread looks at before it pops.                                  *)
(***************************************************************************)
EXTENDS Naturals, Sequences

CONSTANTS
  MaxInDeque,       \* max_number_in_deque_: 5 MiB of samples in the code
  DataNum,          \* samples a calibration averages: 5000 in the code
  MaxSamples,       \* bound: samples the sensor takes
  MaxCalibrations   \* bound: calibrations the clients ask for

ASSUME SamplingAssumption ==
  /\ MaxInDeque \in Nat
  /\ DataNum \in Nat \ {0}
  /\ MaxSamples \in Nat
  /\ MaxCalibrations \in Nat

VARIABLES
  sensor,        \* number of the sample in the sensor's data registers
  new_acc_data_,
  standby_,
  data_,         \* the deque: samples by number
  thread,        \* adxl355_measure_t_: a null thread object or not
  measure,       \* where the measure thread is in AccMeasureTask
  adxl355_measure_thread_exit_,
  sample,        \* its local data
  main,          \* where the main thread is
  v,             \* RunCalibration's v
  late,          \* five seconds have passed since RunCalibration began to pop
  locals,        \* what RunCalibration and its caller remember
  calibrations,  \* calibrations asked for so far (for the bound)
  on_calibration,
  control,       \* where the control loop is
  n,             \* the size AccPopAll saw
  undefined      \* an operation with undefined behaviour was executed

vars == <<sensor, new_acc_data_, standby_, data_, thread, measure,
          adxl355_measure_thread_exit_, sample, main, v, late, locals,
          calibrations, on_calibration, control, n, undefined>>

chip        == <<sensor, new_acc_data_>>
measuring   == <<measure, sample>>
lifecycle   == <<thread, adxl355_measure_thread_exit_>>
calibration == <<main, v, late, locals, calibrations, on_calibration>>
streaming   == <<control, n>>

Samples == 0 .. MaxSamples

MeasurePlaces == {"none", "enter", "while", "test", "get", "push", "size", "pop",
                  "clear", "returned"}
MainPlaces    == {"boot", "run", "start", "sleep", "wake", "collect", "leave",
                  "join", "restore", "return", "idle"}
ControlPlaces == {"none", "idle", "run", "stream", "pop"}

(* AccPopFrontN takes what there is, and no more than k.                    *)
Taken(k) == IF Len(data_) < k THEN Len(data_) ELSE k

----------------------------------------------------------------------------
(* The sensor and its interrupt, ItCallback.                                *)

DataReady ==
  /\ ~standby_
  /\ sensor < MaxSamples
  /\ sensor' = sensor + 1
  /\ new_acc_data_' = TRUE
  /\ UNCHANGED <<standby_, data_, measuring, lifecycle, calibration, streaming>>

----------------------------------------------------------------------------
(* The measure thread, AccMeasureTask.                                      *)

Measure(from, to) == measure = from /\ measure' = to

Enter ==
  /\ Measure("enter", "while")
  /\ adxl355_measure_thread_exit_' = FALSE
  /\ UNCHANGED <<chip, standby_, data_, sample, thread, calibration, streaming>>

TestExit ==
  /\ Measure("while", IF adxl355_measure_thread_exit_ THEN "returned" ELSE "test")
  /\ UNCHANGED <<chip, standby_, data_, sample, lifecycle, calibration, streaming>>

TestNewData ==
  /\ Measure("test", IF new_acc_data_ THEN "get" ELSE "while")
  /\ UNCHANGED <<chip, standby_, data_, sample, lifecycle, calibration, streaming>>

GetAcc ==
  /\ Measure("get", "push")
  /\ sample' = sensor
  /\ UNCHANGED <<chip, standby_, data_, lifecycle, calibration, streaming>>

AccPushBack ==
  /\ Measure("push", "size")
  /\ data_' = Append(data_, sample)
  /\ UNCHANGED <<chip, standby_, sample, lifecycle, calibration, streaming>>

(* Mutant of TestSize: one sample more than the bound is kept.              *)
TestSize_OffByOne ==
  /\ Measure("size", IF Len(data_) > MaxInDeque + 1 THEN "pop" ELSE "clear")
  /\ UNCHANGED <<chip, standby_, data_, sample, lifecycle, calibration, streaming>>

TestSize ==
  /\ Measure("size", IF Len(data_) > MaxInDeque THEN "pop" ELSE "clear")
  /\ UNCHANGED <<chip, standby_, data_, sample, lifecycle, calibration, streaming>>

(* front() and pop_front() of an empty deque are undefined: the run ends.    *)
AccPopFront ==
  /\ Measure("pop", "clear")
  /\ IF data_ = <<>>
       THEN undefined' = TRUE /\ UNCHANGED data_
       ELSE data_' = Tail(data_) /\ UNCHANGED undefined
  /\ UNCHANGED <<chip, standby_, sample, lifecycle, calibration, streaming>>

(* Mutant of ClearNewData: the flag stays up.                               *)
ClearNewData_Missing ==
  /\ Measure("clear", "while")
  /\ UNCHANGED <<chip, standby_, data_, sample, lifecycle, calibration, streaming>>

ClearNewData ==
  /\ Measure("clear", "while")
  /\ new_acc_data_' = FALSE
  /\ UNCHANGED <<sensor, standby_, data_, sample, lifecycle, calibration, streaming>>

----------------------------------------------------------------------------
(* The main thread: Controller::Init, then calibrationRequire handlers.     *)
(* The drivers' part of a calibration, and SetOffSet, are DrvControl's.     *)

Main(from, to) == main = from /\ main' = to

(* calibrationRequire up to its call of RunCalibration.                     *)
CalibrationRequire ==
  /\ Main("idle", "run")
  /\ calibrations < MaxCalibrations
  /\ calibrations' = calibrations + 1
  /\ on_calibration' = TRUE
  /\ locals' = [locals EXCEPT !.caller_standby = standby_]
  /\ standby_' = TRUE
  /\ UNCHANGED <<chip, data_, measuring, lifecycle, v, late, streaming>>

RunCalibration ==
  /\ main \in {"boot", "run"}
  /\ main' = IF thread = "null" THEN "start" ELSE "wake"
  /\ locals' = [locals EXCEPT !.booting = (main = "boot"),
                              !.no_measure_thread = (thread = "null"),
                              !.origin_standby = standby_]
  /\ v' = <<>>
  /\ late' = FALSE
  /\ UNCHANGED <<chip, standby_, data_, measuring, lifecycle, calibrations,
                 on_calibration, streaming>>

StartThread == IF thread = "null"
                 THEN thread' = "exists" /\ measure' = "enter"
                 ELSE UNCHANGED <<thread, measure>>

StartMeasureTask ==
  /\ Main("start", "sleep")
  /\ StartThread
  /\ UNCHANGED <<chip, standby_, data_, sample, adxl355_measure_thread_exit_, v,
                 late, locals, calibrations, on_calibration, streaming>>

SetStandBy(from, to, standby) ==
  /\ Main(from, to)
  /\ standby_' = standby
  /\ UNCHANGED <<chip, data_, measuring, lifecycle, v, late, locals,
                 calibrations, on_calibration, streaming>>

(* Mutant of Collect: every turn asks for all DataNum samples.              *)
Collect_AllAgain ==
  LET k == Taken(DataNum) IN
  /\ main = "collect"
  /\ Len(v) < DataNum
  /\ v' = v \o SubSeq(data_, 1, k)
  /\ data_' = SubSeq(data_, k + 1, Len(data_))
  /\ main' = IF late THEN "leave" ELSE "collect"
  /\ UNCHANGED <<chip, standby_, measuring, lifecycle, late, locals, calibrations,
                 on_calibration, streaming>>

(* Mutant of Collect: no time limit.                                        *)
Collect_NoTimeout ==
  LET k == Taken(DataNum - Len(v)) IN
  /\ main = "collect"
  /\ Len(v) < DataNum
  /\ v' = v \o SubSeq(data_, 1, k)
  /\ data_' = SubSeq(data_, k + 1, Len(data_))
  /\ UNCHANGED <<chip, standby_, measuring, lifecycle, main, late, locals,
                 calibrations, on_calibration, streaming>>

(* One turn of the loop that pops until v is full or five seconds passed.   *)
Collect ==
  LET k == Taken(DataNum - Len(v)) IN
  /\ main = "collect"
  /\ Len(v) < DataNum
  /\ v' = v \o SubSeq(data_, 1, k)
  /\ data_' = SubSeq(data_, k + 1, Len(data_))
  /\ main' = IF late THEN "leave" ELSE "collect"
  /\ UNCHANGED <<chip, standby_, measuring, lifecycle, late, locals, calibrations,
                 on_calibration, streaming>>

Collected ==
  /\ Main("collect", "leave")
  /\ Len(v) = DataNum
  /\ UNCHANGED <<chip, standby_, data_, measuring, lifecycle, v, late, locals,
                 calibrations, on_calibration, streaming>>

FiveSeconds ==
  /\ main = "collect"
  /\ ~late
  /\ late' = TRUE
  /\ UNCHANGED <<chip, standby_, data_, measuring, lifecycle, main, v, locals,
                 calibrations, on_calibration, streaming>>

(* CancelMeasureTask, up to its join.                                       *)
CancelMeasureTask ==
  /\ Main("leave", IF locals.no_measure_thread THEN "join" ELSE "restore")
  /\ adxl355_measure_thread_exit_' =
       (locals.no_measure_thread \/ adxl355_measure_thread_exit_)
  /\ UNCHANGED <<chip, standby_, data_, measuring, thread, v, late, locals,
                 calibrations, on_calibration, streaming>>

(* Mutant of Join: the thread is detached instead of waited for.            *)
Join_Detach ==
  /\ Main("join", "restore")
  /\ thread' = "null"
  /\ UNCHANGED <<chip, standby_, data_, measuring, adxl355_measure_thread_exit_, v,
                 late, locals, calibrations, on_calibration, streaming>>

Join ==
  /\ Main("join", "restore")
  /\ measure = "returned"
  /\ thread' = "null"
  /\ measure' = "none"
  /\ UNCHANGED <<chip, standby_, data_, sample, adxl355_measure_thread_exit_, v,
                 late, locals, calibrations, on_calibration, streaming>>

(* Back in the caller: Init starts the measure thread and main() the control *)
(* loop; the handler restores standby and lets the control loop go on.       *)
ReturnToInit ==
  /\ Main("return", "idle")
  /\ locals.booting
  /\ StartThread
  /\ control' = "idle"
  /\ UNCHANGED <<chip, standby_, data_, sample, adxl355_measure_thread_exit_, v,
                 late, locals, calibrations, on_calibration, n>>

ReturnToHandler ==
  /\ Main("return", "idle")
  /\ ~locals.booting
  /\ standby_' = locals.caller_standby
  /\ on_calibration' = FALSE
  /\ UNCHANGED <<chip, data_, measuring, lifecycle, v, late, locals, calibrations,
                 streaming>>

MainThread ==
  \/ CalibrationRequire
  \/ RunCalibration
  \/ StartMeasureTask
  \/ SetStandBy("sleep", "wake", TRUE)
  \/ SetStandBy("wake", "collect", FALSE)
  \/ Collect
  \/ Collected
  \/ CancelMeasureTask
  \/ Join
  \/ SetStandBy("restore", "return", locals.origin_standby)
  \/ ReturnToInit
  \/ ReturnToHandler

----------------------------------------------------------------------------
(* The control loop, as far as it concerns the accelerometer.               *)

Control(from, to) == control = from /\ control' = to

Tick ==
  /\ Control("idle", "run")
  /\ ~on_calibration
  /\ UNCHANGED <<chip, standby_, data_, measuring, lifecycle, calibration, n>>

(* on_run, which users switch as they like, takes the sensor out of standby. *)
EnsureMeasuring ==
  /\ Control("run", "stream")
  /\ standby_' \in {standby_, FALSE}
  /\ UNCHANGED <<chip, data_, measuring, lifecycle, calibration, n>>

(* AccPopAll, when need_send_rt is set: the size is read without the mutex.  *)
ReadSize ==
  /\ Control("stream", "pop")
  /\ n' = Len(data_)
  /\ UNCHANGED <<chip, standby_, data_, measuring, lifecycle, calibration>>

PopAll ==
  /\ Control("pop", "idle")
  /\ data_' = SubSeq(data_, Taken(n) + 1, Len(data_))
  /\ UNCHANGED <<chip, standby_, measuring, lifecycle, calibration, n>>

NoStream ==
  /\ Control("stream", "idle")
  /\ UNCHANGED <<chip, standby_, data_, measuring, lifecycle, calibration, n>>

ControlLoop == Tick \/ EnsureMeasuring \/ ReadSize \/ PopAll \/ NoStream

----------------------------------------------------------------------------

(* main() before Controller::Init.                                          *)
Init ==
  /\ sensor = 0
  /\ new_acc_data_ = FALSE
  /\ standby_ = TRUE
  /\ data_ = <<>>
  /\ thread = "null"
  /\ measure = "none"
  /\ adxl355_measure_thread_exit_ = FALSE
  /\ sample = 0
  /\ main = "boot"
  /\ v = <<>>
  /\ late = FALSE
  /\ locals = [booting |-> TRUE, no_measure_thread |-> TRUE,
               origin_standby |-> TRUE, caller_standby |-> TRUE]
  /\ calibrations = 0
  /\ on_calibration = FALSE
  /\ control = "none"
  /\ n = 0
  /\ undefined = FALSE

MeasureThread ==
  \/ Enter \/ TestExit \/ TestNewData \/ GetAcc \/ AccPushBack \/ TestSize \/ ClearNewData

Others == DataReady \/ MeasureThread \/ MainThread \/ FiveSeconds \/ ControlLoop

(* Only AccPopFront can end the defined part of a run.                      *)
Next == ~undefined /\ (AccPopFront \/ (Others /\ UNCHANGED undefined))

Spec == Init /\ [][Next]_vars

(* The main thread runs and the clock goes on.                              *)
FairSpec ==
  /\ Spec
  /\ WF_vars(~undefined /\ MainThread /\ UNCHANGED undefined)
  /\ WF_vars(~undefined /\ FiveSeconds /\ UNCHANGED undefined)

----------------------------------------------------------------------------
(* Properties                                                               *)

(* What each part may hold; the thread object is joinable exactly while the  *)
(* measure thread exists, so that Init never starts a second one.            *)
TypeOK ==
  /\ sensor \in Samples
  /\ new_acc_data_ \in BOOLEAN
  /\ standby_ \in BOOLEAN
  /\ data_ \in Seq(Samples)
  /\ thread \in {"null", "exists"}
  /\ measure \in MeasurePlaces
  /\ thread = "null" <=> measure = "none"
  /\ adxl355_measure_thread_exit_ \in BOOLEAN
  /\ sample \in Samples
  /\ main \in MainPlaces
  /\ v \in Seq(Samples)
  /\ late \in BOOLEAN
  /\ locals \in [booting : BOOLEAN, no_measure_thread : BOOLEAN,
                 origin_standby : BOOLEAN, caller_standby : BOOLEAN]
  /\ calibrations \in 0 .. MaxCalibrations
  /\ on_calibration \in BOOLEAN
  /\ control \in ControlPlaces
  /\ n \in Nat
  /\ undefined \in BOOLEAN

(* "Protect memory overflow": the deque never holds more than its bound plus *)
(* the sample just pushed, and no more than the bound once the measure thread *)
(* has looked at the size, whoever pops in between.                          *)
DequeBounded ==
  /\ Len(data_) <= MaxInDeque + 1
  /\ measure \notin {"size", "pop"} => Len(data_) <= MaxInDeque

(* A sample is recorded at most once and in the order it was taken, whichever *)
(* reader pops and however often the interrupt hits the flag being cleared:  *)
(* what a calibration collected is older than what is still in the deque.    *)
SamplesInOrder ==
  LET kept == v \o data_ IN
  \A i, j \in DOMAIN kept : i < j => kept[i] < kept[j]

(* A calibration averages at most DataNum samples, though it pops in many     *)
(* turns against a deque that grows and is trimmed and streamed meanwhile.   *)
CalibrationSampleSize == Len(v) <= DataNum

(* A calibration stops collecting, even when the control loop, the measure   *)
(* thread or the sensor deliver nothing.                                     *)
CollectEnds == main = "collect" ~> (main # "collect" \/ undefined)

(* The measure thread, the deque and its two readers together are a buffer   *)
(* that keeps order and bound: the measure thread holds a sample from GetAcc  *)
(* to AccPushBack.                                                          *)
Buffer == INSTANCE SampleBuffer
            WITH Bound <- MaxInDeque, newest <- sample, held <- measure = "push",
                 buffer <- data_

(* Every step of the threads and of the interrupt is a step of that buffer, or *)
(* none: no sample is recorded twice, overtakes another, or is put into a full *)
(* deque, however the interrupt meets the flag being cleared.               *)
ImplementsBuffer == Buffer!Spec

(* AccPopFront's caller "should check deque's size": when the measure thread *)
(* is about to pop, there is a sample to pop.                                *)
PopFrontHasData == measure = "pop" => data_ # <<>>

=============================================================================
