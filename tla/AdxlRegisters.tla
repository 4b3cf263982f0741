---------------------------- MODULE AdxlRegisters ----------------------------
(***************************************************************************)
(* The registers of the accelerometer (src/device/adxl355) and what the    *)
(* program remembers of them: standby_ and range_.  The main thread        *)
(* calibrates the offsets and writes the settings users send, the control  *)
(* loop takes the sensor out of standby, and the measure thread reads      *)
(* samples and scales them by the remembered range.  Any SPI transfer may  *)
(* fail.                                                                   *)
(*                                                                         *)
(* One axis stands for the three.  Accelerations are in steps of a 16-bit  *)
(* offset in the 2 g range; a range r has steps of 2^(r - 1) such units.   *)
(***************************************************************************)
EXTENDS Integers, Sequences, FiniteSets

CONSTANTS
  Averages,     \* averages of the samples of a calibration
  Settings,     \* settings users send: RANGE, POWER_CTL, OFFSET and RESET
  NoSamples,    \* the average of no samples, not a number
  Nothing,      \* no value
  MaxHandlers,  \* bound: updates and calibrations asked for
  MaxFailures   \* bound: kinds of transfers that fail

Int16 == -32768 .. 32767

ASSUME RegistersAssumption ==
  /\ Averages \subseteq Int /\ NoSamples \notin Averages
  /\ Settings \subseteq [range : 0 .. 3, standby : BOOLEAN, offset : Int16,
                      reset : BOOLEAN]
  /\ MaxHandlers \in Nat
  /\ MaxFailures \in Nat

VARIABLES
  chip,            \* RANGE, POWER_CTL and OFFSET of the sensor
  data,            \* the range under which XDATA was measured
  new_acc_data_,
  standby_, range_,
  todo,            \* steps main and control still have to take
  saved,           \* the standby values main restores
  acc,             \* the offset main is about to set
  on_modify, on_calibration,
  measure,         \* where the measure thread is
  raw,             \* the range under which what it read was measured
  handlers,        \* handlers begun so far (for the bound)
  updates,         \* updates of all registers among them
  misscaled,       \* samples scaled by another range than they were measured in
  wanted,          \* the offset last set, if the register can hold it
  unprotected,     \* settings were written while the sensor measured
  was_reset,       \* users' settings reset the sensor: never, with the last
                   \* update, or with an earlier one
  interfered,      \* control changed standby while main was in a handler
  failed           \* the kinds of transfers that have failed

vars == <<chip, data, new_acc_data_, standby_, range_, todo, saved, acc, on_modify,
          on_calibration, measure, raw, handlers, updates, misscaled, wanted,
          unprotected, was_reset, interfered, failed>>

sampling == <<data, new_acc_data_, measure, raw, misscaled>>
flags    == <<on_modify, on_calibration>>
counts   == <<handlers, updates>>
locals   == <<saved, acc>>
ghosts   == <<wanted, unprotected, was_reset>>

----------------------------------------------------------------------------
(* Conversions                                                              *)

(* GetCacheRange, as a multiple of its value for 2 g.                       *)
Scale(range) == IF range = 1 THEN 1 ELSE IF range = 3 THEN 4 ELSE 2

(* "user input protect": what is remembered for the range bits 00 is 4 g.    *)
Protected(range) == IF range = 0 THEN 2 ELSE range

(* round(), halves away from zero.                                          *)
Rounded(a, step) ==
  IF a >= 0 THEN (2 * a + step) \div (2 * step) ELSE -((step - 2 * a) \div (2 * step))

(* The conversion to int16_t; builds convert what is not a number to 0.      *)
ToInt16(n) == ((n + 32768) % 65536) - 32768

(* Mutant of FromRegister: the two bytes are not read as a signed number.    *)
FromRegister_Unsigned(n, range) == (n % 65536) * Scale(range)

(* GetOffSet, of what it read.                                              *)
FromRegister(n, range) == n * Scale(range)

ToRegister(a, range) ==
  IF a = NoSamples THEN 0 ELSE ToInt16(Rounded(a, Scale(range)))

Holds(a, range) ==
  a # NoSamples /\ Rounded(a, Scale(range)) \in Int16

(* The registers after a reset.                                             *)
Fresh == [range |-> 1, standby |-> TRUE, offset |-> 0]

(* The registers after settings were written, RESET, 0x52 or another byte,    *)
(* as the last of them.                                                     *)
Registers(s) ==
  IF s.reset THEN Fresh
  ELSE [range |-> s.range, standby |-> s.standby, offset |-> s.offset]

----------------------------------------------------------------------------
(* Steps of main and control                                                *)

Step(do, arg) == [do |-> do, arg |-> arg]
StandBy(b) == Step("SetStandBy", b)
Restore(name) == Step("RestoreStandBy", name)
Save(name) == Step("Save", name)

(* SetOffSet after its conversion; its test for over-range compares int16_t  *)
(* values with 32768 and never stops it.                                    *)
SetOffSet ==
  <<Save("tmp"), StandBy(TRUE), Step("WriteOffSet", Nothing), Restore("tmp")>>

RunCalibration(avg) ==
  <<Save("origin_standby"), StandBy(FALSE), Restore("origin_standby"),
    Step("GetOffSet", avg)>> \o SetOffSet

(* UpdateAllReg writes nothing when the number of bytes is wrong.           *)
UpdateAllReg(s) ==
  <<Save("tmp"), StandBy(TRUE), Step("CacheRange", s), Step("WriteAll", s),
    Restore("tmp")>>

UpdateNothing == <<Save("tmp"), StandBy(TRUE), Restore("tmp")>>

At(t, do) == todo[t] # <<>> /\ Head(todo[t]).do = do
Arg(t) == Head(todo[t]).arg
Rest(t) == Tail(todo[t])

Kinds == {"boot", "power", "update", "offset", "data"}

(* A transfer of this kind fails.                                           *)
Fails(kind) ==
  /\ failed' = failed \cup {kind}
  /\ Cardinality(failed') <= MaxFailures

Continue(t, steps) == todo' = [todo EXCEPT ![t] = steps]

(* Control changes standby while a handler counts on it.                    *)
Interferes(t) == t = "control" /\ todo["main"] # <<>>

SaveStandBy ==
  /\ At("main", "Save")
  /\ saved' = [saved EXCEPT ![Arg("main")] = standby_]
  /\ Continue("main", Rest("main"))
  /\ UNCHANGED <<chip, standby_, range_, sampling, acc, flags, counts, ghosts,
                 interfered, failed>>

(* SetStandBy: nothing to do, or POWER_CTL is read, written and remembered.  *)
SetStandBy(t) ==
  /\ At(t, "SetStandBy") \/ At(t, "RestoreStandBy")
  /\ LET b == IF At(t, "RestoreStandBy") THEN saved[Arg(t)] ELSE Arg(t) IN
     Continue(t, IF standby_ = b THEN Rest(t)
                 ELSE <<Step("PowerRead", Nothing), Step("PowerWrite", b)>> \o Rest(t))
  /\ UNCHANGED <<chip, standby_, range_, sampling, locals, flags, counts, ghosts,
                 interfered, failed>>

(* No bit of the value read is kept.  A failed read leaves an empty vector,  *)
(* whose first element builds may or may not look at: it ends the process,   *)
(* or is without effect.                                                    *)
PowerRead(t) ==
  /\ At(t, "PowerRead")
  /\ Continue(t, Rest(t))
  /\ UNCHANGED failed \/ Fails("power")
  /\ UNCHANGED <<chip, standby_, range_, sampling, locals, flags, counts, ghosts,
                 interfered>>

PowerWrite(t) ==
  /\ At(t, "PowerWrite")
  /\ \/ /\ chip' = [chip EXCEPT !.standby = Arg(t)]
        /\ Continue(t, <<Step("PowerCache", Arg(t))>> \o Rest(t))
        /\ UNCHANGED failed
     \/ /\ Fails("power")
        /\ Continue(t, Rest(t))
        /\ UNCHANGED chip
  /\ interfered' = (interfered \/ Interferes(t))
  /\ UNCHANGED <<standby_, range_, sampling, locals, flags, counts, ghosts>>

(* Mutant of PowerCache: standby_ is not updated.                           *)
PowerCache_Missing(t) ==
  /\ At(t, "PowerCache")
  /\ Continue(t, Rest(t))
  /\ interfered' = (interfered \/ Interferes(t))
  /\ UNCHANGED <<chip, standby_, range_, sampling, locals, flags, counts, ghosts, failed>>

PowerCache(t) ==
  /\ At(t, "PowerCache")
  /\ standby_' = Arg(t)
  /\ Continue(t, Rest(t))
  /\ interfered' = (interfered \/ Interferes(t))
  /\ UNCHANGED <<chip, range_, sampling, locals, flags, counts, ghosts, failed>>

(* Mutant of CacheRange: the range is written and not remembered.           *)
CacheRange_Missing ==
  /\ At("main", "CacheRange")
  /\ Continue("main", Rest("main"))
  /\ UNCHANGED <<chip, standby_, range_, sampling, locals, flags, counts, ghosts,
                 interfered, failed>>

(* Mutant of CacheRange: the protection against 00 is missing.              *)
CacheRange_Unprotected ==
  /\ At("main", "CacheRange")
  /\ range_' = Arg("main").range
  /\ Continue("main", Rest("main"))
  /\ UNCHANGED <<chip, standby_, sampling, locals, flags, counts, ghosts, interfered,
                 failed>>

CacheRange ==
  /\ At("main", "CacheRange")
  /\ range_' = Protected(Arg("main").range)
  /\ Continue("main", Rest("main"))
  /\ UNCHANGED <<chip, standby_, sampling, locals, flags, counts, ghosts, interfered,
                 failed>>

(* A transfer of main that writes settings, if it succeeds.                  *)
WriteSettings(registers, resets, kind) ==
  /\ Continue("main", Rest("main"))
  /\ unprotected' = (unprotected \/ ~chip.standby)
  /\ \/ chip' = registers /\ was_reset' = resets /\ UNCHANGED failed
     \/ Fails(kind) /\ UNCHANGED <<chip, was_reset>>
  /\ UNCHANGED <<standby_, range_, sampling, locals, flags, counts, interfered>>

(* The registers from OFFSET_X_H to RESET, as the user sent them: nothing     *)
(* protects range_ from a reset.                                            *)
WriteAll ==
  /\ At("main", "WriteAll")
  /\ WriteSettings(Registers(Arg("main")),
                   IF Arg("main").reset THEN "last"
                   ELSE IF was_reset = "never" THEN "never" ELSE "earlier",
                   "update")
  /\ wanted' = Nothing

(* The average and the offset there was are added.  A failed read leaves     *)
(* nothing to take the bytes from, and the process ends.                    *)
GetOffSet ==
  /\ At("main", "GetOffSet")
  /\ acc' = IF Arg("main") = NoSamples THEN NoSamples
            ELSE Arg("main") + FromRegister(chip.offset, range_)
  /\ Continue("main", Rest("main"))
  /\ UNCHANGED <<chip, standby_, range_, sampling, saved, flags, counts, ghosts,
                 interfered, failed>>

WriteOffSet ==
  /\ At("main", "WriteOffSet")
  /\ WriteSettings([chip EXCEPT !.offset = ToRegister(acc, range_)], was_reset, "offset")
  /\ wanted' = IF Holds(acc, range_) THEN [acc |-> acc, range |-> range_] ELSE Nothing

----------------------------------------------------------------------------
(* The main thread                                                          *)

(* Adxl355::Init, of a sensor in any state: a reset, then the 4 g range; then *)
(* the calibration of Controller::Init, before the control loop begins.  When *)
(* there is no SPI device nothing is written and standby_ stays FALSE: that   *)
(* process ends in the calibration, whose GetOffSet finds no bytes, and is a  *)
(* run of the model that stays before Boot.                                  *)
Boot(avg) ==
  /\ handlers = -1
  /\ handlers' = 0
  /\ \E cleared, ranged \in BOOLEAN :
       LET registers == IF cleared THEN Fresh ELSE chip IN
       /\ chip' = IF ranged THEN [registers EXCEPT !.range = 2] ELSE registers
       /\ IF cleared /\ ranged THEN UNCHANGED failed ELSE Fails("boot")
  /\ standby_' = TRUE
  /\ Continue("main", RunCalibration(avg))
  /\ UNCHANGED <<range_, sampling, locals, flags, updates, ghosts, interfered>>

Begin ==
  /\ handlers \in 0 .. MaxHandlers - 1
  /\ handlers' = handlers + 1
  /\ todo["main"] = <<>>
  /\ ~on_modify /\ ~on_calibration
  /\ interfered' = (interfered \/ At("control", "PowerCache"))

(* Mutant of RegAllUpdate: the settings are written without standby.         *)
RegAllUpdate_NoStandBy(s) ==
  /\ Begin
  /\ on_modify' = TRUE
  /\ updates' = updates + 1
  /\ Continue("main", <<Step("CacheRange", s), Step("WriteAll", s), StandBy(FALSE)>>)
  /\ UNCHANGED <<chip, standby_, range_, sampling, locals, on_calibration, ghosts,
                 failed>>

RegAllUpdate(s) ==
  /\ Begin
  /\ on_modify' = TRUE
  /\ updates' = updates + 1
  /\ \E update \in {UpdateAllReg(s), UpdateNothing} :
       Continue("main", <<StandBy(TRUE)>> \o update \o <<StandBy(FALSE)>>)
  /\ UNCHANGED <<chip, standby_, range_, sampling, locals, on_calibration, ghosts,
                 failed>>

CalibrationRequire(avg) ==
  /\ Begin
  /\ on_calibration' = TRUE
  /\ saved' = [saved EXCEPT !.origin = standby_]
  /\ Continue("main", <<StandBy(TRUE)>> \o RunCalibration(avg) \o <<Restore("origin")>>)
  /\ UNCHANGED <<chip, standby_, range_, sampling, acc, on_modify, updates, ghosts,
                 failed>>

End ==
  /\ todo["main"] = <<>>
  /\ on_modify \/ on_calibration
  /\ on_modify' = FALSE
  /\ on_calibration' = FALSE
  /\ UNCHANGED <<chip, standby_, range_, sampling, todo, locals, counts, ghosts,
                 interfered, failed>>

----------------------------------------------------------------------------
(* The control loop, when on_run is set                                     *)

Booted == handlers > 0 \/ (handlers = 0 /\ todo["main"] = <<>>)

Tick ==
  /\ Booted
  /\ ~on_calibration
  /\ todo["control"] = <<>>
  /\ Continue("control", <<Step("CheckModify", Nothing)>>)
  /\ UNCHANGED <<chip, standby_, range_, sampling, locals, flags, counts, ghosts,
                 interfered, failed>>

CheckModify ==
  /\ At("control", "CheckModify")
  /\ Continue("control", IF on_modify THEN <<>> ELSE <<StandBy(FALSE)>>)
  /\ UNCHANGED <<chip, standby_, range_, sampling, locals, flags, counts, ghosts,
                 interfered, failed>>

----------------------------------------------------------------------------
(* The sensor and the measure thread                                        *)

others == <<chip, standby_, range_, todo, locals, flags, counts, ghosts, interfered>>

(* A sample is ready, whatever INT_MAP is set to.                            *)
DataReady ==
  /\ handlers >= 0
  /\ ~chip.standby
  /\ data' = chip.range
  /\ new_acc_data_' = TRUE
  /\ UNCHANGED <<others, measure, raw, misscaled, failed>>

(* A failed read gives a sample of zeros, whatever the range.               *)
ReadData ==
  /\ measure = "wait"
  /\ new_acc_data_
  /\ measure' = "parse"
  /\ \/ raw' = data /\ UNCHANGED failed
     \/ raw' = Nothing /\ Fails("data")
  /\ UNCHANGED <<others, data, new_acc_data_, misscaled>>

ParseDigitalAcc ==
  /\ measure = "parse"
  /\ measure' = "clear"
  /\ misscaled' = IF raw # Nothing /\ Scale(range_) # Scale(raw) /\ misscaled <= MaxHandlers
                    THEN misscaled + 1 ELSE misscaled
  /\ UNCHANGED <<others, data, new_acc_data_, raw, failed>>

ClearNewData ==
  /\ measure = "clear"
  /\ measure' = "wait"
  /\ new_acc_data_' = FALSE
  /\ UNCHANGED <<others, data, raw, misscaled, failed>>

----------------------------------------------------------------------------

Init ==
  /\ chip \in [range : {1, 2}, standby : BOOLEAN, offset : {0}]
  /\ data = chip.range
  /\ new_acc_data_ = FALSE
  /\ standby_ = FALSE
  /\ range_ = 2
  /\ todo = [t \in {"main", "control"} |-> <<>>]
  /\ saved = [origin |-> TRUE, origin_standby |-> TRUE, tmp |-> TRUE]
  /\ acc = 0
  /\ on_modify = FALSE
  /\ on_calibration = FALSE
  /\ measure = "wait"
  /\ raw = Nothing
  /\ handlers = -1
  /\ updates = 0
  /\ misscaled = 0
  /\ wanted = Nothing
  /\ unprotected = FALSE
  /\ was_reset = "never"
  /\ interfered = FALSE
  /\ failed = {}

Next ==
  \/ \E avg \in Averages \cup {NoSamples} : Boot(avg) \/ CalibrationRequire(avg)
  \/ \E s \in Settings : RegAllUpdate(s)
  \/ End
  \/ SaveStandBy \/ CacheRange \/ WriteAll \/ GetOffSet \/ WriteOffSet
  \/ \E t \in {"main", "control"} :
       SetStandBy(t) \/ PowerRead(t) \/ PowerWrite(t) \/ PowerCache(t)
  \/ Tick \/ CheckModify
  \/ DataReady \/ ReadData \/ ParseDigitalAcc \/ ClearNewData

Spec == Init /\ [][Next]_vars

----------------------------------------------------------------------------
(* Properties                                                               *)

Quiet == ~interfered /\ failed \cap {"boot", "power"} = {}

(* Types, and: the register holds 16 bits, and no value cached as a range is *)
(* the invalid 00.                                                          *)
TypeOK ==
  /\ chip \in [range : 0 .. 3, standby : BOOLEAN, offset : Int16]
  /\ data \in 0 .. 3
  /\ new_acc_data_ \in BOOLEAN
  /\ standby_ \in BOOLEAN
  /\ range_ \in 1 .. 3
  /\ saved \in [{"origin", "origin_standby", "tmp"} -> BOOLEAN]
  /\ on_modify \in BOOLEAN
  /\ on_calibration \in BOOLEAN
  /\ measure \in {"wait", "parse", "clear"}
  /\ raw \in 0 .. 3 \/ raw = Nothing
  /\ handlers \in -1 .. MaxHandlers
  /\ updates \in 0 .. MaxHandlers
  /\ misscaled \in 0 .. MaxHandlers + 1
  /\ unprotected \in BOOLEAN
  /\ was_reset \in {"never", "last", "earlier"}
  /\ interfered \in BOOLEAN
  /\ failed \subseteq Kinds

(* The range the program scales samples by is the sensor's, or 4 g for a     *)
(* sensor that was given 00, whenever no update is between its cache and its *)
(* transfer, as long as Init and the updates reached the sensor and the last  *)
(* of them did not reset it: range_ keeps the user's range then, and the      *)
(* sensor does not.                                                         *)
RangeAgrees ==
  /\ handlers >= 0 /\ ~At("main", "WriteAll")
  /\ failed \cap {"boot", "update"} = {} /\ was_reset # "last"
  => range_ = Protected(chip.range)

(* standby_ says between two handlers what POWER_CTL holds, although users    *)
(* write POWER_CTL as they like, as long as Init and SetStandBy reached the   *)
(* sensor and control did not change standby during a handler.              *)
StandbyAgrees ==
  /\ handlers >= 0 /\ todo["main"] = <<>> /\ ~At("control", "PowerCache")
  /\ Quiet
  => standby_ = chip.standby

(* "protect": settings are written to a sensor that is in standby, as long as *)
(* Init and SetStandBy reached it and control did not change standby during  *)
(* a handler.                                                               *)
WritesInStandby == unprotected => ~Quiet

(* Of the samples between which the range changes at most one per update is  *)
(* scaled by the wrong range, under the same conditions, if the updates       *)
(* reached the sensor and none reset it: the one that was being read, or      *)
(* pending.                                                                 *)
AtMostOneMisscaled ==
  Quiet /\ "update" \notin failed /\ was_reset = "never" => misscaled <= updates

(* GetOffSet gives back what SetOffSet was given, to half a step of the range *)
(* and whatever the sign, as long as the register can hold it.              *)
OffsetRoundTrip ==
  wanted # Nothing /\ "offset" \notin failed /\ wanted.range = range_ =>
    LET error == FromRegister(chip.offset, range_) - wanted.acc
    IN  2 * error \in -Scale(range_) .. Scale(range_)

=============================================================================
