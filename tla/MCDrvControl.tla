---------------------------- MODULE MCDrvControl ----------------------------
(* Instances of DrvControl small enough for TLC.                            *)
EXTENDS DrvControl, TLC

Ask(kind, to_run, value) ==
  [kind |-> kind, to_run |-> to_run, rtp |-> [a \in Axes |-> value]]

Plain(kinds) == {Ask(k, FALSE, 0) : k \in kinds}

MCBytes == 0 .. 4

(* Two commands: a byte given to one axis is given to no neighbour of it, and *)
(* the two have no byte in common.                                          *)
Commands ==
  {[kind |-> "drvCmdUpdate", to_run |-> FALSE, rtp |-> [a \in Axes |-> f[a % 2]]] :
     f \in {(0 :> 1 @@ 1 :> 2), (0 :> 3 @@ 1 :> 4)}}

(* What the real-time page of the web client sends.                         *)
RealTimeRequests ==
  Plain({"dataRTKeepRequire", "dataRTStopRequire"})
  \cup Commands

DriveRequests == {Ask("drvDriveUpdate", r, 0) : r \in BOOLEAN}

(* What changes, calibrates or reads the registers, and the drive button.    *)
SettingRequests ==
  DriveRequests
  \cup Plain({"calibrationRequire", "regAllRequire", "moduleInfoRequire"})
  \cup {Ask("regAllUpdate", TRUE, 1)}

AllRequests == RealTimeRequests \cup SettingRequests

MCReliable == {TRUE}
MCFaulty   == BOOLEAN
=============================================================================
