--------------------------- MODULE MCAdxlRegisters ---------------------------
(* Users choose 2 g and measuring, or the invalid 00, or 8 g with the byte that *)
(* resets the sensor.                                                       *)
EXTENDS AdxlRegisters

MCAverages == {-30001}

Setting(range, standby, r) ==
  [range |-> range, standby |-> standby, offset |-> 7, reset |-> r]

MCSettings ==
  {Setting(1, FALSE, FALSE), Setting(0, TRUE, FALSE), Setting(3, FALSE, TRUE)}

=============================================================================
