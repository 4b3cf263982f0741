---------------------------- MODULE SampleBuffer ----------------------------
(***************************************************************************)
(* What the ADXL355's readers may rely on: samples go through a bounded    *)
(* buffer in the order they were taken and at most once each; what leaves  *)
(* the buffer, to a reader or because there is no room, is the oldest.     *)
(***************************************************************************)
EXTENDS Naturals, Sequences

CONSTANT Bound     \* samples the buffer keeps

VARIABLES
  newest,    \* number of the newest sample that was read from the sensor
  held,      \* that sample is not in the buffer yet
  buffer

vars == <<newest, held, buffer>>

Init ==
  /\ newest = 0
  /\ held = FALSE
  /\ buffer = <<>>

(* A new sample is read: newer than any before.                             *)
Read ==
  /\ ~held
  /\ newest' \in Nat
  /\ newest' > newest
  /\ held' = TRUE
  /\ UNCHANGED buffer

(* It is put at the end, when the buffer has been cut to its bound.          *)
Put ==
  /\ held
  /\ Len(buffer) <= Bound
  /\ buffer' = Append(buffer, newest)
  /\ held' = FALSE
  /\ UNCHANGED newest

(* The k oldest leave.                                                      *)
Leave(k) ==
  /\ buffer' = SubSeq(buffer, k + 1, Len(buffer))
  /\ UNCHANGED <<newest, held>>

Next == Read \/ Put \/ \E k \in 1 .. Len(buffer) : Leave(k)

Spec == Init /\ [][Next]_vars

=============================================================================
