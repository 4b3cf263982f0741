-------------------------- MODULE AdxlRegisters_proofs --------------------------
(***************************************************************************)
(* Proofs about AdxlRegisters for any averages, settings, number of updates *)
(* and of failing transfers: what the program remembers of the sensor, and  *)
(* what becomes of its samples and offsets.                                 *)
(*                                                                         *)
(* The handlers of the main thread are lists of steps.  A list is described *)
(* by what is left of it (U6 .. U0 of an update, C8 .. C1 of a calibration)  *)
(* and by what holds when the main thread has come so far (Place).          *)
(***************************************************************************)
EXTENDS AdxlRegisters, FiniteSetTheorems, SequenceTheorems, TLAPS

Names == {"origin", "origin_standby", "tmp"}
Asked == Averages \cup {NoSamples}

Steps ==
  [do : {"SetStandBy", "PowerWrite", "PowerCache"}, arg : BOOLEAN]
  \cup [do : {"RestoreStandBy", "Save"}, arg : Names]
  \cup [do : {"CacheRange", "WriteAll"}, arg : Settings]
  \cup [do : {"GetOffSet"}, arg : Asked]
  \cup [do : {"WriteOffSet", "PowerRead", "CheckModify"}, arg : {Nothing}]

----------------------------------------------------------------------------
(* What is left of a handler                                                *)

Then(x, b) == <<x>> \o b

(* A calibration, of start-up or of a user, which ends with e.               *)
C0       == <<Restore("origin")>>
Ends     == {<<>>, C0}
C1(e)    == Then(Restore("tmp"), e)
C2(e)    == Then(Step("WriteOffSet", Nothing), C1(e))
C3(e)    == Then(StandBy(TRUE), C2(e))
C4(e)    == Then(Save("tmp"), C3(e))
C5(a, e) == Then(Step("GetOffSet", a), C4(e))
C6(a, e) == Then(Restore("origin_standby"), C5(a, e))
C7(a, e) == Then(StandBy(FALSE), C6(a, e))
C8(a, e) == Then(Save("origin_standby"), C7(a, e))
C9(a)    == Then(StandBy(TRUE), C8(a, C0))

(* An update, of some registers or of none: w is what it does in standby.    *)
U0      == <<StandBy(FALSE)>>
U1      == Then(Restore("tmp"), U0)
U2(s)   == Then(Step("WriteAll", s), U1)
U3(s)   == Then(Step("CacheRange", s), U2(s))
Writing == {U1} \cup {U3(s) : s \in Settings}
U4(w)   == Then(StandBy(TRUE), w)
U5(w)   == Then(Save("tmp"), U4(w))
U6(w)   == Then(StandBy(TRUE), U5(w))

Doing(b) == Head(b).do
With(b)  == Head(b).arg

Starts(b, do, arg, rest) ==
  b \in Seq(Steps) /\ b # <<>> /\ Doing(b) = do /\ With(b) = arg /\ Tail(b) = rest

LEMMA StepsAre ==
  /\ \A v \in BOOLEAN : StandBy(v) \in Steps /\ Step("PowerWrite", v) \in Steps
                        /\ Step("PowerCache", v) \in Steps
  /\ \A n \in Names : Restore(n) \in Steps /\ Save(n) \in Steps
  /\ \A s \in Settings : Step("CacheRange", s) \in Steps /\ Step("WriteAll", s) \in Steps
  /\ \A a \in Asked : Step("GetOffSet", a) \in Steps
  /\ Step("WriteOffSet", Nothing) \in Steps
  /\ Step("PowerRead", Nothing) \in Steps
  /\ Step("CheckModify", Nothing) \in Steps
BY DEF Step, StandBy, Restore, Save, Steps

(* A list begins with the step put in front of it.                           *)
LEMMA ThenStarts ==
  ASSUME NEW b \in Seq(Steps)
  PROVE  /\ \A v \in BOOLEAN : Starts(Then(StandBy(v), b), "SetStandBy", v, b)
         /\ \A n \in Names : /\ Starts(Then(Restore(n), b), "RestoreStandBy", n, b)
                             /\ Starts(Then(Save(n), b), "Save", n, b)
         /\ \A s \in Settings :
              /\ Starts(Then(Step("CacheRange", s), b), "CacheRange", s, b)
              /\ Starts(Then(Step("WriteAll", s), b), "WriteAll", s, b)
         /\ \A a \in Asked : Starts(Then(Step("GetOffSet", a), b), "GetOffSet", a, b)
         /\ Starts(Then(Step("WriteOffSet", Nothing), b), "WriteOffSet", Nothing, b)
<1>1. ASSUME NEW x \in Steps
      PROVE  /\ Then(x, b) \in Seq(Steps) /\ Then(x, b) # <<>>
             /\ Head(Then(x, b)) = x /\ Tail(Then(x, b)) = b
  BY DEF Then
<1>2. ASSUME NEW x \in Steps
      PROVE  Starts(Then(x, b), x.do, x.arg, b)
  BY <1>1 DEF Starts, Doing, With
<1> HIDE DEF Steps
<1>3. ASSUME NEW o, NEW a, Step(o, a) \in Steps
      PROVE  Starts(Then(Step(o, a), b), o, a, b)
  <2>1. Step(o, a).do = o /\ Step(o, a).arg = a
    BY DEF Step
  <2>2. Starts(Then(Step(o, a), b), Step(o, a).do, Step(o, a).arg, b)
    BY <1>2, <1>3
  <2>q. QED
    BY <2>1, <2>2, Zenon
<1>q. QED
  BY <1>3, StepsAre, Zenon DEF StandBy, Restore, Save

LEMMA OneStarts ==
  Starts(C0, "RestoreStandBy", "origin", <<>>)
  /\ Starts(U0, "SetStandBy", FALSE, <<>>)
<1>1. /\ Then(Restore("origin"), <<>>) = C0
      /\ Then(StandBy(FALSE), <<>>) = U0
  BY DEF Then, U0, C0
<1>2. "origin" \in Names /\ FALSE \in BOOLEAN /\ <<>> \in Seq(Steps)
  BY DEF Names
<1>q. QED
  BY <1>1, <1>2, ThenStarts, Zenon

(* The first step of each list, and the list it leaves.                     *)
LEMMA CalibrationLists ==
  ASSUME NEW e \in Ends, NEW a \in Asked
  PROVE  /\ e \in Seq(Steps)
         /\ Starts(C1(e), "RestoreStandBy", "tmp", e)
         /\ Starts(C2(e), "WriteOffSet", Nothing, C1(e))
         /\ Starts(C3(e), "SetStandBy", TRUE, C2(e))
         /\ Starts(C4(e), "Save", "tmp", C3(e))
         /\ Starts(C5(a, e), "GetOffSet", a, C4(e))
         /\ Starts(C6(a, e), "RestoreStandBy", "origin_standby", C5(a, e))
         /\ Starts(C7(a, e), "SetStandBy", FALSE, C6(a, e))
         /\ Starts(C8(a, e), "Save", "origin_standby", C7(a, e))
         /\ Starts(C9(a), "SetStandBy", TRUE, C8(a, C0))
         /\ Starts(C0, "RestoreStandBy", "origin", <<>>)
<1> USE DEF Names
<1>1. <<>> \in Seq(Steps)
  OBVIOUS
<1>2. Starts(C0, "RestoreStandBy", "origin", <<>>)
  BY OneStarts
<1>3. \A d \in Ends : d \in Seq(Steps)
  BY <1>1, <1>2 DEF Ends, Starts
<1>4. ASSUME NEW d \in Ends
      PROVE  /\ Starts(C1(d), "RestoreStandBy", "tmp", d)
             /\ Starts(C2(d), "WriteOffSet", Nothing, C1(d))
             /\ Starts(C3(d), "SetStandBy", TRUE, C2(d))
             /\ Starts(C4(d), "Save", "tmp", C3(d))
             /\ Starts(C5(a, d), "GetOffSet", a, C4(d))
             /\ Starts(C6(a, d), "RestoreStandBy", "origin_standby", C5(a, d))
             /\ Starts(C7(a, d), "SetStandBy", FALSE, C6(a, d))
             /\ Starts(C8(a, d), "Save", "origin_standby", C7(a, d))
  <2>1. Starts(C1(d), "RestoreStandBy", "tmp", d)
    BY <1>3, ThenStarts DEF C1
  <2>2. Starts(C2(d), "WriteOffSet", Nothing, C1(d))
    BY <2>1, ThenStarts DEF C2, Starts
  <2>3. Starts(C3(d), "SetStandBy", TRUE, C2(d))
    BY <2>2, ThenStarts DEF C3, Starts
  <2>4. Starts(C4(d), "Save", "tmp", C3(d))
    BY <2>3, ThenStarts DEF C4, Starts
  <2>5. Starts(C5(a, d), "GetOffSet", a, C4(d))
    BY <2>4, ThenStarts DEF C5, Starts
  <2>6. Starts(C6(a, d), "RestoreStandBy", "origin_standby", C5(a, d))
    BY <2>5, ThenStarts DEF C6, Starts
  <2>7. Starts(C7(a, d), "SetStandBy", FALSE, C6(a, d))
    BY <2>6, ThenStarts DEF C7, Starts
  <2>8. Starts(C8(a, d), "Save", "origin_standby", C7(a, d))
    BY <2>7, ThenStarts DEF C8, Starts
  <2>q. QED
    BY <2>1, <2>2, <2>3, <2>4, <2>5, <2>6, <2>7, <2>8
<1>5. Starts(C9(a), "SetStandBy", TRUE, C8(a, C0))
  BY <1>4, ThenStarts, ZenonT(40) DEF C9, Starts, Ends
<1>q. QED
  BY <1>2, <1>3, <1>4, <1>5

LEMMA UpdateLists ==
  /\ Starts(U0, "SetStandBy", FALSE, <<>>)
  /\ Starts(U1, "RestoreStandBy", "tmp", U0)
  /\ \A s \in Settings : /\ Starts(U2(s), "WriteAll", s, U1)
                         /\ Starts(U3(s), "CacheRange", s, U2(s))
  /\ \A w \in Writing : /\ Starts(U4(w), "SetStandBy", TRUE, w)
                        /\ Starts(U5(w), "Save", "tmp", U4(w))
                        /\ Starts(U6(w), "SetStandBy", TRUE, U5(w))
<1>1. Starts(U0, "SetStandBy", FALSE, <<>>)
  BY OneStarts
<1>2. Starts(U1, "RestoreStandBy", "tmp", U0)
  BY <1>1, ThenStarts DEF U1, Starts, Names
<1>3. ASSUME NEW s \in Settings
      PROVE  /\ Starts(U2(s), "WriteAll", s, U1)
             /\ Starts(U3(s), "CacheRange", s, U2(s))
  <2>1. Starts(U2(s), "WriteAll", s, U1)
    BY <1>2, ThenStarts DEF U2, Starts
  <2>q. QED
    BY <2>1, ThenStarts, ZenonT(40) DEF U3, Starts
<1>4. ASSUME NEW w \in Writing
      PROVE  /\ Starts(U4(w), "SetStandBy", TRUE, w)
             /\ Starts(U5(w), "Save", "tmp", U4(w))
             /\ Starts(U6(w), "SetStandBy", TRUE, U5(w))
  <2>1. w \in Seq(Steps)
    BY <1>2, <1>3 DEF Writing, Starts
  <2>2. Starts(U4(w), "SetStandBy", TRUE, w)
    BY <2>1, ThenStarts DEF U4
  <2>3. Starts(U5(w), "Save", "tmp", U4(w))
    BY <2>2, ThenStarts DEF U5, Starts, Names
  <2>q. QED
    BY <2>2, <2>3, ThenStarts, ZenonT(40) DEF U6, Starts
<1>q. QED
  BY <1>1, <1>2, <1>3, <1>4


(* The main thread has come to what is left of a handler: v is what it has   *)
(* set standby to last, q whether the transfers before and the other thread  *)
(* left that alone (Quiet), t the standby value it restores, r the range it  *)
(* remembers, and k says that the update may still misscale a sample.        *)
Place(b, v, q, t, r, k) ==
  \/ b \in Ends
  \/ \E a \in Asked, e \in Ends : b \in {C8(a, e), C7(a, e), C6(a, e), C5(a, e)}
  \/ \E a \in Asked : b = C9(a)
  \/ \E e \in Ends : \/ b \in {C4(e), C3(e), C1(e)}
                     \/ b = C2(e) /\ (q => v)
  \/ \E w \in Writing :
       /\ w = U1 \/ k
       /\ \/ b = U6(w)
          \/ b = U5(w) /\ (q => v)
          \/ b \in {U4(w), w} /\ (q => v /\ t)
  \/ \E s \in Settings : b = U2(s) /\ (q => v /\ t) /\ r = Protected(s.range)
  \/ b = U0 /\ (q => v)

(* The lists a step is the first of.                                        *)
LEMMA PlaceHead ==
  ASSUME NEW b, NEW v, NEW q, NEW t, NEW r, NEW k, Place(b, v, q, t, r, k), b # <<>>
  PROVE  \/ /\ Doing(b) = "Save"
            /\ \/ \E a \in Asked, e \in Ends : b = C8(a, e)
               \/ \E e \in Ends : b = C4(e)
               \/ \E w \in Writing : (w = U1 \/ k) /\ b = U5(w) /\ (q => v)
         \/ /\ Doing(b) = "SetStandBy"
            /\ \/ \E a \in Asked : b = C9(a)
               \/ \E a \in Asked, e \in Ends : b = C7(a, e)
               \/ \E e \in Ends : b = C3(e)
               \/ \E w \in Writing : (w = U1 \/ k) /\ b = U6(w)
               \/ \E w \in Writing : (w = U1 \/ k) /\ b = U4(w) /\ (q => v /\ t)
               \/ b = U0 /\ (q => v)
         \/ /\ Doing(b) = "RestoreStandBy"
            /\ \/ b = C0
               \/ \E e \in Ends : b = C1(e)
               \/ \E a \in Asked, e \in Ends : b = C6(a, e)
               \/ b = U1 /\ (q => v /\ t)
         \/ /\ Doing(b) = "CacheRange"
            /\ \E s \in Settings : b = U3(s) /\ (q => v /\ t) /\ k
         \/ /\ Doing(b) = "WriteAll"
            /\ \E s \in Settings : b = U2(s) /\ (q => v /\ t) /\ r = Protected(s.range)
         \/ /\ Doing(b) = "GetOffSet"
            /\ \E a \in Asked, e \in Ends : b = C5(a, e)
         \/ /\ Doing(b) = "WriteOffSet"
            /\ \E e \in Ends : b = C2(e) /\ (q => v)
<1>1. /\ \A a \in Asked, e \in Ends : /\ Doing(C8(a, e)) = "Save"
                                      /\ Doing(C7(a, e)) = "SetStandBy"
                                      /\ Doing(C6(a, e)) = "RestoreStandBy"
                                      /\ Doing(C5(a, e)) = "GetOffSet"
      /\ \A a \in Asked : Doing(C9(a)) = "SetStandBy"
      /\ \A e \in Ends : /\ Doing(C4(e)) = "Save"
                         /\ Doing(C3(e)) = "SetStandBy"
                         /\ Doing(C2(e)) = "WriteOffSet"
                         /\ Doing(C1(e)) = "RestoreStandBy"
      /\ Doing(C0) = "RestoreStandBy"
  <2>1. NoSamples \in Asked /\ C0 \in Ends
    BY DEF Asked, Ends
  <2>2. ASSUME NEW a \in Asked, NEW e \in Ends
        PROVE  /\ Doing(C8(a, e)) = "Save" /\ Doing(C7(a, e)) = "SetStandBy"
               /\ Doing(C6(a, e)) = "RestoreStandBy" /\ Doing(C5(a, e)) = "GetOffSet"
    BY CalibrationLists, ZenonT(40) DEF Starts
  <2>3. ASSUME NEW a \in Asked
        PROVE  Doing(C9(a)) = "SetStandBy"
    BY <2>1, CalibrationLists, Zenon DEF Starts
  <2>4. ASSUME NEW e \in Ends
        PROVE  /\ Doing(C4(e)) = "Save" /\ Doing(C3(e)) = "SetStandBy"
               /\ Doing(C2(e)) = "WriteOffSet" /\ Doing(C1(e)) = "RestoreStandBy"
    BY <2>1, CalibrationLists, Zenon DEF Starts
  <2>5. Doing(C0) = "RestoreStandBy"
    BY <2>1, CalibrationLists, Zenon DEF Starts
  <2>q. QED
    BY <2>2, <2>3, <2>4, <2>5, Zenon
<1>2. /\ \A w \in Writing : /\ Doing(U6(w)) = "SetStandBy"
                            /\ Doing(U5(w)) = "Save"
                            /\ Doing(U4(w)) = "SetStandBy"
      /\ \A s \in Settings : Doing(U3(s)) = "CacheRange" /\ Doing(U2(s)) = "WriteAll"
      /\ Doing(U1) = "RestoreStandBy"
      /\ Doing(U0) = "SetStandBy"
  BY UpdateLists, Zenon DEF Starts
<1>3. CASE b \in Ends
  BY <1>1, <1>3 DEF Ends
<1>4. CASE \E a \in Asked, e \in Ends : b \in {C8(a, e), C7(a, e), C6(a, e), C5(a, e)}
  BY <1>1, <1>4
<1>5. CASE \E a \in Asked : b = C9(a)
  BY <1>1, <1>5
<1>6. CASE \E e \in Ends : b \in {C4(e), C3(e), C1(e)} \/ (b = C2(e) /\ (q => v))
  BY <1>1, <1>6
<1>7. ASSUME NEW w \in Writing, w = U1 \/ k,
             \/ b = U6(w)
             \/ b = U5(w) /\ (q => v)
             \/ b = U4(w) /\ (q => v /\ t)
      PROVE  \/ Doing(b) = "Save" /\ b = U5(w) /\ (q => v)
             \/ /\ Doing(b) = "SetStandBy"
                /\ b = U6(w) \/ (b = U4(w) /\ (q => v /\ t))
  BY <1>2, <1>7
<1>8. ASSUME NEW w \in Writing, w = U1 \/ k, b = w, q => v /\ t
      PROVE  \/ Doing(b) = "RestoreStandBy" /\ b = U1 /\ (q => v /\ t)
             \/ /\ Doing(b) = "CacheRange"
                /\ \E s \in Settings : b = U3(s) /\ (q => v /\ t) /\ k
  <2>1. CASE w = U1
    BY <1>2, <1>8, <2>1
  <2>2. CASE w # U1
    <3>1. PICK s \in Settings : w = U3(s)
      BY <2>2 DEF Writing
    <3>q. QED
      BY <1>2, <1>8, <2>2, <3>1
  <2>q. QED
    BY <2>1, <2>2
<1>9. CASE \E s \in Settings : b = U2(s) /\ (q => v /\ t) /\ r = Protected(s.range)
  BY <1>2, <1>9
<1>10. CASE b = U0 /\ (q => v)
  BY <1>2, <1>10
<1>q. QED
  BY <1>3, <1>4, <1>5, <1>6, <1>7, <1>8, <1>9, <1>10 DEF Place

(* What is left after a step, and what holds then.  Save: the value to be     *)
(* restored is standby_.                                                    *)
LEMMA PlaceSave ==
  ASSUME NEW b, NEW v, NEW q, NEW t, NEW r, NEW k, Place(b, v, q, t, r, k),
         b # <<>>, Doing(b) = "Save"
  PROVE  /\ With(b) \in Names
         /\ Place(Tail(b), v, q, IF With(b) = "tmp" THEN v ELSE t, r, k)
<1>1. ASSUME NEW a \in Asked, NEW e \in Ends, b = C8(a, e)
      PROVE  With(b) = "origin_standby" /\ Tail(b) = C7(a, e)
  BY <1>1, CalibrationLists, ZenonT(40) DEF Starts
<1>2. ASSUME NEW e \in Ends, b = C4(e)
      PROVE  With(b) = "tmp" /\ Tail(b) = C3(e)
  <2>1. NoSamples \in Asked
    BY DEF Asked
  <2>q. QED
    BY <1>2, <2>1, CalibrationLists, Zenon DEF Starts
<1>3. ASSUME NEW w \in Writing, b = U5(w)
      PROVE  With(b) = "tmp" /\ Tail(b) = U4(w)
  BY <1>3, UpdateLists, Zenon DEF Starts
<1>4. CASE \E a \in Asked, e \in Ends : b = C8(a, e)
  BY <1>1, <1>4 DEF Place, Names
<1>5. CASE \E e \in Ends : b = C4(e)
  BY <1>2, <1>5 DEF Place, Names
<1>6. CASE \E w \in Writing : (w = U1 \/ k) /\ b = U5(w) /\ (q => v)
  BY <1>3, <1>6 DEF Place, Names
<1>q. QED
  BY <1>4, <1>5, <1>6, PlaceHead

(* SetStandBy: once it has set standby to w, the place needs no more.         *)
LEMMA PlaceStandBy ==
  ASSUME NEW b, NEW v, NEW q, NEW t, NEW r, NEW k, Place(b, v, q, t, r, k),
         b # <<>>, NEW w,
         \/ Doing(b) = "SetStandBy" /\ w = With(b)
         \/ Doing(b) = "RestoreStandBy" /\ (With(b) = "tmp" => w = t)
  PROVE  /\ Doing(b) = "SetStandBy" => With(b) \in BOOLEAN
         /\ Doing(b) = "RestoreStandBy" => With(b) \in Names
         /\ Place(Tail(b), w, q, t, r, k)
<1>1. NoSamples \in Asked /\ C0 \in Ends /\ <<>> \in Ends /\ Names = {"origin", "origin_standby", "tmp"}
  BY DEF Asked, Ends, Names
<1>2. ASSUME NEW a \in Asked, b = C9(a)
      PROVE  With(b) = TRUE /\ Tail(b) = C8(a, C0)
  BY <1>1, <1>2, CalibrationLists, Zenon DEF Starts
<1>3. ASSUME NEW a \in Asked, NEW e \in Ends, b = C7(a, e)
      PROVE  With(b) = FALSE /\ Tail(b) = C6(a, e)
  BY <1>3, CalibrationLists, ZenonT(40) DEF Starts
<1>4. ASSUME NEW e \in Ends, b = C3(e)
      PROVE  With(b) = TRUE /\ Tail(b) = C2(e)
  BY <1>1, <1>4, CalibrationLists, ZenonT(40) DEF Starts
<1>5. ASSUME NEW u \in Writing
      PROVE  /\ b = U6(u) => With(b) = TRUE /\ Tail(b) = U5(u)
             /\ b = U4(u) => With(b) = TRUE /\ Tail(b) = u
  <2>1. /\ With(U6(u)) = TRUE /\ Tail(U6(u)) = U5(u)
        /\ With(U4(u)) = TRUE /\ Tail(U4(u)) = u
    BY UpdateLists, Zenon DEF Starts
  <2>q. QED
    BY <2>1, Zenon
<1>6. /\ b = U0 => With(b) = FALSE /\ Tail(b) = <<>>
      /\ b = U1 => With(b) = "tmp" /\ Tail(b) = U0
  BY UpdateLists, Zenon DEF Starts
<1>7. b = C0 => With(b) = "origin" /\ Tail(b) = <<>>
  BY <1>1, CalibrationLists, Zenon DEF Starts
<1>8. ASSUME NEW e \in Ends, b = C1(e)
      PROVE  With(b) = "tmp" /\ Tail(b) = e
  BY <1>1, <1>8, CalibrationLists, Zenon DEF Starts
<1>9. ASSUME NEW a \in Asked, NEW e \in Ends, b = C6(a, e)
      PROVE  With(b) = "origin_standby" /\ Tail(b) = C5(a, e)
  BY <1>9, CalibrationLists, ZenonT(40) DEF Starts
<1>10. CASE Doing(b) = "SetStandBy"
  <2>1. CASE \E a \in Asked : b = C9(a)
    BY <1>10, <2>1, <1>1, <1>2 DEF Place
  <2>2. CASE \E a \in Asked, e \in Ends : b = C7(a, e)
    BY <1>10, <2>2, <1>3 DEF Place
  <2>3. CASE \E e \in Ends : b = C3(e)
    BY <1>10, <2>3, <1>4 DEF Place
  <2>4. CASE \E u \in Writing : (u = U1 \/ k) /\ b = U6(u)
    BY <1>10, <2>4, <1>5 DEF Place
  <2>5. CASE \E u \in Writing : (u = U1 \/ k) /\ b = U4(u) /\ (q => v /\ t)
    BY <1>10, <2>5, <1>5 DEF Place
  <2>6. CASE b = U0
    BY <1>10, <2>6, <1>6, <1>1 DEF Place
  <2>q. QED
    BY <1>10, <2>1, <2>2, <2>3, <2>4, <2>5, <2>6, PlaceHead
<1>11. CASE Doing(b) = "RestoreStandBy"
  <2>1. CASE b = C0
    BY <1>11, <2>1, <1>1, <1>7 DEF Place
  <2>2. CASE \E e \in Ends : b = C1(e)
    BY <1>11, <2>2, <1>1, <1>8 DEF Place
  <2>3. CASE \E a \in Asked, e \in Ends : b = C6(a, e)
    BY <1>11, <2>3, <1>1, <1>9 DEF Place
  <2>4. CASE b = U1 /\ (q => v /\ t)
    BY <1>11, <2>4, <1>1, <1>6 DEF Place
  <2>q. QED
    BY <1>11, <2>1, <2>2, <2>3, <2>4, PlaceHead
<1>q. QED
  BY <1>10, <1>11


(* The steps that write POWER_CTL, from P3 on, and what is left after them.   *)
P1(v, rest) == Then(Step("PowerCache", v), rest)
P2(v, rest) == Then(Step("PowerWrite", v), rest)
P3(v, rest) == Then(Step("PowerRead", Nothing), P2(v, rest))

LEMMA PowerLists ==
  ASSUME NEW v \in BOOLEAN, NEW rest \in Seq(Steps)
  PROVE  /\ Starts(P1(v, rest), "PowerCache", v, rest)
         /\ Starts(P2(v, rest), "PowerWrite", v, rest)
         /\ Starts(P3(v, rest), "PowerRead", Nothing, P2(v, rest))
<1>1. ASSUME NEW x \in Steps, NEW b \in Seq(Steps)
      PROVE  Starts(Then(x, b), x.do, x.arg, b)
  BY DEF Then, Starts, Doing, With
<1>2. ASSUME NEW o, NEW a, Step(o, a) \in Steps, NEW b \in Seq(Steps)
      PROVE  Starts(Then(Step(o, a), b), o, a, b)
  <2>1. Step(o, a).do = o /\ Step(o, a).arg = a
    BY DEF Step
  <2>2. Starts(Then(Step(o, a), b), Step(o, a).do, Step(o, a).arg, b)
    BY <1>1, <1>2, Zenon
  <2>q. QED
    BY <2>1, <2>2, Zenon
<1>3. Starts(P2(v, rest), "PowerWrite", v, rest)
  BY <1>2, StepsAre, Zenon DEF P2
<1>4. P2(v, rest) \in Seq(Steps)
  BY <1>3 DEF Starts
<1>5. Step("PowerCache", v) \in Steps /\ Step("PowerRead", Nothing) \in Steps
  BY StepsAre, Zenon
<1>q. QED
  BY <1>2, <1>3, <1>4, <1>5, Zenon DEF P1, P3

(* What a tuple of steps is in front of.                                     *)
LEMMA ConcatThen ==
  ASSUME NEW h \in Steps, NEW s \in Seq(Steps), NEW b \in Seq(Steps)
  PROVE  Then(h, s) \o b = Then(h, s \o b)
<1> DEFINE o == <<h>>
<1>1. o \in Seq(Steps)
  OBVIOUS
<1> HIDE DEF o
<1>2. (o \o s) \o b = o \o (s \o b)
  BY <1>1, ConcatAssociative, SMTT(40)
<1>q. QED
  BY <1>1, <1>2 DEF Then, o

LEMMA Tuple2 ==
  ASSUME NEW b \in Seq(Steps), NEW u \in Steps, NEW v \in Steps
  PROVE  <<u, v>> \o b = Then(u, Then(v, b))
<1> DEFINE t1 == <<v>>
           t2 == <<u, v>>
<1>1. /\ Len(t2) = 2 /\ Len(Then(u, t1)) = 2
      /\ t1 \in Seq(Steps) /\ t2 \in Seq(Steps) /\ Then(u, t1) \in Seq(Steps)
  BY DEF Then
<1>2. Then(u, t1)[1] = u /\ Then(u, t1)[2] = v
  BY DEF Then
<1>3. \A i \in 1 .. 2 : t2[i] = Then(u, t1)[i]
  BY <1>2
<1>4. t1 \o b = Then(v, b)
  BY DEF Then
<1> HIDE DEF t2, t1
<1>5. t2 = Then(u, t1)
  BY <1>1, <1>3, SeqEqual, Zenon
<1>6. t2 \o b = Then(u, t1 \o b)
  BY <1>1, <1>5, ConcatThen, ZenonT(40)
<1>q. QED
  BY <1>4, <1>6, Zenon DEF t2

LEMMA Tuple3 ==
  ASSUME NEW b \in Seq(Steps), NEW z \in Steps, NEW u \in Steps, NEW v \in Steps
  PROVE  <<z, u, v>> \o b = Then(z, Then(u, Then(v, b)))
<1> DEFINE t2 == <<u, v>>
           t3 == <<z, u, v>>
<1>1. t2 \in Seq(Steps) /\ t3 = Then(z, t2)
  BY DEF Then
<1>2. t2 \o b = Then(u, Then(v, b))
  BY Tuple2
<1> HIDE DEF t2, t3
<1>3. t3 \o b = Then(z, t2 \o b)
  BY <1>1, ConcatThen
<1>q. QED
  BY <1>2, <1>3, Zenon DEF t3

LEMMA Tuple4 ==
  ASSUME NEW b \in Seq(Steps), NEW y \in Steps, NEW z \in Steps,
         NEW u \in Steps, NEW v \in Steps
  PROVE  <<y, z, u, v>> \o b = Then(y, Then(z, Then(u, Then(v, b))))
<1> DEFINE t3 == <<z, u, v>>
           t4 == <<y, z, u, v>>
<1>1. t3 \in Seq(Steps) /\ t4 = Then(y, t3)
  BY DEF Then
<1>2. t3 \o b = Then(z, Then(u, Then(v, b)))
  BY Tuple3
<1> HIDE DEF t3, t4
<1>3. t4 \o b = Then(y, t3 \o b)
  BY <1>1, ConcatThen
<1>q. QED
  BY <1>2, <1>3, Zenon DEF t4

LEMMA PowerListIs ==
  ASSUME NEW v \in BOOLEAN, NEW rest \in Seq(Steps)
  PROVE  /\ <<Step("PowerRead", Nothing), Step("PowerWrite", v)>> \o rest = P3(v, rest)
         /\ <<Step("PowerCache", v)>> \o rest = P1(v, rest)
<1>1. Step("PowerRead", Nothing) \in Steps /\ Step("PowerWrite", v) \in Steps
  BY StepsAre, Zenon
<1>2. <<Step("PowerRead", Nothing), Step("PowerWrite", v)>> \o rest
        = Then(Step("PowerRead", Nothing), Then(Step("PowerWrite", v), rest))
  BY <1>1, Tuple2
<1>q. QED
  BY <1>2, Zenon DEF P1, P2, P3, Then

(* The handlers' lists are those named here.                                *)
LEMMA ListsAre ==
  /\ \A a \in Asked : /\ RunCalibration(a) = C8(a, <<>>)
                      /\ <<StandBy(TRUE)>> \o RunCalibration(a) \o <<Restore("origin")>>
                           = C9(a)
  /\ \A s \in Settings :
       <<StandBy(TRUE)>> \o UpdateAllReg(s) \o <<StandBy(FALSE)>> = U6(U3(s))
  /\ <<StandBy(TRUE)>> \o UpdateNothing \o <<StandBy(FALSE)>> = U6(U1)
<1>1. C0 \in Seq(Steps) /\ U0 \in Seq(Steps) /\ <<>> \in Seq(Steps)
  BY OneStarts DEF Starts
<1>2. ASSUME NEW h \in Steps, NEW s \in Seq(Steps), NEW b \in Seq(Steps)
      PROVE  (<<h>> \o s) \o b = Then(h, s \o b)
  <2>1. Then(h, s) \o b = Then(h, s \o b)
    BY ConcatThen, Zenon
  <2>q. QED
    BY <2>1, Zenon DEF Then
<1>3. /\ StandBy(TRUE) \in Steps /\ StandBy(FALSE) \in Steps
      /\ Save("tmp") \in Steps /\ Restore("tmp") \in Steps
      /\ Save("origin_standby") \in Steps /\ Restore("origin_standby") \in Steps
      /\ Step("WriteOffSet", Nothing) \in Steps
      /\ \A a \in Asked : Step("GetOffSet", a) \in Steps
      /\ \A s \in Settings : Step("CacheRange", s) \in Steps /\ Step("WriteAll", s) \in Steps
  BY StepsAre DEF Names
<1>4. SetOffSet \in Seq(Steps) /\ SetOffSet \o <<>> = SetOffSet
  <2> DEFINE x == Save("tmp")
             y == StandBy(TRUE)
             z == Step("WriteOffSet", Nothing)
             u == Restore("tmp")
  <2>1. x \in Steps /\ y \in Steps /\ z \in Steps /\ u \in Steps
    BY <1>3
  <2> HIDE DEF x, y, z, u
  <2>2. <<x, y, z, u>> \in Seq(Steps) /\ <<x, y, z, u>> \o <<>> = <<x, y, z, u>>
    BY <2>1
  <2>q. QED
    BY <2>2, Zenon DEF SetOffSet, x, y, z, u
<1>5. ASSUME NEW e \in Seq(Steps)
      PROVE  SetOffSet \o e = C4(e)
  <2> DEFINE y == Save("tmp")
             z == StandBy(TRUE)
             u == Step("WriteOffSet", Nothing)
             v == Restore("tmp")
  <2>1. y \in Steps /\ z \in Steps /\ u \in Steps /\ v \in Steps
    BY <1>3
  <2> HIDE DEF y, z, u, v
  <2>2. <<y, z, u, v>> \o e = Then(y, Then(z, Then(u, Then(v, e))))
    BY <2>1, Tuple4
  <2>q. QED
    BY <2>2, Zenon DEF SetOffSet, C4, C3, C2, C1, y, z, u, v
<1>6. ASSUME NEW a \in Asked
      PROVE  /\ RunCalibration(a) \in Seq(Steps)
             /\ RunCalibration(a) = C8(a, <<>>)
             /\ RunCalibration(a) \o C0 = C8(a, C0)
  <2> DEFINE y == Save("origin_standby")
             z == StandBy(FALSE)
             u == Restore("origin_standby")
             v == Step("GetOffSet", a)
             t == <<y, z, u, v>>
             o == SetOffSet
  <2>1. y \in Steps /\ z \in Steps /\ u \in Steps /\ v \in Steps
    BY <1>3
  <2> HIDE DEF y, z, u, v
  <2>2. t \in Seq(Steps)
    BY <2>1
  <2>3. \A b \in Seq(Steps) : t \o b = Then(y, Then(z, Then(u, Then(v, b))))
    BY <2>1, Tuple4
  <2> HIDE DEF t, o
  <2>4. o \in Seq(Steps) /\ o \o <<>> = C4(<<>>) /\ o \o <<>> = o /\ o \o C0 = C4(C0)
    BY <1>1, <1>4, <1>5 DEF o
  <2>5. t \o o \in Seq(Steps) /\ (t \o o) \o C0 = t \o (o \o C0)
    <3>1. ASSUME NEW p \in Seq(Steps), NEW q \in Seq(Steps), NEW r \in Seq(Steps)
          PROVE  (p \o q) \o r = p \o (q \o r)
      BY ConcatAssociative, SMTT(30)
    <3>2. (t \o o) \o C0 = t \o (o \o C0)
      BY <2>2, <2>4, <1>1, <3>1, Zenon
    <3>q. QED
      BY <2>2, <2>4, <3>2, ConcatProperties, Zenon
  <2>6. o \o C0 \in Seq(Steps)
    BY <1>1, <2>4, ConcatProperties, Zenon
  <2>7. /\ t \o o = Then(y, Then(z, Then(u, Then(v, C4(<<>>)))))
        /\ t \o (o \o C0) = Then(y, Then(z, Then(u, Then(v, C4(C0)))))
    BY <2>3, <2>4, <2>6
  <2>q. QED
    BY <2>5, <2>7, Zenon DEF RunCalibration, C8, C7, C6, C5, t, o, y, z, u, v
<1>7. ASSUME NEW a \in Asked
      PROVE  <<StandBy(TRUE)>> \o RunCalibration(a) \o <<Restore("origin")>> = C9(a)
  <2>1. (<<StandBy(TRUE)>> \o RunCalibration(a)) \o C0
          = Then(StandBy(TRUE), RunCalibration(a) \o C0)
    <3>1. StandBy(TRUE) \in Steps /\ RunCalibration(a) \in Seq(Steps) /\ C0 \in Seq(Steps)
      BY <1>1, <1>3, <1>6
    <3>q. QED
      BY <1>2, <3>1, Zenon
  <2>q. QED
    BY <1>6, <2>1, Zenon DEF C9, C0
<1>8. ASSUME NEW s \in Settings
      PROVE  <<StandBy(TRUE)>> \o UpdateAllReg(s) \o <<StandBy(FALSE)>> = U6(U3(s))
  <2> DEFINE x == Save("tmp")
             y == StandBy(TRUE)
             z == Step("CacheRange", s)
             u == Step("WriteAll", s)
             v == Restore("tmp")
             t == <<x, y, z, u, v>>
  <2>1. x \in Steps /\ y \in Steps /\ z \in Steps /\ u \in Steps /\ v \in Steps
    BY <1>3
  <2> HIDE DEF x, y, z, u, v
  <2>2. t \in Seq(Steps)
    BY <2>1
  <2>3. t \o U0 = Then(x, Then(y, Then(z, Then(u, Then(v, U0)))))
    <3> DEFINE w == <<y, z, u, v>>
    <3>1. w \in Seq(Steps) /\ t = Then(x, w)
      BY <2>1 DEF Then
    <3>2. w \o U0 = Then(y, Then(z, Then(u, Then(v, U0))))
      BY <1>1, <2>1, Tuple4
    <3> HIDE DEF t, w
    <3>3. Then(x, w) \o U0 = Then(x, w \o U0)
      <4>1. x \in Steps /\ w \in Seq(Steps) /\ U0 \in Seq(Steps)
        BY <1>1, <2>1, <3>1
      <4>q. QED
        BY <4>1, ConcatThen, Zenon
    <3>q. QED
      BY <3>1, <3>2, <3>3, Zenon
  <2> HIDE DEF t
  <2>4. (<<StandBy(TRUE)>> \o t) \o U0 = Then(StandBy(TRUE), t \o U0)
    <3>1. StandBy(TRUE) \in Steps /\ t \in Seq(Steps) /\ U0 \in Seq(Steps)
      BY <1>1, <1>3, <2>2
    <3>q. QED
      BY <1>2, <3>1, Zenon
  <2>q. QED
    BY <2>3, <2>4, Zenon
    DEF UpdateAllReg, U6, U5, U4, U3, U2, U1, U0, t, x, y, z, u, v
<1>9. <<StandBy(TRUE)>> \o UpdateNothing \o <<StandBy(FALSE)>> = U6(U1)
  <2> DEFINE z == Save("tmp")
             u == StandBy(TRUE)
             v == Restore("tmp")
             t == <<z, u, v>>
  <2>1. z \in Steps /\ u \in Steps /\ v \in Steps
    BY <1>3
  <2> HIDE DEF z, u, v
  <2>2. t \in Seq(Steps)
    BY <2>1
  <2>3. t \o U0 = Then(z, Then(u, Then(v, U0)))
    BY <1>1, <2>1, Tuple3
  <2> HIDE DEF t
  <2>4. (<<StandBy(TRUE)>> \o t) \o U0 = Then(StandBy(TRUE), t \o U0)
    <3>1. StandBy(TRUE) \in Steps /\ t \in Seq(Steps) /\ U0 \in Seq(Steps)
      BY <1>1, <1>3, <2>2
    <3>q. QED
      BY <1>2, <3>1, Zenon
  <2>q. QED
    BY <2>3, <2>4, Zenon DEF UpdateNothing, U6, U5, U4, U1, U0, t, z, u, v
<1>q. QED
  BY <1>6, <1>7, <1>8, <1>9, Zenon


(* CacheRange: the range remembered is the one the transfer is to write, and  *)
(* the allowance for one more sample is used.                               *)
LEMMA PlaceRange ==
  ASSUME NEW b, NEW v, NEW q, NEW t, NEW r, NEW k, Place(b, v, q, t, r, k),
         b # <<>>, Doing(b) = "CacheRange", NEW k2
  PROVE  /\ With(b) \in Settings
         /\ k
         /\ Tail(b) # <<>> /\ Doing(Tail(b)) = "WriteAll"
         /\ Place(Tail(b), v, q, t, Protected(With(b).range), k2)
<1>1. PICK s \in Settings : b = U3(s) /\ (q => v /\ t) /\ k
  BY PlaceHead
<1>2. With(b) = s /\ Tail(b) = U2(s) /\ U2(s) # <<>> /\ Doing(U2(s)) = "WriteAll"
  BY <1>1, UpdateLists, Zenon DEF Starts
<1>q. QED
  BY <1>1, <1>2 DEF Place

(* WriteAll: it writes the range that is remembered, in standby.             *)
LEMMA PlaceWriteAll ==
  ASSUME NEW b, NEW v, NEW q, NEW t, NEW r, NEW k, Place(b, v, q, t, r, k),
         b # <<>>, Doing(b) = "WriteAll"
  PROVE  /\ With(b) \in Settings
         /\ q => v
         /\ r = Protected(With(b).range)
         /\ Tail(b) = U1
         /\ Place(Tail(b), v, q, t, r, k)
<1>1. PICK s \in Settings : b = U2(s) /\ (q => v /\ t) /\ r = Protected(s.range)
  BY PlaceHead
<1>2. With(b) = s /\ Tail(b) = U1
  BY <1>1, UpdateLists, ZenonT(40) DEF Starts
<1>3. U1 \in Writing
  BY DEF Writing
<1>q. QED
  BY <1>1, <1>2, <1>3 DEF Place

LEMMA PlaceOffSet ==
  ASSUME NEW b, NEW v, NEW q, NEW t, NEW r, NEW k, Place(b, v, q, t, r, k), b # <<>>
  PROVE  /\ Doing(b) = "GetOffSet" => With(b) \in Asked /\ Place(Tail(b), v, q, t, r, k)
         /\ Doing(b) = "WriteOffSet" => (q => v) /\ Place(Tail(b), v, q, t, r, k)
<1>1. ASSUME NEW a \in Asked, NEW e \in Ends, b = C5(a, e)
      PROVE  With(b) = a /\ Tail(b) = C4(e)
  BY <1>1, CalibrationLists, Zenon DEF Starts
<1>2. ASSUME NEW e \in Ends, b = C2(e)
      PROVE  Tail(b) = C1(e)
  <2>1. NoSamples \in Asked
    BY DEF Asked
  <2>q. QED
    BY <1>2, <2>1, CalibrationLists, Zenon DEF Starts
<1>3. CASE \E a \in Asked, e \in Ends : Doing(b) = "GetOffSet" /\ b = C5(a, e)
  BY <1>1, <1>3 DEF Place
<1>4. CASE \E e \in Ends : Doing(b) = "WriteOffSet" /\ b = C2(e) /\ (q => v)
  BY <1>2, <1>4 DEF Place
<1>q. QED
  BY <1>3, <1>4, PlaceHead

LEMMA PlaceDoes ==
  ASSUME NEW b, NEW v, NEW q, NEW t, NEW r, NEW k, Place(b, v, q, t, r, k), b # <<>>
  PROVE  /\ Doing(b) \in {"Save", "SetStandBy", "RestoreStandBy", "CacheRange", "WriteAll",
                          "GetOffSet", "WriteOffSet"}
         /\ Doing(b) = "WriteAll" => (q => v)
BY PlaceHead

(* Where the handlers begin.                                                *)
LEMMA PlaceBegins ==
  ASSUME NEW v, NEW q, NEW t, NEW r, NEW k
  PROVE  /\ Place(<<>>, v, q, t, r, k)
         /\ \A a \in Asked : Place(C8(a, <<>>), v, q, t, r, k) /\ Place(C9(a), v, q, t, r, k)
         /\ \A w \in Writing : k => Place(U6(w), v, q, t, r, k)
<1>1. <<>> \in Ends
  BY DEF Ends
<1>q. QED
  BY <1>1 DEF Place


----------------------------------------------------------------------------
(* Types                                                                    *)

TypeInv ==
  /\ TypeOK
  /\ todo \in [{"main", "control"} -> Seq(Steps)]
  /\ acc \in Int \cup {NoSamples}
  /\ updates <= IF handlers < 0 THEN 0 ELSE handlers

LEMMA StepTypes ==
  ASSUME NEW b \in Seq(Steps), b # <<>>
  PROVE  /\ Tail(b) \in Seq(Steps)
         /\ Doing(b) \in {"SetStandBy", "PowerWrite", "PowerCache"} => With(b) \in BOOLEAN
         /\ Doing(b) \in {"Save", "RestoreStandBy"} => With(b) \in Names
         /\ Doing(b) \in {"CacheRange", "WriteAll"} => With(b) \in Settings
         /\ Doing(b) = "GetOffSet" => With(b) \in Asked
<1>1. Head(b) \in Steps /\ Tail(b) \in Seq(Steps)
  OBVIOUS
<1>2. ASSUME NEW x \in Steps
      PROVE  /\ x.do \in {"SetStandBy", "PowerWrite", "PowerCache"} => x.arg \in BOOLEAN
             /\ x.do \in {"Save", "RestoreStandBy"} => x.arg \in Names
             /\ x.do \in {"CacheRange", "WriteAll"} => x.arg \in Settings
             /\ x.do = "GetOffSet" => x.arg \in Asked
  BY DEF Steps
<1>q. QED
  BY <1>1, <1>2 DEF Doing, With

LEMMA AtIs ==
  ASSUME TypeInv, NEW t \in {"main", "control"}
  PROVE  /\ todo[t] \in Seq(Steps)
         /\ \A do : At(t, do) <=> todo[t] # <<>> /\ Doing(todo[t]) = do
         /\ Arg(t) = With(todo[t]) /\ Rest(t) = Tail(todo[t])
BY DEF TypeInv, At, Arg, Rest, Doing, With

(* What being in an interval says, for bounds the provers need not look at,  *)
(* and what it says of a register.                                          *)
LEMMA Between ==
  ASSUME NEW lo \in Int, NEW hi \in Int, NEW m
  PROVE  m \in lo .. hi <=> m \in Int /\ lo <= m /\ m <= hi
OBVIOUS

LEMMA Int16Is ==
  ASSUME NEW m
  PROVE  m \in Int16 <=> m \in Int /\ -32768 <= m /\ m <= 32767
<1> DEFINE lo == -32768
           hi == 32767
<1>1. lo \in Int /\ hi \in Int
  OBVIOUS
<1>2. Int16 = lo .. hi
  BY DEF Int16, lo, hi
<1> HIDE DEF lo, hi
<1>3. m \in Int16 <=> m \in Int /\ lo <= m /\ m <= hi
  BY <1>1, <1>2, Between, Zenon
<1>q. QED
  BY <1>3 DEF lo, hi

LEMMA ZeroFits ==
  0 \in Int16 /\ Int16 \subseteq Int
BY Int16Is

(* The conversions stay within their types.                                 *)
LEMMA Converted ==
  ASSUME NEW r \in 1 .. 3
  PROVE  /\ Scale(r) \in {1, 2, 4}
         /\ \A n \in Int : FromRegister(n, r) \in Int
         /\ \A a \in Int : Rounded(a, Scale(r)) \in Int
         /\ \A a \in Int \cup {NoSamples} : ToRegister(a, r) \in Int16
<1>1. Scale(r) \in {1, 2, 4}
  BY DEF Scale
<1>2. \A n \in Int : FromRegister(n, r) \in Int
  BY <1>1 DEF FromRegister
<1>3. ASSUME NEW a \in Int
      PROVE  Rounded(a, Scale(r)) \in Int
  <2>1. CASE Scale(r) = 1
    BY <2>1 DEF Rounded
  <2>2. CASE Scale(r) = 2
    BY <2>2 DEF Rounded
  <2>3. CASE Scale(r) = 4
    BY <2>3 DEF Rounded
  <2>q. QED
    BY <1>1, <2>1, <2>2, <2>3
<1>4. ASSUME NEW n \in Int
      PROVE  ToInt16(n) \in Int16
  <2> DEFINE m == (n + 32768) % 65536
  <2>1. m \in Int /\ 0 <= m /\ m < 65536
    BY <1>4
  <2> HIDE DEF m
  <2>2. m - 32768 \in Int /\ -32768 <= m - 32768 /\ m - 32768 <= 32767
    BY <2>1
  <2>3. ToInt16(n) = m - 32768
    BY DEF ToInt16, m
  <2>q. QED
    BY <2>2, <2>3, Int16Is
<1>5. ASSUME NEW a \in Int \cup {NoSamples}
      PROVE  ToRegister(a, r) \in Int16
  <2> DEFINE n == Rounded(a, Scale(r))
  <2>1. CASE a = NoSamples
    BY <2>1, ZeroFits, Zenon DEF ToRegister
  <2>2. CASE a # NoSamples
    <3>1. n \in Int
      BY <1>3, <2>2
    <3>2. ToRegister(a, r) = ToInt16(n)
      BY <2>2 DEF ToRegister
    <3> HIDE DEF n
    <3>3. ToInt16(n) \in Int16
      BY <1>4, <3>1, Zenon
    <3>q. QED
      BY <3>2, <3>3, Zenon
  <2>q. QED
    BY <2>1, <2>2, Zenon
<1>q. QED
  BY <1>1, <1>2, <1>3, <1>5, Zenon

LEMMA Changed ==
  ASSUME TypeInv, NEW t \in {"main", "control"}, NEW steps \in Seq(Steps),
         Continue(t, steps)
  PROVE  /\ todo' \in [{"main", "control"} -> Seq(Steps)]
         /\ todo'[t] = steps
         /\ \A u \in {"main", "control"} : u # t => todo'[u] = todo[u]
BY DEF Continue, TypeInv

LEMMA FailsIs ==
  ASSUME TypeInv, NEW kind \in Kinds, Fails(kind)
  PROVE  failed' = failed \cup {kind} /\ failed' \subseteq Kinds
BY DEF Fails, TypeInv, TypeOK


Threads == {"main", "control"}

LEMMA Advance ==
  ASSUME TypeInv, NEW t \in Threads, todo[t] # <<>>, Continue(t, Rest(t))
  PROVE  /\ todo' \in [Threads -> Seq(Steps)]
         /\ todo'[t] = Tail(todo[t])
         /\ \A u \in Threads : u # t => todo'[u] = todo[u]
<1>1. Rest(t) = Tail(todo[t]) /\ Rest(t) \in Seq(Steps)
  BY AtIs, StepTypes DEF Threads
<1>q. QED
  BY <1>1, Changed DEF Threads

LEMMA Initially ==
  Init => TypeInv
<1>1. <<>> \in Seq(Steps)
  OBVIOUS
<1>2. 0 \in Int16
  BY ZeroFits
<1>3. MaxHandlers \in Nat
  BY RegistersAssumption
<1>4. ASSUME Init
      PROVE  /\ chip \in [range : 0 .. 3, standby : BOOLEAN, offset : Int16]
             /\ data \in 0 .. 3
    BY <1>2, <1>4 DEF Init
<1>5. ASSUME Init
      PROVE  /\ todo \in [{"main", "control"} -> Seq(Steps)]
             /\ saved \in [{"origin", "origin_standby", "tmp"} -> BOOLEAN]
  <2>1. saved \in [origin : BOOLEAN, origin_standby : BOOLEAN, tmp : BOOLEAN]
    BY <1>5 DEF Init
  <2>q. QED
    BY <1>1, <1>5, <2>1 DEF Init
<1>6. ASSUME Init
      PROVE  /\ new_acc_data_ \in BOOLEAN /\ standby_ \in BOOLEAN
             /\ on_modify \in BOOLEAN /\ on_calibration \in BOOLEAN
             /\ unprotected \in BOOLEAN /\ interfered \in BOOLEAN
             /\ was_reset \in {"never", "last", "earlier"}
             /\ measure \in {"wait", "parse", "clear"}
             /\ raw \in 0 .. 3 \/ raw = Nothing
             /\ failed \subseteq Kinds
  BY <1>6, Zenon DEF Init
<1>7. ASSUME Init
      PROVE  /\ range_ \in 1 .. 3
             /\ handlers \in -1 .. MaxHandlers /\ updates \in 0 .. MaxHandlers
             /\ misscaled \in 0 .. MaxHandlers + 1
             /\ acc \in Int /\ updates <= IF handlers < 0 THEN 0 ELSE handlers
  <2>1. range_ = 2 /\ handlers = -1 /\ updates = 0 /\ misscaled = 0 /\ acc = 0
    BY <1>7, Zenon DEF Init
  <2>q. QED
    BY <1>3, <2>1
<1>q. QED
  BY <1>4, <1>5, <1>6, <1>7 DEF TypeInv, TypeOK

LEMMA TypesKept ==
  TypeInv /\ [Next]_vars => TypeInv'
<1> SUFFICES ASSUME TypeInv, [Next]_vars
             PROVE  TypeInv'
  OBVIOUS
<1>0. /\ MaxHandlers \in Nat /\ Averages \subseteq Int /\ 0 \in Int16 /\ Int16 \subseteq Int
      /\ Settings \subseteq [range : 0 .. 3, standby : BOOLEAN, offset : Int16,
                             reset : BOOLEAN]
  <2>q. QED
    BY ZeroFits, RegistersAssumption
<1> USE <1>0
<1>1. ASSUME NEW avg \in Asked, Boot(avg)
      PROVE  TypeInv'
  <2>1. RunCalibration(avg) \in Seq(Steps)
    <3>1. <<>> \in Ends
      BY DEF Ends
    <3>2. C8(avg, <<>>) \in Seq(Steps)
      BY <3>1, CalibrationLists, Zenon DEF Starts
    <3>q. QED
      BY <3>2, ListsAre, Zenon
  <2>2. todo' \in [Threads -> Seq(Steps)]
    BY <1>1, <2>1, Changed, Zenon DEF Boot, Threads
  <2>3. failed' \subseteq Kinds
    BY <1>1, FailsIs DEF Boot, Kinds, TypeInv, TypeOK
  <2>4. chip' \in [range : 0 .. 3, standby : BOOLEAN, offset : Int16]
    <3>1. PICK cleared \in BOOLEAN, ranged \in BOOLEAN :
            LET registers == IF cleared THEN Fresh ELSE chip
            IN  chip' = IF ranged THEN [registers EXCEPT !.range = 2] ELSE registers
      BY <1>1 DEF Boot
    <3>2. chip \in [range : 0 .. 3, standby : BOOLEAN, offset : Int16]
      BY DEF TypeInv, TypeOK
    <3> DEFINE registers == IF cleared THEN Fresh ELSE chip
    <3>3. registers \in [range : 0 .. 3, standby : BOOLEAN, offset : Int16]
      BY <3>2 DEF Fresh
    <3>4. chip' = IF ranged THEN [registers EXCEPT !.range = 2] ELSE registers
      BY <3>1
    <3> HIDE DEF registers
    <3>q. QED
      BY <3>3, <3>4
  <2>q. QED
    BY <1>1, <2>2, <2>3, <2>4
    DEF Boot, TypeInv, TypeOK, Threads, sampling, locals, flags, ghosts
<1>2. ASSUME NEW avg \in Asked, CalibrationRequire(avg)
      PROVE  TypeInv'
  <2>1. C9(avg) \in Seq(Steps)
    <3>1. <<>> \in Ends
      BY DEF Ends
    <3>q. QED
      BY <3>1, CalibrationLists, Zenon DEF Starts
  <2>2. Continue("main", C9(avg))
    BY <1>2, ListsAre, Zenon DEF CalibrationRequire
  <2>3. todo' \in [Threads -> Seq(Steps)]
    BY <2>1, <2>2, Changed, Zenon DEF Threads
  <2>4. saved' \in [{"origin", "origin_standby", "tmp"} -> BOOLEAN]
    BY <1>2 DEF CalibrationRequire, TypeInv, TypeOK
  <2>5. interfered' \in BOOLEAN
    BY <1>2, Zenon DEF CalibrationRequire, Begin
  <2>q. QED
    BY <1>2, <2>3, <2>4, <2>5, SMTT(30)
    DEF CalibrationRequire, Begin, TypeInv, TypeOK, Threads, sampling, ghosts
<1>3. ASSUME NEW s \in Settings, RegAllUpdate(s)
      PROVE  TypeInv'
  <2>1. U6(U3(s)) \in Seq(Steps) /\ U6(U1) \in Seq(Steps)
    BY UpdateLists DEF Starts, Writing
  <2>2. Continue("main", U6(U3(s))) \/ Continue("main", U6(U1))
    BY <1>3, ListsAre, Zenon DEF RegAllUpdate
  <2>3. todo' \in [Threads -> Seq(Steps)]
    BY <2>1, <2>2, Changed, Zenon DEF Threads
  <2>q. QED
    BY <1>3, <2>3 DEF RegAllUpdate, Begin, TypeInv, TypeOK, Threads, sampling, locals, ghosts
<1>4. CASE End
  BY <1>4, ZenonT(40) DEF End, TypeInv, TypeOK, sampling, locals, counts, ghosts
<1>5. CASE SaveStandBy
  <2>1. todo["main"] # <<>> /\ Arg("main") \in Names /\ todo' \in [Threads -> Seq(Steps)]
    BY <1>5, AtIs, StepTypes, Advance DEF SaveStandBy, Threads
  <2>q. QED
    BY <1>5, <2>1
    DEF SaveStandBy, TypeInv, TypeOK, Threads, Names, sampling, flags, counts, ghosts
<1>6. CASE CacheRange
  <2>1. todo["main"] # <<>> /\ Arg("main") \in Settings /\ todo' \in [Threads -> Seq(Steps)]
    BY <1>6, AtIs, StepTypes, Advance DEF CacheRange, Threads
  <2>2. range_' \in 1 .. 3
    BY <1>6, <2>1 DEF CacheRange, Protected
  <2>q. QED
    BY <1>6, <2>1, <2>2
    DEF CacheRange, TypeInv, TypeOK, Threads, sampling, locals, flags, counts, ghosts
<1>7. CASE WriteAll
  <2>1. todo["main"] # <<>> /\ Arg("main") \in Settings /\ todo' \in [Threads -> Seq(Steps)]
    BY <1>7, AtIs, StepTypes, Advance DEF WriteAll, WriteSettings, Threads
  <2>2. failed' \subseteq Kinds
    BY <1>7, FailsIs DEF WriteAll, WriteSettings, Kinds, TypeInv, TypeOK
  <2>3. chip' \in [range : 0 .. 3, standby : BOOLEAN, offset : Int16]
    <3>1. ASSUME NEW x \in Settings
          PROVE  Registers(x) \in [range : 0 .. 3, standby : BOOLEAN, offset : Int16]
      BY DEF Registers, Fresh
    <3>2. chip' = Registers(Arg("main")) \/ chip' = chip
      BY <1>7, Zenon DEF WriteAll, WriteSettings
    <3>q. QED
      BY <2>1, <3>1, <3>2 DEF TypeInv, TypeOK
  <2>4. was_reset' \in {"never", "last", "earlier"}
    BY <1>7, Zenon DEF WriteAll, WriteSettings, TypeInv, TypeOK
  <2>q. QED
    BY <1>7, <2>1, <2>2, <2>3, <2>4
    DEF WriteAll, WriteSettings, TypeInv, TypeOK, Threads, sampling, locals, flags, counts
<1>8. CASE GetOffSet
  <2>1. todo["main"] # <<>> /\ Arg("main") \in Asked /\ todo' \in [Threads -> Seq(Steps)]
    BY <1>8, AtIs, StepTypes, Advance DEF GetOffSet, Threads
  <2>2. FromRegister(chip.offset, range_) \in Int
    BY Converted DEF TypeInv, TypeOK
  <2>3. acc' \in Int \cup {NoSamples}
    <3>1. CASE Arg("main") = NoSamples
      BY <1>8, <3>1 DEF GetOffSet
    <3>2. CASE Arg("main") # NoSamples
      <4>1. Arg("main") \in Int
        BY <2>1, <3>2 DEF Asked
      <4>q. QED
        BY <1>8, <2>2, <3>2, <4>1 DEF GetOffSet
    <3>q. QED
      BY <3>1, <3>2
  <2>q. QED
    BY <1>8, <2>1, <2>3 DEF GetOffSet, TypeInv, TypeOK, Threads, sampling, flags, counts, ghosts
<1>9. CASE WriteOffSet
  <2>1. todo["main"] # <<>> /\ todo' \in [Threads -> Seq(Steps)]
    BY <1>9, AtIs, Advance DEF WriteOffSet, WriteSettings, Threads
  <2>2. failed' \subseteq Kinds
    BY <1>9, FailsIs DEF WriteOffSet, WriteSettings, Kinds, TypeInv, TypeOK
  <2>3. ToRegister(acc, range_) \in Int16
    BY Converted DEF TypeInv, TypeOK
  <2>4. chip' \in [range : 0 .. 3, standby : BOOLEAN, offset : Int16]
    BY <1>9, <2>3 DEF WriteOffSet, WriteSettings, TypeInv, TypeOK
  <2>q. QED
    BY <1>9, <2>1, <2>2, <2>4
    DEF WriteOffSet, WriteSettings, TypeInv, TypeOK, Threads, sampling, locals, flags, counts
<1>10. ASSUME NEW t \in Threads, SetStandBy(t)
       PROVE  TypeInv'
  <2>1. /\ todo[t] \in Seq(Steps) /\ todo[t] # <<>> /\ Rest(t) \in Seq(Steps)
        /\ At(t, "RestoreStandBy") => Arg(t) \in Names
        /\ ~At(t, "RestoreStandBy") => Arg(t) \in BOOLEAN
    BY <1>10, AtIs, StepTypes DEF SetStandBy, Threads
  <2>2. PICK v \in BOOLEAN :
          \/ Continue(t, Rest(t))
          \/ Continue(t, <<Step("PowerRead", Nothing), Step("PowerWrite", v)>> \o Rest(t))
    BY <1>10, <2>1 DEF SetStandBy, TypeInv, TypeOK, Names
  <2>3. P3(v, Rest(t)) \in Seq(Steps)
    BY <2>1, PowerLists, Zenon DEF Starts
  <2>4. Continue(t, Rest(t)) \/ Continue(t, P3(v, Rest(t)))
    BY <2>1, <2>2, PowerListIs, Zenon
  <2>5. todo' \in [Threads -> Seq(Steps)]
    BY <2>1, <2>3, <2>4, Changed, Zenon DEF Threads
  <2>q. QED
    BY <1>10, <2>5
    DEF SetStandBy, TypeInv, TypeOK, Threads, sampling, locals, flags, counts, ghosts
<1>11. ASSUME NEW t \in Threads, PowerRead(t)
       PROVE  TypeInv'
  <2>1. todo' \in [Threads -> Seq(Steps)]
    BY <1>11, AtIs, Advance DEF PowerRead, Threads
  <2>2. failed' \subseteq Kinds
    BY <1>11, FailsIs DEF PowerRead, Kinds, TypeInv, TypeOK
  <2>q. QED
    BY <1>11, <2>1, <2>2
    DEF PowerRead, TypeInv, TypeOK, Threads, sampling, locals, flags, counts, ghosts
<1>12. ASSUME NEW t \in Threads, PowerWrite(t)
       PROVE  TypeInv'
  <2>1. /\ todo[t] \in Seq(Steps) /\ todo[t] # <<>> /\ Rest(t) \in Seq(Steps)
        /\ Arg(t) \in BOOLEAN
    BY <1>12, AtIs, StepTypes DEF PowerWrite, Threads
  <2>2. P1(Arg(t), Rest(t)) \in Seq(Steps)
    BY <2>1, PowerLists, Zenon DEF Starts
  <2>3. Continue(t, Rest(t)) \/ Continue(t, P1(Arg(t), Rest(t)))
    BY <1>12, <2>1, PowerListIs, Zenon DEF PowerWrite
  <2>4. todo' \in [Threads -> Seq(Steps)]
    BY <2>1, <2>2, <2>3, Changed, Zenon DEF Threads
  <2>5. failed' \subseteq Kinds
    BY <1>12, FailsIs DEF PowerWrite, Kinds, TypeInv, TypeOK
  <2>6. chip' \in [range : 0 .. 3, standby : BOOLEAN, offset : Int16]
    BY <1>12, <2>1 DEF PowerWrite, TypeInv, TypeOK
  <2>7. interfered' \in BOOLEAN
    BY <1>12 DEF PowerWrite, TypeInv, TypeOK
  <2>q. QED
    BY <1>12, <2>4, <2>5, <2>6, <2>7
    DEF PowerWrite, TypeInv, TypeOK, Threads, sampling, locals, flags, counts, ghosts
<1>13. ASSUME NEW t \in Threads, PowerCache(t)
       PROVE  TypeInv'
  <2>1. Arg(t) \in BOOLEAN /\ todo' \in [Threads -> Seq(Steps)]
    BY <1>13, AtIs, StepTypes, Advance DEF PowerCache, Threads
  <2>2. interfered' \in BOOLEAN
    BY <1>13 DEF PowerCache, TypeInv, TypeOK
  <2>q. QED
    BY <1>13, <2>1, <2>2
    DEF PowerCache, TypeInv, TypeOK, Threads, sampling, locals, flags, counts, ghosts
<1>14. CASE Tick
  <2>1. <<Step("CheckModify", Nothing)>> \in Seq(Steps)
    BY StepsAre
  <2>2. todo' \in [Threads -> Seq(Steps)]
    BY <1>14, <2>1, Changed DEF Tick, Threads
  <2>q. QED
    BY <1>14, <2>2
    DEF Tick, TypeInv, TypeOK, Threads, sampling, locals, flags, counts, ghosts
<1>15. CASE CheckModify
  <2>1. <<StandBy(FALSE)>> \in Seq(Steps) /\ <<>> \in Seq(Steps)
    <3>1. <<>> \in Seq(Steps)
      OBVIOUS
    <3>q. QED
      BY <3>1, OneStarts, Zenon DEF Starts, U0
  <2>2. todo' \in [Threads -> Seq(Steps)]
    BY <1>15, <2>1, Changed DEF CheckModify, Threads
  <2>q. QED
    BY <1>15, <2>2
    DEF CheckModify, TypeInv, TypeOK, Threads, sampling, locals, flags, counts, ghosts
<1>16. CASE DataReady \/ ReadData \/ ParseDigitalAcc \/ ClearNewData
  <2>1. failed' \subseteq Kinds
    BY <1>16, FailsIs
    DEF DataReady, ReadData, ParseDigitalAcc, ClearNewData, Kinds, TypeInv, TypeOK
  <2>2. /\ data' \in 0 .. 3 /\ new_acc_data_' \in BOOLEAN
        /\ measure' \in {"wait", "parse", "clear"}
        /\ raw' \in 0 .. 3 \/ raw' = Nothing
        /\ misscaled' \in 0 .. MaxHandlers + 1
    <3>1. CASE DataReady
      BY <3>1 DEF DataReady, TypeInv, TypeOK
    <3>2. CASE ReadData
      BY <3>2 DEF ReadData, TypeInv, TypeOK
    <3>3. CASE ParseDigitalAcc
      BY <3>3 DEF ParseDigitalAcc, TypeInv, TypeOK
    <3>4. CASE ClearNewData
      BY <3>4 DEF ClearNewData, TypeInv, TypeOK
    <3>q. QED
      BY <1>16, <3>1, <3>2, <3>3, <3>4
  <2>3. UNCHANGED others
    BY <1>16 DEF DataReady, ReadData, ParseDigitalAcc, ClearNewData
  <2>q. QED
    BY <2>1, <2>2, <2>3 DEF TypeInv, TypeOK, others, locals, flags, counts, ghosts
<1>17. CASE UNCHANGED vars
  BY <1>17 DEF vars, TypeInv, TypeOK
<1>q. QED
  BY <1>1, <1>2, <1>3, <1>4, <1>5, <1>6, <1>7, <1>8, <1>9, <1>10, <1>11, <1>12, <1>13,
     <1>14, <1>15, <1>16, <1>17 DEF Next, Asked, Threads


(* Types, for any averages, settings and bounds.                            *)
THEOREM TypeCorrect == Spec => []TypeOK
<1>1. TypeInv => TypeOK
  BY DEF TypeInv
<1>q. QED
  BY <1>1, Initially, TypesKept, PTL DEF Spec

----------------------------------------------------------------------------
(* What a step leaves alone                                                 *)

(* A transfer that failed has failed, and what interfered has interfered.     *)
LEMMA NoteKept ==
  ASSUME [Next]_vars
  PROVE  failed \subseteq failed' /\ (interfered => interfered')
<1>1. CASE UNCHANGED vars
  BY <1>1 DEF vars
<1>2. ASSUME NEW avg \in Asked, Boot(avg) \/ CalibrationRequire(avg)
      PROVE  failed \subseteq failed' /\ (interfered => interfered')
  <2>1. failed' = failed \/ \E k \in Kinds : failed' = failed \cup {k}
    <3>1. "boot" \in Kinds
      BY DEF Kinds
    <3>q. QED
      BY <1>2, <3>1, Zenon DEF Boot, CalibrationRequire, Begin, Fails
  <2>2. failed \subseteq failed'
    BY <2>1
  <2>3. interfered => interfered'
    BY <1>2, Zenon DEF Boot, CalibrationRequire, Begin, Fails
  <2>q. QED
    BY <2>2, <2>3, Zenon
<1>3. ASSUME NEW s \in Settings, RegAllUpdate(s)
      PROVE  failed \subseteq failed' /\ (interfered => interfered')
  BY <1>3 DEF RegAllUpdate, Begin
<1>4. CASE End \/ SaveStandBy \/ CacheRange \/ WriteAll \/ GetOffSet \/ WriteOffSet
  BY <1>4 DEF End, SaveStandBy, CacheRange, WriteAll, GetOffSet, WriteOffSet,
              WriteSettings, Fails
<1>5. ASSUME NEW t \in Threads, SetStandBy(t) \/ PowerRead(t) \/ PowerWrite(t) \/ PowerCache(t)
      PROVE  failed \subseteq failed' /\ (interfered => interfered')
  <2>1. failed' = failed \/ \E k \in Kinds : failed' = failed \cup {k}
    <3>1. "power" \in Kinds
      BY DEF Kinds
    <3>q. QED
      BY <1>5, <3>1, Zenon DEF SetStandBy, PowerRead, PowerWrite, PowerCache, Fails
  <2>2. failed \subseteq failed'
    BY <2>1
  <2>3. interfered => interfered'
    BY <1>5, Zenon DEF SetStandBy, PowerRead, PowerWrite, PowerCache, Fails
  <2>q. QED
    BY <2>2, <2>3, Zenon
<1>6. CASE Tick \/ CheckModify \/ DataReady \/ ReadData \/ ParseDigitalAcc \/ ClearNewData
  BY <1>6 DEF Tick, CheckModify, DataReady, ReadData, ParseDigitalAcc, ClearNewData, Fails,
              others
<1>q. QED
  BY <1>1, <1>2, <1>3, <1>4, <1>5, <1>6, Zenon DEF Next, Asked, Threads

(* What was reset stays so: of the updates, one did it.                      *)
LEMMA ResetKept ==
  ASSUME [Next]_vars, was_reset' = "never"
  PROVE  was_reset = "never"
<1>1. CASE WriteAll
  <2>1. was_reset' = was_reset \/ was_reset = "never"
    BY <1>1, Zenon DEF WriteAll, WriteSettings
  <2>q. QED
    BY <2>1
<1>2. CASE was_reset' = was_reset
  BY <1>2
<1>q. QED
  BY <1>1, <1>2, Zenon
  DEF Next, vars, Boot, CalibrationRequire, RegAllUpdate, End, SaveStandBy, CacheRange,
      GetOffSet, WriteOffSet, WriteSettings, SetStandBy, PowerRead, PowerWrite, PowerCache,
      Tick, CheckModify, DataReady, ReadData, ParseDigitalAcc, ClearNewData, others, ghosts

LEMMA QuietBefore ==
  ASSUME [Next]_vars
  PROVE  Quiet' => Quiet
BY NoteKept DEF Quiet

(* The sensor, what main does and what it wanted before Init: nothing.        *)
BootInv ==
  handlers < 0 =>
    todo["main"] = <<>> /\ todo["control"] = <<>> /\ wanted = Nothing /\ range_ = 2

LEMMA BootKept ==
  ASSUME TypeInv, BootInv, [Next]_vars
  PROVE  BootInv'
<1> SUFFICES ASSUME handlers' < 0
             PROVE  todo' = todo /\ wanted' = wanted /\ range_' = range_ /\ handlers < 0
  BY DEF BootInv
<1>1. handlers \in Int
  BY RegistersAssumption DEF TypeInv, TypeOK
<1>2. ASSUME NEW avg \in Asked
      PROVE  ~Boot(avg) /\ ~CalibrationRequire(avg)
  BY <1>1, RegistersAssumption DEF Boot, CalibrationRequire, Begin
<1>3. ASSUME NEW s \in Settings
      PROVE  ~RegAllUpdate(s)
  BY <1>1, RegistersAssumption DEF RegAllUpdate, Begin
<1>4. handlers < 0
  <2>1. handlers' = handlers
    BY <1>2, <1>3, Zenon
    DEF Next, Asked, vars, End, SaveStandBy, CacheRange, WriteAll, GetOffSet, WriteOffSet,
        WriteSettings, SetStandBy, PowerRead, PowerWrite, PowerCache, Tick, CheckModify,
        DataReady, ReadData, ParseDigitalAcc, ClearNewData, others, counts
  <2>q. QED
    BY <2>1
<1>5. \A t \in Threads : \A do : ~At(t, do)
  BY <1>4 DEF BootInv, At, Threads
<1>6. ~Tick
  BY <1>1, <1>4 DEF Tick, Booted
<1>q. QED
  BY <1>2, <1>3, <1>4, <1>5, <1>6, Zenon
  DEF Next, Asked, Threads, vars, End, SaveStandBy, CacheRange, WriteAll, GetOffSet,
      WriteOffSet, SetStandBy, PowerRead, PowerWrite, PowerCache, CheckModify, DataReady,
      ReadData, ParseDigitalAcc, ClearNewData, others, ghosts

----------------------------------------------------------------------------
(* Offsets                                                                  *)

(* What was set last, if the register can hold it, is what the register holds *)
(* the nearest value to.                                                    *)
OffInv ==
  wanted # Nothing =>
    /\ wanted \in [acc : Int, range : 1 .. 3]
    /\ Holds(wanted.acc, wanted.range)
    /\ "offset" \notin failed => chip.offset = ToRegister(wanted.acc, wanted.range)

LEMMA OffKept ==
  ASSUME TypeInv, BootInv, OffInv, [Next]_vars
  PROVE  OffInv'
<1>1. failed \subseteq failed'
  BY NoteKept
<1>2. ASSUME wanted' = wanted, chip'.offset = chip.offset
      PROVE  OffInv'
  BY <1>1, <1>2 DEF OffInv
<1>3. CASE UNCHANGED <<wanted, chip>>
  BY <1>2, <1>3
<1>4. ASSUME NEW avg \in Asked, Boot(avg)
      PROVE  OffInv'
  BY <1>4 DEF Boot, BootInv, OffInv, ghosts
<1>5. CASE WriteAll
  BY <1>5 DEF WriteAll, OffInv
<1>6. CASE WriteOffSet
  <2>1. CASE Holds(acc, range_)
    <3>1. wanted' = [acc |-> acc, range |-> range_]
      BY <1>6, <2>1 DEF WriteOffSet
    <3>2. acc \in Int /\ range_ \in 1 .. 3
      BY <2>1 DEF Holds, TypeInv, TypeOK
    <3>3. wanted'.acc = acc /\ wanted'.range = range_
      BY <3>1
    <3>4. wanted' \in [acc : Int, range : 1 .. 3]
      BY <3>1, <3>2
    <3>5. "offset" \notin failed' => chip'.offset = ToRegister(acc, range_)
      <4>1. chip \in [range : 0 .. 3, standby : BOOLEAN, offset : Int16]
        BY DEF TypeInv, TypeOK
      <4>2. chip' = [chip EXCEPT !.offset = ToRegister(acc, range_)] \/ Fails("offset")
        BY <1>6, Zenon DEF WriteOffSet, WriteSettings
      <4>q. QED
        BY <4>1, <4>2 DEF Fails
    <3>q. QED
      BY <2>1, <3>3, <3>4, <3>5 DEF OffInv
  <2>2. CASE ~Holds(acc, range_)
    BY <1>6, <2>2 DEF WriteOffSet, OffInv
  <2>q. QED
    BY <2>1, <2>2
<1>7. ASSUME NEW t \in Threads, PowerWrite(t)
      PROVE  OffInv'
  <2>1. chip'.offset = chip.offset /\ wanted' = wanted
    BY <1>7 DEF PowerWrite, TypeInv, TypeOK, ghosts
  <2>q. QED
    BY <1>2, <2>1
<1>q. QED
  BY <1>3, <1>4, <1>5, <1>6, <1>7, Zenon
  DEF Next, Asked, Threads, vars, End, SaveStandBy, CacheRange, GetOffSet, CalibrationRequire,
      RegAllUpdate, SetStandBy, PowerRead, PowerCache, Tick, CheckModify, DataReady, ReadData,
      ParseDigitalAcc, ClearNewData, others, ghosts

(* Rounding is off by half a step at most, for either sign.                  *)
LEMMA RoundedNear ==
  ASSUME NEW a \in Int, NEW r \in 1 .. 3, Holds(a, r)
  PROVE  2 * (FromRegister(ToRegister(a, r), r) - a) \in -Scale(r) .. Scale(r)
<1> DEFINE n == Rounded(a, Scale(r))
<1>1. Scale(r) \in {1, 2, 4}
  BY Converted
<1>2. n \in Int /\ 2 * (n * Scale(r) - a) \in -Scale(r) .. Scale(r)
  <2>1. CASE Scale(r) = 1
    BY <2>1 DEF Rounded
  <2>2. CASE Scale(r) = 2
    BY <2>2 DEF Rounded
  <2>3. CASE Scale(r) = 4
    BY <2>3 DEF Rounded
  <2>q. QED
    BY <1>1, <2>1, <2>2, <2>3
<1>3. ASSUME NEW m \in Int16
      PROVE  ToInt16(m) = m
  <2> DEFINE k == m + 32768
  <2>1. m \in Int /\ -32768 <= m /\ m <= 32767
    BY <1>3, Int16Is
  <2>2. k \in Int /\ 0 <= k /\ k < 65536 /\ k - 32768 = m
    BY <2>1
  <2> HIDE DEF k
  <2>3. k % 65536 = k
    BY <2>2
  <2>4. ToInt16(m) = (k % 65536) - 32768
    BY DEF ToInt16, k
  <2>q. QED
    BY <2>2, <2>3, <2>4
<1>4. a # NoSamples /\ n \in Int16
  BY DEF Holds
<1>5. ToRegister(a, r) = ToInt16(n)
  BY <1>4 DEF ToRegister
<1> HIDE DEF n
<1>6. ToRegister(a, r) = n
  BY <1>3, <1>4, <1>5, Zenon
<1>q. QED
  BY <1>2, <1>6, Zenon DEF FromRegister

(* GetOffSet gives back what SetOffSet was given, to half a step, for every    *)
(* average and every setting.                                               *)
THEOREM OffsetsComeBack == Spec => []OffsetRoundTrip
<1> DEFINE I == TypeInv /\ BootInv /\ OffInv
<1>1. Init => I
  <2>1. Init => BootInv /\ OffInv
    BY DEF Init, BootInv, OffInv
  <2>q. QED
    BY <2>1, Initially
<1>2. I /\ [Next]_vars => I'
  BY TypesKept, BootKept, OffKept
<1>3. I => OffsetRoundTrip
  <2> SUFFICES ASSUME OffInv, wanted # Nothing, "offset" \notin failed, wanted.range = range_
               PROVE  2 * (FromRegister(chip.offset, range_) - wanted.acc)
                        \in -Scale(range_) .. Scale(range_)
    BY DEF OffsetRoundTrip
  <2>1. /\ wanted.acc \in Int /\ wanted.range \in 1 .. 3
        /\ Holds(wanted.acc, wanted.range)
        /\ chip.offset = ToRegister(wanted.acc, wanted.range)
    BY DEF OffInv
  <2>q. QED
    BY <2>1, RoundedNear, Zenon
<1>q. QED
  BY <1>1, <1>2, <1>3, PTL DEF Spec


----------------------------------------------------------------------------
(* The control loop                                                         *)

K1 == <<Step("CheckModify", Nothing)>>

ControlLists == {<<>>, K1, U0, P3(FALSE, <<>>), P2(FALSE, <<>>), P1(FALSE, <<>>)}

(* Control only ever ends standby; and while it is about to remember that, the *)
(* main thread is in no handler, or has been interfered with.                *)
ControlInv ==
  /\ todo["control"] \in ControlLists
  /\ At("control", "PowerCache") /\ Quiet => todo["main"] = <<>> /\ ~chip.standby

LEMMA ControlStarts ==
  /\ Starts(K1, "CheckModify", Nothing, <<>>)
  /\ Starts(U0, "SetStandBy", FALSE, <<>>)
  /\ Starts(P1(FALSE, <<>>), "PowerCache", FALSE, <<>>)
  /\ Starts(P2(FALSE, <<>>), "PowerWrite", FALSE, <<>>)
  /\ Starts(P3(FALSE, <<>>), "PowerRead", Nothing, P2(FALSE, <<>>))
<1>1. FALSE \in BOOLEAN /\ <<>> \in Seq(Steps)
  OBVIOUS
<1>2. Starts(K1, "CheckModify", Nothing, <<>>)
  <2>1. Step("CheckModify", Nothing) \in Steps
    BY StepsAre
  <2>2. ASSUME NEW x \in Steps
        PROVE  <<x>> \in Seq(Steps) /\ <<x>> # <<>> /\ Head(<<x>>) = x /\ Tail(<<x>>) = <<>>
    OBVIOUS
  <2>3. Step("CheckModify", Nothing).do = "CheckModify"
        /\ Step("CheckModify", Nothing).arg = Nothing
    BY DEF Step
  <2>q. QED
    BY <2>1, <2>2, <2>3, Zenon DEF K1, Starts, Doing, With
<1>q. QED
  BY <1>1, <1>2, PowerLists, OneStarts, Zenon

(* Each step of control, from its list to the next.                          *)
LEMMA ControlAt ==
  ASSUME TypeInv, ControlInv
  PROVE  /\ At("control", "CheckModify") => todo["control"] = K1
         /\ At("control", "SetStandBy") =>
              todo["control"] = U0 /\ Arg("control") = FALSE /\ Rest("control") = <<>>
         /\ ~At("control", "RestoreStandBy")
         /\ At("control", "PowerRead") => Rest("control") = P2(FALSE, <<>>)
         /\ At("control", "PowerWrite") => Arg("control") = FALSE /\ Rest("control") = <<>>
         /\ At("control", "PowerCache") => Arg("control") = FALSE /\ Rest("control") = <<>>
<1> DEFINE c == todo["control"]
<1>1. /\ \A do : At("control", do) <=> c # <<>> /\ Doing(c) = do
      /\ Arg("control") = With(c) /\ Rest("control") = Tail(c)
  BY AtIs
<1>2. c \in ControlLists
  BY DEF ControlInv
<1> HIDE DEF c
<1> DEFINE p2 == P2(FALSE, <<>>)
           off == With(c) = FALSE /\ Tail(c) = <<>>
<1>3. \/ c = <<>>
      \/ c = K1 /\ Doing(c) = "CheckModify"
      \/ c = U0 /\ Doing(c) = "SetStandBy" /\ off
      \/ Doing(c) = "PowerCache" /\ off
      \/ Doing(c) = "PowerWrite" /\ off
      \/ Doing(c) = "PowerRead" /\ Tail(c) = p2
  BY <1>2, ControlStarts, Zenon DEF ControlLists, Starts
<1> HIDE DEF p2, off
<1>4. /\ c # <<>> /\ Doing(c) = "CheckModify" => c = K1
      /\ c # <<>> /\ Doing(c) = "SetStandBy" => c = U0 /\ off
      /\ ~(c # <<>> /\ Doing(c) = "RestoreStandBy")
      /\ c # <<>> /\ Doing(c) = "PowerRead" => Tail(c) = p2
      /\ c # <<>> /\ Doing(c) = "PowerWrite" => off
      /\ c # <<>> /\ Doing(c) = "PowerCache" => off
  BY <1>3
<1>q. QED
  BY <1>1, <1>4, Zenon DEF c, p2, off

(* A step that leaves control's list alone.                                  *)
LEMMA ControlStays ==
  ASSUME TypeInv, ControlInv, Quiet' => Quiet, todo'["control"] = todo["control"],
         At("control", "PowerCache") /\ Quiet' =>
           todo'["main"] = todo["main"] /\ chip'.standby = chip.standby
  PROVE  ControlInv'
<1>1. At("control", "PowerCache")' <=> At("control", "PowerCache")
  BY DEF At
<1>q. QED
  BY <1>1, Zenon DEF ControlInv

LEMMA ControlKept ==
  ASSUME TypeInv, BootInv, ControlInv, [Next]_vars
  PROVE  ControlInv'
<1>0. (Quiet' => Quiet) /\ TypeInv'
  BY QuietBefore, TypesKept
<1>a. ~At("control", "PowerCache") \/ ~Quiet \/ todo["main"] = <<>>
  BY DEF ControlInv
<1>1. ASSUME NEW avg \in Asked, Boot(avg)
      PROVE  ControlInv'
  <2>1. handlers < 0
    BY <1>1 DEF Boot
  <2>2. ~At("control", "PowerCache")
    BY <2>1 DEF BootInv, At
  <2>3. todo'["control"] = todo["control"]
    BY <1>1 DEF Boot, Continue, TypeInv
  <2>q. QED
    BY <1>0, <2>2, <2>3, ControlStays
<1>2. CASE Begin /\ todo'["control"] = todo["control"]
  <2>1. ~(At("control", "PowerCache") /\ Quiet')
    BY <1>2, Zenon DEF Begin, Quiet
  <2>q. QED
    BY <1>0, <1>2, <2>1, ControlStays
<1>3. ASSUME NEW avg \in Asked, CalibrationRequire(avg)
      PROVE  ControlInv'
  BY <1>2, <1>3 DEF CalibrationRequire, Continue, TypeInv
<1>4. ASSUME NEW s \in Settings, RegAllUpdate(s)
      PROVE  ControlInv'
  BY <1>2, <1>4 DEF RegAllUpdate, Continue, TypeInv
<1>5. CASE UNCHANGED <<todo, chip>>
  BY <1>0, <1>5, ControlStays
<1>6. ASSUME todo["main"] # <<>>, todo'["control"] = todo["control"]
      PROVE  ControlInv'
  BY <1>0, <1>a, <1>6, ControlStays
<1>7. CASE SaveStandBy \/ CacheRange \/ WriteAll \/ GetOffSet \/ WriteOffSet
  BY <1>6, <1>7
  DEF SaveStandBy, CacheRange, WriteAll, GetOffSet, WriteOffSet, WriteSettings, At, Continue,
      TypeInv
<1>8. CASE SetStandBy("main") \/ PowerRead("main") \/ PowerWrite("main") \/ PowerCache("main")
  <2>1. todo["main"] # <<>>
    BY <1>8, Zenon DEF SetStandBy, PowerRead, PowerWrite, PowerCache, At
  <2>2. \E steps : Continue("main", steps)
    BY <1>8, Zenon DEF SetStandBy, PowerRead, PowerWrite, PowerCache
  <2>3. todo'["control"] = todo["control"]
    BY <2>2 DEF Continue, TypeInv
  <2>q. QED
    BY <1>6, <2>1, <2>3
<1>9. ASSUME NEW steps \in ControlLists, Continue("control", steps), Doing(steps) # "PowerCache"
      PROVE  ControlInv'
  <2>1. todo'["control"] = steps
    BY <1>9 DEF Continue, TypeInv
  <2>2. ~At("control", "PowerCache")'
    BY <1>9, <2>1 DEF At, Doing
  <2>q. QED
    BY <2>1, <2>2, Zenon DEF ControlInv
<1>10. Doing(K1) # "PowerCache" /\ Doing(U0) # "PowerCache"
       /\ Doing(P2(FALSE, <<>>)) # "PowerCache" /\ Doing(P3(FALSE, <<>>)) # "PowerCache"
  BY ControlStarts DEF Starts
<1>11. ASSUME Continue("control", <<>>)
       PROVE  ControlInv'
  <2>1. todo'["control"] = <<>>
    BY <1>11 DEF Continue, TypeInv
  <2>2. ~At("control", "PowerCache")'
    BY <2>1 DEF At
  <2>q. QED
    BY <2>1, <2>2, Zenon DEF ControlInv, ControlLists
<1>12. CASE Tick \/ CheckModify
  BY <1>9, <1>10, <1>11, <1>12, Zenon DEF Tick, CheckModify, ControlLists, K1, U0
<1>13. CASE SetStandBy("control")
  <2>1. At("control", "SetStandBy") /\ ~At("control", "RestoreStandBy")
    BY <1>13, ControlAt, Zenon DEF SetStandBy
  <2>2. Arg("control") = FALSE /\ Rest("control") = <<>>
    BY <2>1, ControlAt, Zenon
  <2>3. FALSE \in BOOLEAN /\ <<>> \in Seq(Steps)
    OBVIOUS
  <2>4. <<Step("PowerRead", Nothing), Step("PowerWrite", FALSE)>> \o <<>> = P3(FALSE, <<>>)
    BY <2>3, PowerListIs, Zenon
  <2>5. Continue("control", <<>>) \/ Continue("control", P3(FALSE, <<>>))
    BY <1>13, <2>1, <2>2, <2>4, Zenon DEF SetStandBy
  <2>q. QED
    BY <1>9, <1>10, <1>11, <2>5, Zenon DEF ControlLists
<1>14. CASE PowerRead("control")
  BY <1>9, <1>10, <1>14, ControlAt, Zenon DEF PowerRead, ControlLists
<1>15. CASE PowerWrite("control")
  <2>1. Arg("control") = FALSE /\ Rest("control") = <<>>
    BY <1>15, ControlAt, Zenon DEF PowerWrite
  <2>2. CASE Continue("control", <<>>)
    BY <1>11, <2>2
  <2>3. CASE chip' = [chip EXCEPT !.standby = FALSE]
             /\ Continue("control", <<Step("PowerCache", FALSE)>> \o <<>>)
    <3>1. FALSE \in BOOLEAN /\ <<>> \in Seq(Steps)
      OBVIOUS
    <3>2. Continue("control", P1(FALSE, <<>>))
      BY <2>3, <3>1, PowerListIs, Zenon
    <3>3. todo'["control"] = P1(FALSE, <<>>) /\ todo'["main"] = todo["main"]
      BY <3>2 DEF Continue, TypeInv
    <3>4. ~chip'.standby
      <4>1. chip \in [range : 0 .. 3, standby : BOOLEAN, offset : Int16]
        BY DEF TypeInv, TypeOK
      <4>q. QED
        BY <2>3, <4>1
    <3>5. Quiet' => todo["main"] = <<>>
      BY <1>15, Zenon DEF PowerWrite, Quiet, Interferes
    <3>q. QED
      BY <3>3, <3>4, <3>5, Zenon DEF ControlInv, ControlLists
  <2>q. QED
    BY <1>15, <2>1, <2>2, <2>3, Zenon DEF PowerWrite
<1>16. CASE PowerCache("control")
  BY <1>11, <1>16, ControlAt, Zenon DEF PowerCache
<1>q. QED
  BY <1>1, <1>3, <1>4, <1>5, <1>7, <1>8, <1>12, <1>13, <1>14, <1>15, <1>16, Zenon
  DEF Next, Asked, vars, End, DataReady, ReadData, ParseDigitalAcc, ClearNewData, others


----------------------------------------------------------------------------
(* The main thread                                                          *)

(* A sample that is being read, or is pending, and would be scaled wrong now. *)
Stale(r) == Scale(range_) # Scale(r)

Pending ==
  IF \/ measure = "parse" /\ raw # Nothing /\ Stale(raw)
     \/ measure = "wait" /\ new_acc_data_ /\ Stale(data)
  THEN 1 ELSE 0

(* The updates may still misscale k samples.                                *)
Credit(k) ==
  Quiet /\ "update" \notin failed /\ was_reset = "never" => misscaled + Pending + k <= updates

(* What main has left of its handler, behind the steps that write POWER_CTL.  *)
MainInv ==
  \/ Place(todo["main"], standby_, Quiet, saved["tmp"], range_, Credit(1))
  \/ \E v \in BOOLEAN, rest \in Seq(Steps) :
       /\ todo["main"] \in {P1(v, rest), P2(v, rest), P3(v, rest)}
       /\ Place(rest, v, Quiet, saved["tmp"], range_, Credit(1))

LEMMA MainAt ==
  ASSUME TypeInv, MainInv, NEW do, At("main", do)
  PROVE  /\ todo["main"] \in Seq(Steps) /\ todo["main"] # <<>>
         /\ Doing(todo["main"]) = do
         /\ Arg("main") = With(todo["main"]) /\ Rest("main") = Tail(todo["main"])
         /\ \/ Place(todo["main"], standby_, Quiet, saved["tmp"], range_, Credit(1))
            \/ \E v \in BOOLEAN, rest \in Seq(Steps) :
                 /\ Place(rest, v, Quiet, saved["tmp"], range_, Credit(1))
                 /\ \/ do = "PowerCache" /\ Arg("main") = v /\ Rest("main") = rest
                    \/ do = "PowerWrite" /\ Arg("main") = v /\ Rest("main") = rest
                    \/ do = "PowerRead" /\ Rest("main") = P2(v, rest)
<1>1. /\ todo["main"] \in Seq(Steps) /\ todo["main"] # <<>>
      /\ Doing(todo["main"]) = do
      /\ Arg("main") = With(todo["main"]) /\ Rest("main") = Tail(todo["main"])
  BY AtIs
<1>2. ASSUME NEW v \in BOOLEAN, NEW rest \in Seq(Steps),
             todo["main"] \in {P1(v, rest), P2(v, rest), P3(v, rest)}
      PROVE  \/ do = "PowerCache" /\ Arg("main") = v /\ Rest("main") = rest
             \/ do = "PowerWrite" /\ Arg("main") = v /\ Rest("main") = rest
             \/ do = "PowerRead" /\ Rest("main") = P2(v, rest)
  <2>1. /\ Starts(P1(v, rest), "PowerCache", v, rest)
        /\ Starts(P2(v, rest), "PowerWrite", v, rest)
        /\ Starts(P3(v, rest), "PowerRead", Nothing, P2(v, rest))
    BY PowerLists, Zenon
  <2>2. CASE todo["main"] = P1(v, rest)
    BY <1>1, <2>1, <2>2, Zenon DEF Starts
  <2>3. CASE todo["main"] = P2(v, rest)
    BY <1>1, <2>1, <2>3, Zenon DEF Starts
  <2>4. CASE todo["main"] = P3(v, rest)
    BY <1>1, <2>1, <2>4, Zenon DEF Starts
  <2>q. QED
    BY <1>2, <2>2, <2>3, <2>4, Zenon
<1>q. QED
  BY <1>1, <1>2, Zenon DEF MainInv

(* The handlers' own steps, and those of SetStandBy.                         *)
LEMMA MainPlace ==
  ASSUME TypeInv, MainInv, NEW do, At("main", do)
  PROVE  /\ do \notin {"PowerCache", "PowerWrite", "PowerRead"} =>
              Place(todo["main"], standby_, Quiet, saved["tmp"], range_, Credit(1))
         /\ do \in {"PowerCache", "PowerWrite"} =>
              /\ Rest("main") \in Seq(Steps) /\ Arg("main") \in BOOLEAN
              /\ Place(Rest("main"), Arg("main"), Quiet, saved["tmp"], range_, Credit(1))
         /\ do = "PowerRead" =>
              \E v \in BOOLEAN, rest \in Seq(Steps) :
                /\ Rest("main") = P2(v, rest)
                /\ Place(rest, v, Quiet, saved["tmp"], range_, Credit(1))
<1> DEFINE here == Place(todo["main"], standby_, Quiet, saved["tmp"], range_, Credit(1))
           after(v, rest) == Place(rest, v, Quiet, saved["tmp"], range_, Credit(1))
<1>1. here => do \notin {"PowerCache", "PowerWrite", "PowerRead"}
  <2>1. here => Doing(todo["main"]) \in {"Save", "SetStandBy", "RestoreStandBy", "CacheRange",
                                         "WriteAll", "GetOffSet", "WriteOffSet"}
    BY MainAt, PlaceDoes, Zenon
  <2> HIDE DEF here
  <2>2. Doing(todo["main"]) = do
    BY MainAt, Zenon
  <2>q. QED
    BY <2>1, <2>2
<1>2. \/ here
      \/ \E v \in BOOLEAN, rest \in Seq(Steps) :
           /\ after(v, rest)
           /\ \/ do = "PowerCache" /\ Arg("main") = v /\ Rest("main") = rest
              \/ do = "PowerWrite" /\ Arg("main") = v /\ Rest("main") = rest
              \/ do = "PowerRead" /\ Rest("main") = P2(v, rest)
  BY MainAt, Zenon
<1> HIDE DEF here, after
<1>3. CASE here
  BY <1>1, <1>3, Zenon DEF here
<1>4. ASSUME NEW v \in BOOLEAN, NEW rest \in Seq(Steps), after(v, rest),
             \/ do = "PowerCache" /\ Arg("main") = v /\ Rest("main") = rest
             \/ do = "PowerWrite" /\ Arg("main") = v /\ Rest("main") = rest
             \/ do = "PowerRead" /\ Rest("main") = P2(v, rest)
      PROVE  /\ do \in {"PowerCache", "PowerWrite", "PowerRead"}
             /\ do \in {"PowerCache", "PowerWrite"} =>
                  Rest("main") = rest /\ Arg("main") = v
             /\ do = "PowerRead" => Rest("main") = P2(v, rest)
  BY <1>4, Zenon
<1>q. QED
  BY <1>2, <1>3, <1>4, Zenon DEF after

(* A step of another thread leaves main in its place, unless it changed       *)
(* standby_ during a handler, which is to interfere.                         *)
LEMMA MainStays ==
  ASSUME MainInv, todo'["main"] = todo["main"], saved'["tmp"] = saved["tmp"],
         range_' = range_, Quiet' => Quiet, Credit(1) => Credit(1)',
         Quiet' /\ todo["main"] # <<>> => standby_' = standby_
  PROVE  MainInv'
<1>1. CASE todo["main"] = <<>>
  <2>1. Place(<<>>, standby_', Quiet', saved'["tmp"], range_', Credit(1)')
    BY PlaceBegins, Zenon
  <2>q. QED
    BY <1>1, <2>1, Zenon DEF MainInv
<1>2. CASE /\ todo["main"] # <<>>
           /\ Place(todo["main"], standby_, Quiet, saved["tmp"], range_, Credit(1))
  <2>1. Quiet' => Quiet /\ (standby_ => standby_') /\ (saved["tmp"] => saved'["tmp"])
    BY <1>2, Zenon
  <2>2. Place(todo["main"], standby_', Quiet', saved'["tmp"], range_, Credit(1)')
    BY <1>2, <2>1 DEF Place
  <2>q. QED
    BY <2>2, Zenon DEF MainInv
<1>3. ASSUME NEW v \in BOOLEAN, NEW rest \in Seq(Steps),
             todo["main"] \in {P1(v, rest), P2(v, rest), P3(v, rest)},
             Place(rest, v, Quiet, saved["tmp"], range_, Credit(1))
      PROVE  MainInv'
  <2>1. Quiet' => Quiet /\ (v => v) /\ (saved["tmp"] => saved'["tmp"])
    BY Zenon
  <2>2. Place(rest, v, Quiet', saved'["tmp"], range_, Credit(1)')
    BY <1>3, <2>1 DEF Place
  <2>q. QED
    BY <1>3, <2>2, Zenon DEF MainInv
<1>q. QED
  BY <1>1, <1>2, <1>3, Zenon DEF MainInv


(* Main goes on, or waits for SetStandBy to set standby to v.                *)
LEMMA MainMoves ==
  ASSUME NEW w, NEW t,
         Place(todo'["main"], w, Quiet, t, range_', Credit(1)),
         Quiet' => Quiet /\ standby_' = w /\ saved'["tmp"] = t, Credit(1) => Credit(1)'
  PROVE  MainInv'
<1>1. Place(todo'["main"], standby_', Quiet', saved'["tmp"], range_', Credit(1)')
  BY DEF Place
<1>q. QED
  BY <1>1, Zenon DEF MainInv

LEMMA MainWaits ==
  ASSUME NEW v \in BOOLEAN, NEW rest \in Seq(Steps),
         todo'["main"] \in {P1(v, rest), P2(v, rest), P3(v, rest)},
         Place(rest, v, Quiet, saved["tmp"], range_, Credit(1)),
         saved'["tmp"] = saved["tmp"], range_' = range_, Quiet' => Quiet,
         Credit(1) => Credit(1)'
  PROVE  MainInv'
<1>1. Place(rest, v, Quiet', saved'["tmp"], range_, Credit(1)')
  BY DEF Place
<1>q. QED
  BY <1>1, Zenon DEF MainInv

----------------------------------------------------------------------------
(* What the sensor does meanwhile                                           *)

(* standby_ and POWER_CTL agree, but when one of the threads is writing it, or *)
(* about to write it.                                                       *)
AgreeInv ==
  handlers >= 0 /\ Quiet =>
    \/ At("main", "PowerRead") \/ At("main", "PowerWrite")
    \/ At("main", "PowerCache") /\ chip.standby = Arg("main")
    \/ /\ ~At("main", "PowerCache")
       /\ \/ standby_ = chip.standby
          \/ todo["main"] \in {U0, U1}
          \/ At("control", "PowerCache")

(* A step of a handler other than those that write POWER_CTL.                *)
Handling == {"Save", "SetStandBy", "RestoreStandBy", "CacheRange", "WriteAll", "GetOffSet",
             "WriteOffSet"}

LEMMA HandlerAt ==
  ASSUME TypeInv, MainInv, NEW do \in Handling, At("main", do)
  PROVE  /\ todo["main"] \in Seq(Steps) /\ todo["main"] # <<>>
         /\ Doing(todo["main"]) = do
         /\ Arg("main") = With(todo["main"]) /\ Rest("main") = Tail(todo["main"])
         /\ Place(todo["main"], standby_, Quiet, saved["tmp"], range_, Credit(1))
<1>1. do \notin {"PowerCache", "PowerWrite", "PowerRead"}
  BY DEF Handling
<1>2. Place(todo["main"], standby_, Quiet, saved["tmp"], range_, Credit(1))
  BY <1>1, MainPlace, Zenon
<1>q. QED
  BY <1>2, MainAt, Zenon

LEMMA Handlings ==
  /\ "Save" \in Handling /\ "SetStandBy" \in Handling /\ "RestoreStandBy" \in Handling
  /\ "CacheRange" \in Handling /\ "WriteAll" \in Handling /\ "GetOffSet" \in Handling
  /\ "WriteOffSet" \in Handling
BY DEF Handling

LEMMA PlaceInStandby ==
  ASSUME NEW b, NEW v \in BOOLEAN, NEW t, NEW r, NEW k, Place(b, v, TRUE, t, r, k), b # <<>>,
         Doing(b) = "WriteAll" \/ Doing(b) = "WriteOffSet"
  PROVE  v = TRUE
<1>1. CASE Doing(b) = "WriteAll"
  <2>1. TRUE => v
    BY <1>1, PlaceWriteAll
  <2>q. QED
    BY <2>1
<1>2. CASE Doing(b) = "WriteOffSet"
  <2>1. TRUE => v
    BY <1>2, PlaceOffSet
  <2>q. QED
    BY <2>1
<1>q. QED
  BY <1>1, <1>2

(* The transfers of settings find the sensor in standby.                     *)
LEMMA InStandby ==
  ASSUME TypeInv, BootInv, ControlInv, MainInv, AgreeInv,
         At("main", "WriteAll") \/ At("main", "WriteOffSet"), Quiet
  PROVE  chip.standby
<1> DEFINE b == todo["main"]
<1>0. /\ b # <<>>
      /\ \A do : At("main", do) => do = Doing(b)
      /\ Doing(b) = "WriteAll" \/ Doing(b) = "WriteOffSet"
  BY AtIs, Zenon
<1>1. standby_
  <2>1. \E do \in Handling : At("main", do)
    BY <1>0, AtIs, Handlings, Zenon
  <2>2. Place(b, standby_, Quiet, saved["tmp"], range_, Credit(1))
    BY <2>1, HandlerAt, Zenon
  <2> DEFINE t == saved["tmp"]  k == Credit(1)
  <2>3. Place(b, standby_, TRUE, t, range_, k)
    BY <2>2 DEF Place
  <2>4. standby_ \in BOOLEAN
    BY DEF TypeInv, TypeOK
  <2> HIDE DEF k, t
  <2>5. standby_ = TRUE
    BY <1>0, <2>3, <2>4, PlaceInStandby, Zenon
  <2>q. QED
    BY <2>5
<1>2. ~At("main", "PowerRead") /\ ~At("main", "PowerWrite") /\ ~At("main", "PowerCache")
  BY <1>0
<1>3. b # U0 /\ b # U1
  <2>1. Doing(U0) = "SetStandBy" /\ Doing(U1) = "RestoreStandBy"
    BY UpdateLists, Zenon DEF Starts
  <2>2. "SetStandBy" # "WriteAll" /\ "SetStandBy" # "WriteOffSet"
        /\ "RestoreStandBy" # "WriteAll" /\ "RestoreStandBy" # "WriteOffSet"
    OBVIOUS
  <2>q. QED
    BY <1>0, <2>1, <2>2, Zenon
<1>4. ~At("control", "PowerCache")
  BY <1>0, Zenon DEF ControlInv
<1>5. handlers >= 0
  <2>1. ~(handlers < 0)
    BY <1>0, Zenon DEF BootInv
  <2>2. handlers \in Int
    BY RegistersAssumption DEF TypeInv, TypeOK
  <2>q. QED
    BY <2>1, <2>2
<1>6. standby_ = chip.standby
  BY <1>2, <1>3, <1>4, <1>5, Zenon DEF AgreeInv
<1>q. QED
  BY <1>1, <1>6, Zenon

LEMMA Counts ==
  ASSUME TypeInv
  PROVE  Pending \in {0, 1} /\ misscaled \in Nat /\ updates \in Nat
BY RegistersAssumption DEF Pending, TypeInv, TypeOK

(* What a step does to the samples misscaled and about to be.                *)
LEMMA CreditMoves ==
  ASSUME TypeInv, [Next]_vars, NEW j \in Nat, NEW k \in Nat,
         Quiet /\ "update" \notin failed /\ was_reset = "never" =>
           misscaled' + Pending' + k + updates <= misscaled + Pending + j + updates',
         Credit(j)
  PROVE  Credit(k)'
<1>1. TypeInv'
  BY TypesKept
<1>2. /\ Pending \in Nat /\ misscaled \in Nat /\ updates \in Nat
      /\ Pending' \in Nat /\ misscaled' \in Nat /\ updates' \in Nat
  <2>1. Pending' \in {0, 1}
    BY DEF Pending
  <2>2. misscaled' \in Nat /\ updates' \in Nat
    BY <1>1, RegistersAssumption DEF TypeInv, TypeOK
  <2>3. Pending \in {0, 1} /\ misscaled \in Nat /\ updates \in Nat
    BY Counts
  <2>q. QED
    BY <2>1, <2>2, <2>3
<1>3. SUFFICES ASSUME Quiet', "update" \notin failed', was_reset' = "never"
               PROVE  misscaled' + Pending' + k <= updates'
  BY Zenon DEF Credit
<1>4. Quiet /\ "update" \notin failed /\ was_reset = "never"
  BY <1>3, NoteKept, QuietBefore, ResetKept
<1>5. misscaled + Pending + j <= updates
  BY <1>4, Zenon DEF Credit
<1>6. misscaled' + Pending' + k + updates <= misscaled + Pending + j + updates'
  BY <1>4, Zenon
<1> DEFINE m == misscaled  p == Pending  m2 == misscaled'  p2 == Pending'
           u == updates  u2 == updates'
<1>7. /\ m \in Nat /\ p \in Nat /\ u \in Nat /\ m2 \in Nat /\ p2 \in Nat /\ u2 \in Nat
      /\ m + p + j <= u /\ m2 + p2 + k + u <= m + p + j + u2
  BY <1>2, <1>5, <1>6, Zenon
<1>8. SUFFICES m2 + p2 + k <= u2
  OBVIOUS
<1> HIDE DEF m, p, m2, p2, u, u2
<1>q. QED
  BY <1>7

(* A step that samples: the data that is ready is of the range remembered.    *)
LEMMA CreditSampled ==
  ASSUME TypeInv, BootInv, ControlInv, MainInv, AgreeInv, RangeAgrees,
         DataReady \/ ReadData \/ ParseDigitalAcc \/ ClearNewData,
         Quiet, "update" \notin failed, was_reset = "never"
  PROVE  misscaled' + Pending' <= misscaled + Pending /\ updates' = updates
<1>0. range_' = range_ /\ updates' = updates /\ misscaled \in Nat
  BY Counts DEF DataReady, ReadData, ParseDigitalAcc, ClearNewData, others, counts
<1>1. CASE DataReady
  <2>1. Scale(chip.range) = Scale(range_)
    <3>1. ~chip.standby /\ handlers >= 0
      BY <1>1 DEF DataReady
    <3>2. ~At("main", "WriteAll")
      BY <3>1, InStandby, Zenon
    <3>3. range_ = Protected(chip.range)
      BY <3>1, <3>2 DEF RangeAgrees, Quiet
    <3>q. QED
      BY <3>3 DEF Protected, Scale
  <2>2. data' = chip.range /\ measure' = measure /\ raw' = raw /\ misscaled' = misscaled
    BY <1>1 DEF DataReady
  <2>3. measure = "wait" => Pending' = 0
    BY <1>0, <2>1, <2>2 DEF Pending, Stale
  <2>4. measure # "wait" => Pending' = Pending
    BY <1>0, <2>2 DEF Pending, Stale
  <2>5. Pending \in {0, 1}
    BY Counts
  <2>q. QED
    BY <1>0, <2>2, <2>3, <2>4, <2>5
<1>2. CASE ReadData
  <2>1. /\ measure = "wait" /\ new_acc_data_ /\ measure' = "parse"
        /\ raw' = data \/ raw' = Nothing
        /\ misscaled' = misscaled
    BY <1>2 DEF ReadData
  <2>2. Pending' <= Pending
    BY <1>0, <2>1 DEF Pending, Stale
  <2>3. Pending \in {0, 1} /\ Pending' \in {0, 1}
    BY Counts DEF Pending
  <2> DEFINE p == Pending  p2 == Pending'
  <2>4. p2 <= p /\ p \in {0, 1} /\ p2 \in {0, 1}
    BY <2>2, <2>3, Zenon
  <2>5. misscaled' = misscaled
    BY <2>1, Zenon
  <2>6. SUFFICES misscaled + p2 <= misscaled + p
    BY <1>0, <2>5, Zenon
  <2> HIDE DEF p, p2
  <2>q. QED
    BY <1>0, <2>4
<1>3. CASE ParseDigitalAcc
  <2>1. /\ measure = "parse" /\ measure' = "clear"
        /\ \/ misscaled' = misscaled
           \/ raw # Nothing /\ Stale(raw) /\ misscaled' = misscaled + 1
    BY <1>3 DEF ParseDigitalAcc, Stale
  <2>2. Pending' = 0
    BY <2>1 DEF Pending
  <2>3. Pending \in {0, 1} /\ (raw # Nothing /\ Stale(raw) => Pending = 1)
    BY <2>1 DEF Pending
  <2>q. QED
    BY <1>0, <2>1, <2>2, <2>3
<1>4. CASE ClearNewData
  <2>1. measure = "clear" /\ measure' = "wait" /\ ~new_acc_data_' /\ misscaled' = misscaled
    BY <1>4 DEF ClearNewData
  <2>2. Pending' = 0 /\ Pending = 0
    BY <2>1 DEF Pending
  <2>q. QED
    BY <1>0, <2>1, <2>2
<1>q. QED
  BY <1>1, <1>2, <1>3, <1>4

(* A step that leaves the range remembered alone costs nothing.              *)
LEMMA CreditKept ==
  ASSUME TypeInv, BootInv, ControlInv, MainInv, AgreeInv, RangeAgrees, [Next]_vars,
         range_' = range_, NEW k \in Nat, Credit(k)
  PROVE  Credit(k)'
<1>1. misscaled \in Nat /\ Pending \in Nat /\ updates \in Nat
  BY Counts
<1>2. CASE DataReady \/ ReadData \/ ParseDigitalAcc \/ ClearNewData
  <2> SUFFICES ASSUME Quiet, "update" \notin failed, was_reset = "never"
               PROVE  misscaled' + Pending' + k + updates <= misscaled + Pending + k + updates'
    BY CreditMoves
  <2>1. misscaled' + Pending' <= misscaled + Pending /\ updates' = updates
    BY <1>2, CreditSampled
  <2>2. misscaled' \in Nat /\ Pending' \in Nat
    <3>1. TypeInv'
      BY TypesKept
    <3>q. QED
      BY <3>1, RegistersAssumption DEF TypeInv, TypeOK, Pending
  <2> DEFINE m == misscaled  p == Pending  m2 == misscaled'  p2 == Pending'
  <2>3. m2 + p2 <= m + p /\ m \in Nat /\ p \in Nat /\ m2 \in Nat /\ p2 \in Nat
    BY <1>1, <2>1, <2>2, Zenon
  <2>4. SUFFICES m2 + p2 + k + updates <= m + p + k + updates
    BY <2>1, Zenon
  <2> HIDE DEF m, p, m2, p2
  <2>q. QED
    BY <1>1, <2>3
<1>3. ASSUME UNCHANGED <<sampling, range_>>, updates' = updates \/ updates' = updates + 1
      PROVE  Credit(k)'
  <2>1. Pending' = Pending /\ misscaled' = misscaled
    BY <1>3 DEF Pending, Stale, sampling
  <2>2. misscaled' + Pending' + k + updates <= misscaled + Pending + k + updates'
    <3> DEFINE m == misscaled  p == Pending
    <3> SUFFICES m + p + k + updates <= m + p + k + updates'
      BY <2>1, Zenon
    <3> HIDE DEF m, p
    <3>q. QED
      BY <1>1, <1>3 DEF m, p
  <2>q. QED
    BY <2>2, CreditMoves
<1>4. CASE \E s \in Settings : RegAllUpdate(s)
  BY <1>3, <1>4, Zenon DEF RegAllUpdate
<1>q. QED
  BY <1>2, <1>3, <1>4, Zenon
  DEF Next, vars, Boot, CalibrationRequire, Begin, End, SaveStandBy, CacheRange, WriteAll,
      GetOffSet, WriteOffSet, WriteSettings, SetStandBy, PowerRead, PowerWrite, PowerCache, Tick,
      CheckModify, counts, sampling

(* An update may misscale one sample, and CacheRange is where it does.        *)
LEMMA CreditUpdate ==
  ASSUME TypeInv, [Next]_vars
  PROVE  /\ (\E s \in Settings : RegAllUpdate(s)) /\ Credit(0) => Credit(1)'
         /\ CacheRange /\ Credit(1) => Credit(0)'
<1>1. misscaled \in Nat /\ Pending \in {0, 1} /\ updates \in Nat
  BY Counts
<1>2. ASSUME NEW s \in Settings, RegAllUpdate(s), Credit(0)
      PROVE  Credit(1)'
  <2>1. Pending' = Pending /\ misscaled' = misscaled /\ updates' = updates + 1
    BY <1>2 DEF RegAllUpdate, Pending, Stale, sampling
  <2>2. misscaled' + Pending' + 1 + updates <= misscaled + Pending + 0 + updates'
    <3> DEFINE m == misscaled  p == Pending
    <3> SUFFICES m + p + 1 + updates <= m + p + 0 + (updates + 1)
      BY <2>1, Zenon
    <3>1. m \in Nat /\ p \in Nat
      BY <1>1
    <3> HIDE DEF m, p
    <3>q. QED
      BY <1>1, <3>1
  <2>q. QED
    BY <1>2, <2>2, CreditMoves
<1>3. ASSUME CacheRange, Credit(1)
      PROVE  Credit(0)'
  <2>1. Pending' \in {0, 1} /\ misscaled' = misscaled /\ updates' = updates
    BY <1>3 DEF CacheRange, Pending, sampling, counts
  <2>2. misscaled' + Pending' + 0 + updates <= misscaled + Pending + 1 + updates'
    <3> DEFINE m == misscaled  p == Pending  p2 == Pending'
    <3> SUFFICES m + p2 + 0 + updates <= m + p + 1 + updates
      BY <2>1, Zenon
    <3>1. m \in Nat /\ p \in {0, 1} /\ p2 \in {0, 1}
      BY <1>1, <2>1
    <3> HIDE DEF m, p, p2
    <3>q. QED
      BY <1>1, <3>1
  <2>q. QED
    BY <1>3, <2>2, CreditMoves
<1>q. QED
  BY <1>2, <1>3, Zenon

----------------------------------------------------------------------------
(* Every step keeps the invariant                                           *)

LEMMA MainKept ==
  ASSUME TypeInv, BootInv, ControlInv, MainInv, AgreeInv, RangeAgrees, Credit(0),
         [Next]_vars
  PROVE  MainInv'
<1> DEFINE b == todo["main"]
           tmp == saved["tmp"]
<1>0. (Quiet' => Quiet) /\ TypeInv'
  BY QuietBefore, TypesKept
<1>k. range_' = range_ => (Credit(1) => Credit(1)')
  BY CreditKept
<1>s. ASSUME todo'["main"] = todo["main"], saved'["tmp"] = saved["tmp"],
             range_' = range_, Quiet' /\ todo["main"] # <<>> => standby_' = standby_
      PROVE  MainInv'
  BY <1>0, <1>k, <1>s, MainStays, Zenon
<1>1. ASSUME NEW avg \in Asked, Boot(avg)
      PROVE  MainInv'
  <2>1. todo'["main"] = C8(avg, <<>>)
    BY <1>1, ListsAre DEF Boot, Continue, TypeInv
  <2>2. Place(C8(avg, <<>>), standby_', Quiet', saved'["tmp"], range_', Credit(1)')
    BY PlaceBegins, Zenon
  <2>q. QED
    BY <2>1, <2>2, Zenon DEF MainInv
<1>2. ASSUME NEW avg \in Asked, CalibrationRequire(avg)
      PROVE  MainInv'
  <2>1. todo'["main"] = C9(avg)
    BY <1>2, ListsAre DEF CalibrationRequire, Continue, TypeInv
  <2>2. Place(C9(avg), standby_', Quiet', saved'["tmp"], range_', Credit(1)')
    BY PlaceBegins, Zenon
  <2>q. QED
    BY <2>1, <2>2, Zenon DEF MainInv
<1>3. ASSUME NEW s \in Settings, RegAllUpdate(s)
      PROVE  MainInv'
  <2>1. PICK w \in Writing : todo'["main"] = U6(w)
    <3>1. U3(s) \in Writing /\ U1 \in Writing
      BY DEF Writing
    <3>2. Continue("main", U6(U3(s))) \/ Continue("main", U6(U1))
      BY <1>3, ListsAre, Zenon DEF RegAllUpdate
    <3>3. todo'["main"] = U6(U3(s)) \/ todo'["main"] = U6(U1)
      BY <3>2 DEF Continue, TypeInv
    <3>q. QED
      BY <3>1, <3>3, Zenon
  <2>2. Place(U6(w), standby_', Quiet', saved'["tmp"], range_', TRUE)
    BY PlaceBegins, Zenon
  <2>3. Credit(1)'
    BY <1>3, CreditUpdate, Zenon
  <2>4. Place(U6(w), standby_', Quiet', saved'["tmp"], range_', Credit(1)')
    BY <2>2, <2>3 DEF Place
  <2>q. QED
    BY <2>1, <2>4, Zenon DEF MainInv
<1>4. CASE SaveStandBy
  <2>1. At("main", "Save")
    BY <1>4, Zenon DEF SaveStandBy
  <2>2. /\ b # <<>> /\ Doing(b) = "Save"
        /\ Arg("main") = With(b) /\ Rest("main") = Tail(b)
    BY <2>1, HandlerAt, Handlings, Zenon
  <2>3. Place(b, standby_, Quiet, tmp, range_, Credit(1))
    BY <2>1, HandlerAt, Handlings, Zenon
  <2> DEFINE t == IF With(b) = "tmp" THEN standby_ ELSE tmp
  <2>4. With(b) \in Names
    BY <2>2, <2>3, PlaceSave, Zenon
  <2>5. Place(Tail(b), standby_, Quiet, t, range_, Credit(1))
    BY <2>2, <2>3, PlaceSave, Zenon
  <2>6. todo'["main"] = Tail(b)
    BY <1>4, <2>2 DEF SaveStandBy, Continue, TypeInv
  <2>7. saved'["tmp"] = t
    BY <1>4, <2>2, <2>4 DEF SaveStandBy, TypeInv, TypeOK, Names
  <2>8. standby_' = standby_ /\ range_' = range_
    BY <1>4, Zenon DEF SaveStandBy
  <2> HIDE DEF t
  <2>9. Place(todo'["main"], standby_, Quiet, t, range_', Credit(1))
    BY <2>5, <2>6, <2>8, Zenon
  <2>q. QED
    BY <1>0, <1>k, <2>7, <2>8, <2>9, MainMoves, Zenon
<1>5. CASE SetStandBy("main")
  <2> DEFINE w == IF At("main", "RestoreStandBy") THEN saved[Arg("main")] ELSE Arg("main")
  <2>1. PICK do \in {"SetStandBy", "RestoreStandBy"} : At("main", do)
    BY <1>5, Zenon DEF SetStandBy
  <2>2. do \in Handling
    BY DEF Handling
  <2>3. /\ b \in Seq(Steps) /\ b # <<>> /\ Doing(b) = do
        /\ Arg("main") = With(b) /\ Rest("main") = Tail(b)
    BY <2>1, <2>2, HandlerAt, Zenon
  <2>4. Place(b, standby_, Quiet, tmp, range_, Credit(1))
    BY <2>1, <2>2, HandlerAt, Zenon
  <2>5. At("main", "RestoreStandBy") <=> Doing(b) = "RestoreStandBy"
    BY <2>3, AtIs, Zenon
  <2>6. \/ Doing(b) = "SetStandBy" /\ w = With(b)
        \/ Doing(b) = "RestoreStandBy" /\ (With(b) = "tmp" => w = tmp)
    <3>1. CASE Doing(b) = "RestoreStandBy"
      BY <2>3, <2>5, <3>1, Zenon
    <3>2. CASE Doing(b) # "RestoreStandBy"
      <4>1. Doing(b) = "SetStandBy"
        BY <2>3, <3>2, Zenon
      <4>q. QED
        BY <2>3, <2>5, <3>2, <4>1, Zenon
    <3>q. QED
      BY <3>1, <3>2, Zenon
  <2>7. w \in BOOLEAN
    <3>1. /\ Doing(b) = "SetStandBy" => With(b) \in BOOLEAN
          /\ Doing(b) = "RestoreStandBy" => With(b) \in Names
      BY <2>3, StepTypes DEF Doing
    <3>q. QED
      BY <2>3, <2>5, <2>6, <3>1 DEF TypeInv, TypeOK, Names
  <2>8. Tail(b) \in Seq(Steps)
    BY <2>3
  <2>9. /\ standby_' = standby_ /\ range_' = range_ /\ saved' = saved
        /\ Continue("main", IF standby_ = w THEN Rest("main")
             ELSE <<Step("PowerRead", Nothing), Step("PowerWrite", w)>> \o Rest("main"))
    BY <1>5, Zenon DEF SetStandBy, locals
  <2> HIDE DEF w
  <2>10. Place(Tail(b), w, Quiet, tmp, range_, Credit(1))
    BY <2>3, <2>4, <2>6, PlaceStandBy, Zenon
  <2>11. CASE standby_ = w
    <3>1. todo'["main"] = Tail(b)
      BY <2>3, <2>9, <2>11 DEF Continue, TypeInv
    <3>2. Place(todo'["main"], w, Quiet, tmp, range_', Credit(1))
      BY <2>9, <2>10, <3>1, Zenon
    <3>q. QED
      BY <1>0, <1>k, <2>9, <2>11, <3>2, MainMoves, Zenon
  <2>12. CASE standby_ # w
    <3>1. Continue("main", P3(w, Tail(b)))
      BY <2>3, <2>7, <2>8, <2>9, <2>12, PowerListIs, Zenon
    <3>2. todo'["main"] \in {P1(w, Tail(b)), P2(w, Tail(b)), P3(w, Tail(b))}
      BY <3>1 DEF Continue, TypeInv
    <3>q. QED
      BY <1>0, <1>k, <2>7, <2>8, <2>9, <2>10, <3>2, MainWaits, Zenon
  <2>q. QED
    BY <2>11, <2>12
<1>6. CASE PowerRead("main")
  <2>1. At("main", "PowerRead") /\ Continue("main", Rest("main"))
        /\ range_' = range_ /\ saved' = saved
    BY <1>6, Zenon DEF PowerRead, locals
  <2>2. PICK v \in BOOLEAN, rest \in Seq(Steps) :
          /\ Rest("main") = P2(v, rest)
          /\ Place(rest, v, Quiet, saved["tmp"], range_, Credit(1))
    BY <2>1, MainPlace, Zenon
  <2>3. todo'["main"] \in {P1(v, rest), P2(v, rest), P3(v, rest)}
    BY <2>1, <2>2 DEF Continue, TypeInv
  <2>q. QED
    BY <1>0, <1>k, <2>1, <2>2, <2>3, MainWaits, Zenon
<1>7. CASE PowerWrite("main")
  <2>1. /\ At("main", "PowerWrite") /\ range_' = range_ /\ saved' = saved
        /\ \/ Continue("main", <<Step("PowerCache", Arg("main"))>> \o Rest("main"))
           \/ Fails("power") /\ Continue("main", Rest("main"))
    BY <1>7, Zenon DEF PowerWrite, locals
  <2>2. /\ Rest("main") \in Seq(Steps) /\ Arg("main") \in BOOLEAN
        /\ Place(Rest("main"), Arg("main"), Quiet, saved["tmp"], range_, Credit(1))
    BY <2>1, MainPlace, Zenon
  <2> DEFINE v == Arg("main")  rest == Rest("main")
  <2>3. v \in BOOLEAN /\ rest \in Seq(Steps)
    BY <2>2, Zenon
  <2>4. Place(rest, v, Quiet, tmp, range_, Credit(1))
    BY <2>2, Zenon
  <2> HIDE DEF v, rest
  <2>5. CASE Continue("main", <<Step("PowerCache", v)>> \o rest)
    <3>1. Continue("main", P1(v, rest))
      BY <2>3, <2>5, PowerListIs, Zenon
    <3>2. todo'["main"] \in {P1(v, rest), P2(v, rest), P3(v, rest)}
      BY <3>1 DEF Continue, TypeInv
    <3>q. QED
      BY <1>0, <1>k, <2>1, <2>3, <2>4, <3>2, MainWaits, Zenon
  <2>6. CASE Fails("power") /\ Continue("main", rest)
    <3>1. todo'["main"] = rest
      BY <2>6 DEF Continue, TypeInv
    <3>2. ~Quiet'
      BY <2>6 DEF Fails, Quiet
    <3>3. Place(todo'["main"], v, Quiet, tmp, range_', Credit(1))
      BY <2>1, <2>4, <3>1, Zenon
    <3>q. QED
      BY <1>0, <1>k, <2>1, <3>2, <3>3, MainMoves, Zenon
  <2>q. QED
    BY <2>1, <2>5, <2>6, Zenon DEF v, rest
<1>8. CASE PowerCache("main")
  <2>1. /\ At("main", "PowerCache") /\ range_' = range_ /\ saved' = saved
        /\ Continue("main", Rest("main")) /\ standby_' = Arg("main")
    BY <1>8, Zenon DEF PowerCache, locals
  <2>2. Place(Rest("main"), Arg("main"), Quiet, saved["tmp"], range_, Credit(1))
    BY <2>1, MainPlace, Zenon
  <2>3. todo'["main"] = Rest("main")
    BY <2>1 DEF Continue, TypeInv
  <2>4. Place(todo'["main"], Arg("main"), Quiet, tmp, range_', Credit(1))
    BY <2>1, <2>2, <2>3, Zenon
  <2>q. QED
    BY <1>0, <1>k, <2>1, <2>4, MainMoves, Zenon
<1>9. CASE CacheRange
  <2>1. /\ At("main", "CacheRange") /\ range_' = Protected(Arg("main").range)
        /\ Continue("main", Rest("main"))
        /\ saved' = saved /\ standby_' = standby_
        /\ failed' = failed /\ interfered' = interfered
    BY <1>9, Zenon DEF CacheRange, locals
  <2>2. /\ b # <<>> /\ Doing(b) = "CacheRange"
        /\ Arg("main") = With(b) /\ Rest("main") = Tail(b)
    BY <2>1, HandlerAt, Handlings, Zenon
  <2>3. Place(b, standby_, Quiet, tmp, range_, Credit(1))
    BY <2>1, HandlerAt, Handlings, Zenon
  <2>4. Place(Tail(b), standby_, Quiet, tmp, Protected(With(b).range), FALSE)
    BY <2>2, <2>3, PlaceRange, Zenon
  <2>5. todo'["main"] = Tail(b)
    BY <2>1, <2>2 DEF Continue, TypeInv
  <2>6. Place(todo'["main"], standby_, Quiet, tmp, range_', FALSE)
    BY <2>1, <2>2, <2>4, <2>5, Zenon
  <2>7. Quiet' <=> Quiet
    BY <2>1 DEF Quiet
  <2>8. Place(todo'["main"], standby_', Quiet', saved'["tmp"], range_', Credit(1)')
    BY <2>1, <2>6, <2>7 DEF Place
  <2>q. QED
    BY <2>8, Zenon DEF MainInv
<1>10. ASSUME NEW do \in {"WriteAll", "GetOffSet", "WriteOffSet"}, At("main", do),
              Continue("main", Rest("main")), range_' = range_, saved' = saved,
              standby_' = standby_
       PROVE  MainInv'
  <2>1. do \in Handling
    BY DEF Handling
  <2>2. /\ b # <<>> /\ Doing(b) = do /\ Rest("main") = Tail(b)
    BY <1>10, <2>1, HandlerAt, Zenon
  <2>3. Place(b, standby_, Quiet, tmp, range_, Credit(1))
    BY <1>10, <2>1, HandlerAt, Zenon
  <2>4. Place(Tail(b), standby_, Quiet, tmp, range_, Credit(1))
    BY <2>2, <2>3, PlaceWriteAll, PlaceOffSet, Zenon
  <2>5. todo'["main"] = Tail(b)
    BY <1>10, <2>2 DEF Continue, TypeInv
  <2>6. Place(todo'["main"], standby_, Quiet, tmp, range_', Credit(1))
    BY <1>10, <2>4, <2>5, Zenon
  <2>q. QED
    BY <1>0, <1>k, <1>10, <2>6, MainMoves, Zenon
<1>11. CASE WriteAll
  BY <1>10, <1>11, Zenon DEF WriteAll, WriteSettings, locals
<1>12. CASE GetOffSet
  BY <1>10, <1>12, Zenon DEF GetOffSet
<1>13. CASE WriteOffSet
  BY <1>10, <1>13, Zenon DEF WriteOffSet, WriteSettings, locals
<1>14. CASE SetStandBy("control") \/ PowerRead("control") \/ Tick \/ CheckModify
  <2>1. /\ range_' = range_ /\ saved' = saved /\ standby_' = standby_
        /\ \E steps : Continue("control", steps)
    BY <1>14, Zenon DEF SetStandBy, PowerRead, Tick, CheckModify, locals
  <2>2. todo'["main"] = todo["main"]
    BY <2>1 DEF Continue, TypeInv
  <2>q. QED
    BY <1>s, <2>1, <2>2, Zenon
<1>15. CASE PowerWrite("control") \/ PowerCache("control")
  <2>1. /\ range_' = range_ /\ saved' = saved
        /\ \E steps : Continue("control", steps)
        /\ interfered' = (interfered \/ todo["main"] # <<>>)
    BY <1>15, Zenon DEF PowerWrite, PowerCache, locals, Interferes
  <2>2. todo'["main"] = todo["main"]
    BY <2>1 DEF Continue, TypeInv
  <2>3. ~(Quiet' /\ todo["main"] # <<>>)
    BY <2>1, Zenon DEF Quiet
  <2>q. QED
    BY <1>s, <2>1, <2>2, <2>3, Zenon
<1>16. CASE UNCHANGED <<todo, saved, range_, standby_>>
  BY <1>s, <1>16, Zenon
<1>q. QED
  BY <1>1, <1>2, <1>3, <1>4, <1>5, <1>6, <1>7, <1>8, <1>9, <1>11, <1>12, <1>13, <1>14,
     <1>15, <1>16, Zenon
  DEF Next, Asked, vars, End, DataReady, ReadData, ParseDigitalAcc, ClearNewData, others,
      locals


(* What is remembered of the range is what the sensor has, once written.     *)
LEMMA RangeKept ==
  ASSUME TypeInv, BootInv, MainInv, RangeAgrees, [Next]_vars
  PROVE  RangeAgrees'
<1>0. failed \subseteq failed'
  BY NoteKept
<1>1. ASSUME NEW avg \in Asked, Boot(avg)
      PROVE  RangeAgrees'
  <2>1. range_' = 2
    BY <1>1 DEF Boot, BootInv
  <2>2. chip \in [range : 0 .. 3, standby : BOOLEAN, offset : Int16]
    BY DEF TypeInv, TypeOK
  <2>3. "boot" \notin failed' => chip'.range = 2
    BY <1>1, <2>2 DEF Boot, Fails
  <2>q. QED
    BY <2>1, <2>3 DEF RangeAgrees, Protected
<1>2. ASSUME range_' = range_, chip'.range = chip.range, handlers' >= 0 => handlers >= 0,
             was_reset' = was_reset, ~At("main", "WriteAll")' => ~At("main", "WriteAll")
      PROVE  RangeAgrees'
  BY <1>0, <1>2 DEF RangeAgrees
<1>3. handlers \in Int
  BY RegistersAssumption DEF TypeInv, TypeOK
<1>4. CASE (\E avg \in Asked : CalibrationRequire(avg)) \/ \E s \in Settings : RegAllUpdate(s)
  <2>1. /\ range_' = range_ /\ chip' = chip /\ handlers >= 0 /\ todo["main"] = <<>>
        /\ was_reset' = was_reset
    BY <1>3, <1>4, RegistersAssumption DEF CalibrationRequire, RegAllUpdate, Begin, ghosts
  <2>2. ~At("main", "WriteAll")
    BY <2>1 DEF At
  <2>q. QED
    BY <1>2, <2>1, <2>2
<1>5. CASE CacheRange
  <2>1. At("main", "CacheRange") /\ Continue("main", Rest("main"))
    BY <1>5, Zenon DEF CacheRange
  <2>2. todo["main"] # <<>> /\ Doing(todo["main"]) = "CacheRange" /\ Rest("main") = Tail(todo["main"])
    BY <2>1, HandlerAt, Handlings, Zenon
  <2>3. Place(todo["main"], standby_, Quiet, saved["tmp"], range_, Credit(1))
    BY <2>1, HandlerAt, Handlings, Zenon
  <2>4. Tail(todo["main"]) # <<>> /\ Doing(Tail(todo["main"])) = "WriteAll"
    BY <2>2, <2>3, PlaceRange, Zenon
  <2>5. At("main", "WriteAll")'
    BY <2>1, <2>2, <2>4 DEF At, Doing, Continue, TypeInv
  <2>q. QED
    BY <2>5, Zenon DEF RangeAgrees
<1>6. CASE WriteAll
  <2>1. /\ At("main", "WriteAll")
        /\ \/ /\ chip' = Registers(Arg("main"))
              /\ Arg("main").reset => was_reset' = "last"
           \/ Fails("update")
        /\ range_' = range_
    BY <1>6, Zenon DEF WriteAll, WriteSettings
  <2>2. todo["main"] # <<>> /\ Doing(todo["main"]) = "WriteAll" /\ Arg("main") = With(todo["main"])
    BY <2>1, HandlerAt, Handlings, Zenon
  <2>3. Place(todo["main"], standby_, Quiet, saved["tmp"], range_, Credit(1))
    BY <2>1, HandlerAt, Handlings, Zenon
  <2>4. range_ = Protected(Arg("main").range)
    BY <2>2, <2>3, PlaceWriteAll, Zenon
  <2>5. CASE chip' = Registers(Arg("main")) /\ (Arg("main").reset => was_reset' = "last")
    BY <2>1, <2>4, <2>5 DEF RangeAgrees, Registers
  <2>6. CASE Fails("update")
    BY <2>6 DEF Fails, RangeAgrees
  <2>q. QED
    BY <2>1, <2>5, <2>6
<1>7. ASSUME NEW do, At("main", do), do # "WriteAll", range_' = range_,
             chip'.range = chip.range, handlers' = handlers, was_reset' = was_reset
      PROVE  RangeAgrees'
  <2>1. ~At("main", "WriteAll")
    BY <1>7 DEF At
  <2>q. QED
    BY <1>2, <1>7, <2>1
<1>8. CASE SaveStandBy \/ GetOffSet \/ WriteOffSet \/ SetStandBy("main") \/ PowerRead("main")
           \/ PowerWrite("main") \/ PowerCache("main")
  <2>1. /\ chip' = chip \/ (\E v : chip' = [chip EXCEPT !.offset = v])
           \/ (\E v : chip' = [chip EXCEPT !.standby = v])
        /\ range_' = range_ /\ handlers' = handlers /\ was_reset' = was_reset
    BY <1>8, Zenon
    DEF SaveStandBy, GetOffSet, WriteOffSet, WriteSettings, SetStandBy, PowerRead, PowerWrite,
        PowerCache, counts, ghosts
  <2>2. chip'.range = chip.range
    BY <2>1 DEF TypeInv, TypeOK
  <2>3. \E do \in {"Save", "GetOffSet", "WriteOffSet", "SetStandBy", "RestoreStandBy",
                   "PowerRead", "PowerWrite", "PowerCache"} : At("main", do)
    BY <1>8, Zenon
    DEF SaveStandBy, GetOffSet, WriteOffSet, SetStandBy, PowerRead, PowerWrite, PowerCache
  <2>4. PICK do : At("main", do) /\ do # "WriteAll"
    BY <2>3
  <2>q. QED
    BY <1>7, <2>1, <2>2, <2>4
<1>9. CASE SetStandBy("control") \/ PowerRead("control") \/ PowerWrite("control")
           \/ PowerCache("control") \/ Tick \/ CheckModify
  <2>1. /\ chip' = chip \/ \E v : chip' = [chip EXCEPT !.standby = v]
        /\ range_' = range_ /\ handlers' = handlers /\ was_reset' = was_reset
        /\ \E steps : Continue("control", steps)
    BY <1>9, Zenon
    DEF SetStandBy, PowerRead, PowerWrite, PowerCache, Tick, CheckModify, counts, ghosts
  <2>2. chip'.range = chip.range
    BY <2>1 DEF TypeInv, TypeOK
  <2>3. todo'["main"] = todo["main"]
    BY <2>1 DEF Continue, TypeInv
  <2>q. QED
    BY <1>2, <2>1, <2>2, <2>3 DEF At
<1>10. CASE UNCHANGED <<chip, range_, handlers, todo, was_reset>>
  BY <1>2, <1>10 DEF At
<1>q. QED
  BY <1>1, <1>4, <1>5, <1>6, <1>8, <1>9, <1>10, Zenon
  DEF Next, Asked, vars, End, DataReady, ReadData, ParseDigitalAcc, ClearNewData, others,
      counts, ghosts

LEMMA WritesKept ==
  ASSUME TypeInv, BootInv, ControlInv, MainInv, AgreeInv, WritesInStandby, [Next]_vars
  PROVE  WritesInStandby'
<1> SUFFICES ASSUME Quiet', unprotected'
             PROVE  FALSE
  BY DEF WritesInStandby
<1>1. Quiet /\ ~unprotected
  BY QuietBefore DEF WritesInStandby
<1>2. CASE WriteAll \/ WriteOffSet
  <2>1. At("main", "WriteAll") \/ At("main", "WriteOffSet")
    BY <1>2, Zenon DEF WriteAll, WriteOffSet
  <2>2. chip.standby
    BY <1>1, <2>1, InStandby, Zenon
  <2>q. QED
    BY <1>1, <1>2, <2>2, Zenon DEF WriteAll, WriteOffSet, WriteSettings
<1>3. CASE unprotected' = unprotected
  BY <1>1, <1>3
<1>q. QED
  BY <1>2, <1>3, Zenon
  DEF Next, vars, Boot, CalibrationRequire, RegAllUpdate, End, SaveStandBy, CacheRange,
      GetOffSet, SetStandBy, PowerRead, PowerWrite, PowerCache, Tick, CheckModify, DataReady,
      ReadData, ParseDigitalAcc, ClearNewData, others, ghosts


(* Between the steps that write POWER_CTL, and but for what an update wrote,   *)
(* standby_ is what the sensor has.                                         *)
LEMMA Agreed ==
  ASSUME TypeInv, BootInv, ControlInv, MainInv, AgreeInv, Quiet,
         NEW do \in Handling, At("main", do), todo["main"] # U0, todo["main"] # U1
  PROVE  standby_ = chip.standby
<1>1. todo["main"] # <<>> /\ Doing(todo["main"]) = do
  BY HandlerAt, Zenon
<1>2. handlers >= 0
  <2>1. ~(handlers < 0)
    BY <1>1, Zenon DEF BootInv
  <2>2. handlers \in Int
    BY RegistersAssumption DEF TypeInv, TypeOK
  <2>q. QED
    BY <2>1, <2>2
<1>3. ~At("control", "PowerCache")
  BY <1>1, Zenon DEF ControlInv
<1>4. ~At("main", "PowerRead") /\ ~At("main", "PowerWrite") /\ ~At("main", "PowerCache")
  <2>1. do # "PowerRead" /\ do # "PowerWrite" /\ do # "PowerCache"
    BY DEF Handling
  <2>2. \A d : At("main", d) => d = do
    BY <1>1, AtIs, Zenon
  <2>q. QED
    BY <2>1, <2>2, Zenon
<1>q. QED
  BY <1>2, <1>3, <1>4, Zenon DEF AgreeInv

(* After a step to a place of a handler, the two agree again.                 *)
LEMMA AgreeAfter ==
  ASSUME NEW b, NEW v, NEW t, NEW r, NEW k, todo'["main"] = b, Place(b, v, TRUE, t, r, k),
         Quiet' => standby_' = chip'.standby \/ b = U0 \/ b = U1
  PROVE  AgreeInv'
<1>1. ~At("main", "PowerCache")'
  <2>1. CASE b = <<>>
    BY <2>1 DEF At
  <2>2. CASE b # <<>>
    <3>1. Doing(b) \in {"Save", "SetStandBy", "RestoreStandBy", "CacheRange", "WriteAll",
                        "GetOffSet", "WriteOffSet"}
      BY <2>2, PlaceDoes, Zenon
    <3>2. At("main", "PowerCache")' => Doing(b) = "PowerCache"
      BY DEF At, Doing
    <3>q. QED
      BY <3>1, <3>2
  <2>q. QED
    BY <2>1, <2>2
<1>2. b = U0 \/ b = U1 => todo'["main"] \in {U0, U1}
  OBVIOUS
<1>q. QED
  BY <1>1, <1>2, Zenon DEF AgreeInv

(* After the transfer of an update the program takes the sensor as in standby. *)
LEMMA PlaceUpdated ==
  ASSUME NEW v \in BOOLEAN, NEW t, NEW r, NEW k, Place(U0, v, TRUE, t, r, k)
  PROVE  v = TRUE
<1>1. U0 # <<>> /\ Doing(U0) = "SetStandBy" /\ With(U0) = FALSE /\ Tail(U0) = <<>>
  BY UpdateLists, Zenon DEF Starts
<1>2. /\ \A a \in Asked : U0 # C9(a)
      /\ \A a \in Asked, e \in Ends : U0 # C7(a, e)
      /\ \A e \in Ends : U0 # C3(e)
  <2>1. ASSUME NEW a \in Asked, NEW e \in Ends
        PROVE  /\ With(C9(a)) = TRUE /\ With(C3(e)) = TRUE
               /\ Tail(C7(a, e)) = C6(a, e) /\ C6(a, e) # <<>>
    BY CalibrationLists, Zenon DEF Starts
  <2>2. NoSamples \in Asked /\ C0 \in Ends
    BY DEF Asked, Ends
  <2>3. TRUE # FALSE
    OBVIOUS
  <2>q. QED
    BY <1>1, <2>1, <2>2, <2>3, ZenonT(40)
<1>3. \A w \in Writing : U0 # U6(w) /\ U0 # U4(w)
  <2>1. \A w \in Writing : With(U6(w)) = TRUE /\ With(U4(w)) = TRUE
    BY UpdateLists, Zenon DEF Starts
  <2>2. TRUE # FALSE
    OBVIOUS
  <2>q. QED
    BY <1>1, <2>1, <2>2, Zenon
<1>4. TRUE => v
  BY <1>1, <1>2, <1>3, PlaceHead
<1>q. QED
  BY <1>4

LEMMA AgreeKept ==
  ASSUME TypeInv, BootInv, ControlInv, MainInv, AgreeInv, [Next]_vars
  PROVE  AgreeInv'
<1> DEFINE b == todo["main"]
           tmp == saved["tmp"]
<1> SUFFICES ASSUME Quiet', handlers' >= 0
             PROVE  AgreeInv'
  BY DEF AgreeInv
<1>0. Quiet /\ TypeInv'
  BY QuietBefore, TypesKept
<1>c. chip \in [range : 0 .. 3, standby : BOOLEAN, offset : Int16]
      /\ handlers \in Int /\ standby_ \in BOOLEAN
  BY RegistersAssumption DEF TypeInv, TypeOK
<1>1. ASSUME NEW avg \in Asked, Boot(avg)
      PROVE  AgreeInv'
  <2>1. "boot" \notin failed' /\ standby_' = TRUE
    BY <1>1 DEF Quiet, Boot
  <2>2. chip'.standby = TRUE
    BY <1>1, <2>1 DEF Boot, Fails, Fresh
  <2>3. todo'["main"] = C8(avg, <<>>)
    BY <1>1, ListsAre DEF Boot, Continue, TypeInv
  <2>4. Place(C8(avg, <<>>), TRUE, TRUE, TRUE, 2, TRUE)
    BY PlaceBegins, Zenon
  <2>5. standby_' = chip'.standby
    BY <2>1, <2>2
  <2>q. QED
    BY <2>3, <2>4, <2>5, AgreeAfter, Zenon
<1>2. ASSUME Begin, chip' = chip, standby_' = standby_
      PROVE  standby_' = chip'.standby
  <2>1. handlers >= 0 /\ b = <<>>
    BY <1>c, <1>2, RegistersAssumption DEF Begin
  <2>2. ~At("main", "PowerRead") /\ ~At("main", "PowerWrite") /\ ~At("main", "PowerCache")
    BY <2>1 DEF At
  <2>3. b # U0 /\ b # U1
    BY <2>1, UpdateLists, Zenon DEF Starts
  <2>4. ~At("control", "PowerCache")
    BY <1>2, Zenon DEF Begin, Quiet
  <2>5. standby_ = chip.standby
    BY <1>0, <2>1, <2>2, <2>3, <2>4, Zenon DEF AgreeInv
  <2>q. QED
    BY <1>2, <2>5
<1>3. ASSUME NEW avg \in Asked, CalibrationRequire(avg)
      PROVE  AgreeInv'
  <2>1. standby_' = chip'.standby
    BY <1>2, <1>3, Zenon DEF CalibrationRequire
  <2>2. todo'["main"] = C9(avg)
    BY <1>3, ListsAre DEF CalibrationRequire, Continue, TypeInv
  <2>3. Place(C9(avg), TRUE, TRUE, TRUE, 2, TRUE)
    BY PlaceBegins, Zenon
  <2>q. QED
    BY <2>1, <2>2, <2>3, AgreeAfter, Zenon
<1>4. ASSUME NEW s \in Settings, RegAllUpdate(s)
      PROVE  AgreeInv'
  <2>1. standby_' = chip'.standby
    BY <1>2, <1>4, Zenon DEF RegAllUpdate
  <2>2. PICK w \in Writing : todo'["main"] = U6(w)
    <3>1. U3(s) \in Writing /\ U1 \in Writing
      BY DEF Writing
    <3>2. Continue("main", U6(U3(s))) \/ Continue("main", U6(U1))
      BY <1>4, ListsAre, Zenon DEF RegAllUpdate
    <3>3. todo'["main"] = U6(U3(s)) \/ todo'["main"] = U6(U1)
      BY <3>2 DEF Continue, TypeInv
    <3>q. QED
      BY <3>1, <3>3, Zenon
  <2>3. Place(U6(w), TRUE, TRUE, TRUE, 2, TRUE)
    BY PlaceBegins, Zenon
  <2>q. QED
    BY <2>1, <2>2, <2>3, AgreeAfter, Zenon
<1>5. ASSUME NEW do \in Handling, At("main", do)
      PROVE  /\ b # <<>> /\ Doing(b) = do
             /\ Arg("main") = With(b) /\ Rest("main") = Tail(b)
             /\ Place(b, standby_, TRUE, tmp, range_, Credit(1))
             /\ \/ standby_ = chip.standby
                \/ b = U0 /\ do = "SetStandBy"
                \/ b = U1 /\ do = "RestoreStandBy"
  <2>1. b # <<>> /\ Doing(b) = do /\ Arg("main") = With(b) /\ Rest("main") = Tail(b)
    BY <1>5, HandlerAt, Zenon
  <2>2. Place(b, standby_, Quiet, tmp, range_, Credit(1))
    BY <1>5, HandlerAt, Zenon
  <2>3. Place(b, standby_, TRUE, tmp, range_, Credit(1))
    BY <1>0, <2>2 DEF Place
  <2>4. Doing(U0) = "SetStandBy" /\ Doing(U1) = "RestoreStandBy"
    BY UpdateLists, Zenon DEF Starts
  <2>5. \/ standby_ = chip.standby
        \/ b = U0 /\ do = "SetStandBy"
        \/ b = U1 /\ do = "RestoreStandBy"
    BY <1>0, <1>5, <2>1, <2>4, Agreed, Zenon
  <2>q. QED
    BY <2>1, <2>3, <2>5
<1>6. ASSUME NEW do \in {"Save", "CacheRange", "GetOffSet", "WriteOffSet"}, At("main", do),
             Continue("main", Rest("main")), chip'.standby = chip.standby,
             standby_' = standby_
      PROVE  AgreeInv'
  <2> DEFINE k == Credit(1)
  <2>1. do \in Handling /\ do # "SetStandBy" /\ do # "RestoreStandBy"
    BY DEF Handling
  <2>2. b # <<>> /\ Doing(b) = do /\ Rest("main") = Tail(b)
    BY <1>5, <1>6, <2>1, Zenon
  <2>3. Place(b, standby_, TRUE, tmp, range_, k)
    BY <1>5, <1>6, <2>1, Zenon
  <2>4. standby_ = chip.standby
    BY <1>5, <1>6, <2>1, Zenon
  <2>5. todo'["main"] = Tail(b)
    BY <1>6, <2>2 DEF Continue, TypeInv
  <2>6. standby_' = chip'.standby
    BY <1>6, <2>4
  <2> HIDE DEF k
  <2>7. \E t, r, k2 : Place(Tail(b), standby_, TRUE, t, r, k2)
    <3>1. CASE do = "Save"
      BY <2>2, <2>3, <3>1, PlaceSave, Zenon
    <3>2. CASE do = "CacheRange"
      BY <2>2, <2>3, <3>2, PlaceRange, Zenon
    <3>3. CASE do = "GetOffSet" \/ do = "WriteOffSet"
      BY <2>2, <2>3, <3>3, PlaceOffSet, Zenon
    <3>q. QED
      BY <1>6, <3>1, <3>2, <3>3, Zenon
  <2>q. QED
    BY <2>5, <2>6, <2>7, AgreeAfter, Zenon
<1>7. CASE SaveStandBy \/ CacheRange \/ GetOffSet
  BY <1>6, <1>7, Zenon DEF SaveStandBy, CacheRange, GetOffSet
<1>8. CASE WriteOffSet
  <2>1. /\ At("main", "WriteOffSet") /\ Continue("main", Rest("main")) /\ standby_' = standby_
        /\ chip' = chip \/ \E v : chip' = [chip EXCEPT !.offset = v]
    BY <1>8, Zenon DEF WriteOffSet, WriteSettings
  <2>2. chip'.standby = chip.standby
    BY <1>c, <2>1
  <2>q. QED
    BY <1>6, <2>1, <2>2, Zenon
<1>9. CASE WriteAll
  <2>1. At("main", "WriteAll") /\ Continue("main", Rest("main"))
    BY <1>9, Zenon DEF WriteAll, WriteSettings
  <2> DEFINE k == Credit(1)
  <2>2. b # <<>> /\ Doing(b) = "WriteAll" /\ Rest("main") = Tail(b)
    BY <1>5, <2>1, Handlings, Zenon
  <2>3. Place(b, standby_, TRUE, tmp, range_, k)
    BY <1>5, <2>1, Handlings, Zenon
  <2> HIDE DEF k
  <2>4. Tail(b) = U1 /\ Place(Tail(b), standby_, TRUE, tmp, range_, k)
    BY <2>2, <2>3, PlaceWriteAll, Zenon
  <2>5. todo'["main"] = Tail(b)
    BY <2>1, <2>2 DEF Continue, TypeInv
  <2>q. QED
    BY <2>4, <2>5, AgreeAfter, Zenon
<1>10. ASSUME NEW do \in {"PowerRead", "PowerWrite"}, At("main", do)'
       PROVE  AgreeInv'
  BY <1>10, Zenon DEF AgreeInv
<1>11. CASE SetStandBy("main")
  <2> DEFINE w == IF At("main", "RestoreStandBy") THEN saved[Arg("main")] ELSE Arg("main")
             k == Credit(1)
  <2>1. PICK do \in {"SetStandBy", "RestoreStandBy"} : At("main", do)
    BY <1>11, Zenon DEF SetStandBy
  <2>2. do \in Handling
    BY DEF Handling
  <2>3. b # <<>> /\ Doing(b) = do /\ Arg("main") = With(b) /\ Rest("main") = Tail(b)
    BY <1>5, <2>1, <2>2, Zenon
  <2>4. Place(b, standby_, TRUE, tmp, range_, k)
    BY <1>5, <2>1, <2>2, Zenon
  <2>5. At("main", "RestoreStandBy") <=> Doing(b) = "RestoreStandBy"
    BY <2>3, AtIs, Zenon
  <2>6. \/ Doing(b) = "SetStandBy" /\ w = With(b)
        \/ Doing(b) = "RestoreStandBy" /\ (With(b) = "tmp" => w = tmp)
    <3>1. CASE Doing(b) = "RestoreStandBy"
      BY <2>3, <2>5, <3>1, Zenon
    <3>2. CASE Doing(b) # "RestoreStandBy"
      <4>1. Doing(b) = "SetStandBy"
        BY <2>3, <3>2, Zenon
      <4>q. QED
        BY <2>3, <2>5, <3>2, <4>1, Zenon
    <3>q. QED
      BY <3>1, <3>2, Zenon
  <2>7. w \in BOOLEAN /\ Tail(b) \in Seq(Steps)
    <3>1. b \in Seq(Steps)
      BY AtIs, Zenon
    <3>2. /\ Tail(b) \in Seq(Steps)
          /\ Doing(b) = "SetStandBy" => With(b) \in BOOLEAN
          /\ Doing(b) = "RestoreStandBy" => With(b) \in Names
      BY <2>3, <3>1, StepTypes DEF Doing
    <3>q. QED
      BY <2>3, <2>5, <2>6, <3>2 DEF TypeInv, TypeOK, Names
  <2>8. /\ standby_' = standby_ /\ chip' = chip
        /\ Continue("main", IF standby_ = w THEN Rest("main")
             ELSE <<Step("PowerRead", Nothing), Step("PowerWrite", w)>> \o Rest("main"))
    BY <1>11, Zenon DEF SetStandBy
  <2>9. \/ standby_ = chip.standby
        \/ b = U0 /\ do = "SetStandBy"
        \/ b = U1 /\ do = "RestoreStandBy"
    BY <1>5, <2>1, <2>2, Zenon
  <2> HIDE DEF w, k
  <2>10. Place(Tail(b), w, TRUE, tmp, range_, k)
    BY <2>3, <2>4, <2>6, PlaceStandBy, Zenon
  <2>11. CASE standby_ = w
    <3>1. todo'["main"] = Tail(b)
      BY <2>3, <2>8, <2>11 DEF Continue, TypeInv
    <3>2. b = U1 => Tail(b) = U0
      BY UpdateLists, Zenon DEF Starts
    <3>3. b # U0 \/ standby_ # TRUE
      <4>1. b = U0 => w = FALSE
        <5>1. b = U0 => With(b) = FALSE /\ Doing(b) = "SetStandBy"
          BY UpdateLists, Zenon DEF Starts
        <5>q. QED
          BY <2>6, <5>1
      <4>q. QED
        BY <2>11, <4>1
    <3>4. b = U0 => standby_ = TRUE
      <4>1. ASSUME b = U0
            PROVE  standby_ = TRUE
        <5>1. Place(U0, standby_, TRUE, tmp, range_, k)
          BY <2>4, <4>1, Zenon
        <5>q. QED
          BY <1>c, <5>1, PlaceUpdated, Zenon
      <4>q. QED
        BY <4>1
    <3>5. standby_' = chip'.standby \/ Tail(b) = U0 \/ Tail(b) = U1
      BY <2>8, <2>9, <3>2, <3>3, <3>4, Zenon
    <3>q. QED
      BY <2>10, <3>1, <3>5, AgreeAfter, Zenon
  <2>12. CASE standby_ # w
    <3>1. Continue("main", P3(w, Tail(b)))
      BY <2>3, <2>7, <2>8, <2>12, PowerListIs, Zenon
    <3>2. todo'["main"] = P3(w, Tail(b))
      BY <3>1 DEF Continue, TypeInv
    <3>3. At("main", "PowerRead")'
      <4>1. Starts(P3(w, Tail(b)), "PowerRead", Nothing, P2(w, Tail(b)))
        BY <2>7, PowerLists, Zenon
      <4>q. QED
        BY <3>2, <4>1 DEF Starts, At, Doing
    <3>q. QED
      BY <1>10, <3>3, Zenon
  <2>q. QED
    BY <2>11, <2>12
<1>12. CASE PowerRead("main")
  <2>1. At("main", "PowerRead") /\ Continue("main", Rest("main"))
    BY <1>12, Zenon DEF PowerRead
  <2>2. PICK v \in BOOLEAN, rest \in Seq(Steps) : Rest("main") = P2(v, rest)
    BY <2>1, MainPlace, Zenon
  <2>3. todo'["main"] = P2(v, rest)
    BY <2>1, <2>2 DEF Continue, TypeInv
  <2>4. Starts(P2(v, rest), "PowerWrite", v, rest)
    BY PowerLists, Zenon
  <2>5. At("main", "PowerWrite")'
    BY <2>3, <2>4 DEF Starts, At, Doing
  <2>q. QED
    BY <1>10, <2>5, Zenon
<1>13. CASE PowerWrite("main")
  <2>1. /\ At("main", "PowerWrite")
        /\ \/ /\ chip' = [chip EXCEPT !.standby = Arg("main")]
              /\ Continue("main", <<Step("PowerCache", Arg("main"))>> \o Rest("main"))
           \/ Fails("power")
    BY <1>13, Zenon DEF PowerWrite
  <2> DEFINE v == Arg("main")  rest == Rest("main")
  <2>2. v \in BOOLEAN /\ rest \in Seq(Steps)
    BY <2>1, MainPlace, Zenon
  <2>3. ~Fails("power")
    BY DEF Fails, Quiet
  <2>4. chip' = [chip EXCEPT !.standby = v] /\ Continue("main", P1(v, rest))
    BY <2>1, <2>2, <2>3, PowerListIs, Zenon
  <2>5. Starts(P1(v, rest), "PowerCache", v, rest)
    BY <2>2, PowerLists, Zenon
  <2> HIDE DEF v, rest
  <2>6. chip'.standby = v /\ todo'["main"] = P1(v, rest)
    BY <1>c, <2>4 DEF Continue, TypeInv
  <2>7. At("main", "PowerCache")' /\ Arg("main")' = v
    BY <2>5, <2>6 DEF Starts, At, Arg, Doing, With
  <2>q. QED
    BY <2>6, <2>7, Zenon DEF AgreeInv
<1>14. CASE PowerCache("main")
  <2>1. /\ At("main", "PowerCache") /\ Continue("main", Rest("main"))
        /\ standby_' = Arg("main") /\ chip' = chip
    BY <1>14, Zenon DEF PowerCache
  <2>2. ~At("main", "PowerRead") /\ ~At("main", "PowerWrite")
    BY <2>1 DEF At
  <2>3. handlers >= 0
    <3>1. ~(handlers < 0)
      BY <2>1 DEF BootInv, At
    <3>q. QED
      BY <1>c, <3>1
  <2>4. chip.standby = Arg("main")
    BY <1>0, <2>1, <2>2, <2>3, Zenon DEF AgreeInv
  <2> DEFINE v == Arg("main")  rest == Rest("main")  k == Credit(1)
  <2>5. Place(rest, v, Quiet, tmp, range_, k)
    BY <2>1, MainPlace, Zenon
  <2>6. Place(rest, v, TRUE, tmp, range_, k)
    BY <1>0, <2>5 DEF Place
  <2>7. todo'["main"] = rest
    BY <2>1 DEF Continue, TypeInv
  <2>8. standby_' = chip'.standby
    BY <2>1, <2>4
  <2> HIDE DEF v, rest, k
  <2>q. QED
    BY <2>6, <2>7, <2>8, AgreeAfter, Zenon
<1>15. ASSUME todo'["main"] = todo["main"], chip' = chip, standby_' = standby_,
              handlers' = handlers,
              At("control", "PowerCache") => At("control", "PowerCache")'
       PROVE  AgreeInv'
  <2>1. /\ \A do : At("main", do)' <=> At("main", do)
        /\ Arg("main")' = Arg("main")
    BY <1>15 DEF At, Arg
  <2>q. QED
    BY <1>0, <1>15, <2>1, Zenon DEF AgreeInv
<1>16. CASE SetStandBy("control") \/ PowerRead("control") \/ Tick \/ CheckModify
  <2>1. /\ chip' = chip /\ standby_' = standby_ /\ handlers' = handlers
        /\ \E steps : Continue("control", steps)
    BY <1>16, Zenon DEF SetStandBy, PowerRead, Tick, CheckModify, counts
  <2>2. todo'["main"] = todo["main"]
    BY <2>1 DEF Continue, TypeInv
  <2>3. \/ todo["control"] = <<>>
        \/ \E do \in {"CheckModify", "SetStandBy", "RestoreStandBy", "PowerRead"} :
              At("control", do)
    BY <1>16, Zenon DEF SetStandBy, PowerRead, Tick, CheckModify
  <2>4. ~At("control", "PowerCache")
    BY <2>3 DEF At
  <2>q. QED
    BY <1>15, <2>1, <2>2, <2>4, Zenon
<1>17. CASE PowerWrite("control") \/ PowerCache("control")
  <2>1. /\ interfered' = (interfered \/ todo["main"] # <<>>)
        /\ \E steps : Continue("control", steps)
    BY <1>17, Zenon DEF PowerWrite, PowerCache, Interferes
  <2>2. todo["main"] = <<>>
    BY <2>1, Zenon DEF Quiet
  <2>3. todo'["main"] = <<>>
    BY <2>1, <2>2 DEF Continue, TypeInv
  <2>4. ~At("main", "PowerCache")'
    BY <2>3 DEF At
  <2>5. CASE PowerWrite("control")
    <3>1. Arg("control") = FALSE /\ Rest("control") = <<>>
      BY <2>5, ControlAt, Zenon DEF PowerWrite
    <3>2. ~Fails("power")
      BY DEF Fails, Quiet
    <3>3. FALSE \in BOOLEAN /\ <<>> \in Seq(Steps)
      OBVIOUS
    <3>4. Continue("control", P1(FALSE, <<>>))
      BY <2>5, <3>1, <3>2, <3>3, PowerListIs, Zenon DEF PowerWrite
    <3>5. todo'["control"] = P1(FALSE, <<>>)
      BY <3>4 DEF Continue, TypeInv
    <3>6. At("control", "PowerCache")'
      BY <3>5, ControlStarts DEF Starts, At, Doing
    <3>q. QED
      BY <2>4, <3>6, Zenon DEF AgreeInv
  <2>6. CASE PowerCache("control")
    <3>1. At("control", "PowerCache") /\ standby_' = Arg("control") /\ chip' = chip
      BY <2>6, Zenon DEF PowerCache
    <3>2. Arg("control") = FALSE
      BY <3>1, ControlAt, Zenon
    <3>3. ~chip.standby
      BY <1>0, <3>1, Zenon DEF ControlInv
    <3>4. standby_' = chip'.standby
      BY <1>c, <3>1, <3>2, <3>3
    <3>q. QED
      BY <2>4, <3>4, Zenon DEF AgreeInv
  <2>q. QED
    BY <1>17, <2>5, <2>6
<1>18. CASE UNCHANGED <<todo, chip, standby_, handlers>>
  BY <1>15, <1>18 DEF At
<1>q. QED
  BY <1>1, <1>3, <1>4, <1>7, <1>8, <1>9, <1>11, <1>12, <1>13, <1>14, <1>16, <1>17, <1>18,
     Zenon
  DEF Next, Asked, vars, End, DataReady, ReadData, ParseDigitalAcc, ClearNewData, others,
      counts

----------------------------------------------------------------------------
(* The sensor and what is remembered of it                                  *)

Inv ==
  /\ TypeInv /\ BootInv /\ ControlInv /\ MainInv /\ AgreeInv
  /\ RangeAgrees /\ WritesInStandby /\ Credit(0)

LEMMA InvKept ==
  ASSUME Inv, [Next]_vars
  PROVE  Inv'
<1>1. /\ TypeInv' /\ BootInv' /\ ControlInv' /\ MainInv' /\ AgreeInv'
      /\ RangeAgrees' /\ WritesInStandby'
  BY TypesKept, BootKept, ControlKept, MainKept, AgreeKept, RangeKept, WritesKept DEF Inv
<1>2. Credit(0)'
  <2>1. CASE CacheRange
    <3>1. At("main", "CacheRange")
      BY <2>1, Zenon DEF CacheRange
    <3>2. todo["main"] # <<>> /\ Doing(todo["main"]) = "CacheRange"
      BY <3>1, HandlerAt, Handlings, Zenon DEF Inv
    <3>3. Place(todo["main"], standby_, Quiet, saved["tmp"], range_, Credit(1))
      BY <3>1, HandlerAt, Handlings, Zenon DEF Inv
    <3>4. Credit(1)
      BY <3>2, <3>3, PlaceRange
    <3>q. QED
      BY <2>1, <3>4, CreditUpdate DEF Inv
  <2>2. CASE range_' = range_
    BY <2>2, CreditKept DEF Inv
  <2>q. QED
    BY <2>1, <2>2, Zenon
    DEF Next, vars, Boot, CalibrationRequire, RegAllUpdate, End, SaveStandBy, WriteAll,
        GetOffSet, WriteOffSet, WriteSettings, SetStandBy, PowerRead, PowerWrite, PowerCache,
        Tick, CheckModify, DataReady, ReadData, ParseDigitalAcc, ClearNewData, others
<1>q. QED
  BY <1>1, <1>2 DEF Inv

LEMMA InvInit ==
  Init => Inv
<1> SUFFICES ASSUME Init
             PROVE  Inv
  OBVIOUS
<1>1. TypeInv
  BY Initially
<1>2. todo["main"] = <<>> /\ todo["control"] = <<>> /\ handlers = -1 /\ range_ = 2
      /\ wanted = Nothing /\ unprotected = FALSE /\ misscaled = 0 /\ updates = 0
      /\ measure = "wait" /\ new_acc_data_ = FALSE
  BY DEF Init
<1>3. BootInv /\ RangeAgrees /\ WritesInStandby /\ AgreeInv
  BY <1>2 DEF BootInv, RangeAgrees, WritesInStandby, AgreeInv
<1>4. ControlInv
  <2>1. ~At("control", "PowerCache")
    BY <1>2 DEF At
  <2>q. QED
    BY <1>2, <2>1, Zenon DEF ControlInv, ControlLists
<1>5. Credit(0)
  <2>1. Pending = 0
    BY <1>2 DEF Pending
  <2>q. QED
    BY <1>2, <2>1 DEF Credit
<1>6. MainInv
  <2>1. Place(<<>>, standby_, Quiet, saved["tmp"], range_, Credit(1))
    BY PlaceBegins, Zenon
  <2>q. QED
    BY <1>2, <2>1, Zenon DEF MainInv
<1>q. QED
  BY <1>1, <1>3, <1>4, <1>5, <1>6 DEF Inv

LEMMA InvHolds == Spec => []Inv
<1>1. Inv /\ [Next]_vars => Inv'
  BY InvKept
<1>q. QED
  BY <1>1, InvInit, PTL DEF Spec

(* The range samples are scaled by is the sensor's whenever no update is      *)
(* between its cache and its transfer, unless the last one reset the sensor.  *)
THEOREM RangeIsTheSensors == Spec => []RangeAgrees
<1>1. Inv => RangeAgrees
  BY DEF Inv
<1>q. QED
  BY <1>1, InvHolds, PTL

(* Settings are written to a sensor in standby.                              *)
THEOREM WritesAreProtected == Spec => []WritesInStandby
<1>1. Inv => WritesInStandby
  BY DEF Inv
<1>q. QED
  BY <1>1, InvHolds, PTL

(* Between two handlers standby_ says what POWER_CTL holds.                  *)
THEOREM StandbyIsTheSensors == Spec => []StandbyAgrees
<1>1. Inv => StandbyAgrees
  <2> SUFFICES ASSUME Inv, handlers >= 0, todo["main"] = <<>>,
                      ~At("control", "PowerCache"), Quiet
               PROVE  standby_ = chip.standby
    BY DEF StandbyAgrees
  <2>1. ~At("main", "PowerRead") /\ ~At("main", "PowerWrite") /\ ~At("main", "PowerCache")
    BY DEF At
  <2>2. todo["main"] # U0 /\ todo["main"] # U1
    BY UpdateLists, Zenon DEF Starts
  <2>q. QED
    BY <2>1, <2>2, Zenon DEF Inv, AgreeInv
<1>q. QED
  BY <1>1, InvHolds, PTL

(* At most one sample per update is scaled by the wrong range, as long as none *)
(* resets the sensor.                                                       *)
THEOREM FewMisscaled == Spec => []AtMostOneMisscaled
<1>1. Inv => AtMostOneMisscaled
  <2> SUFFICES ASSUME Inv, Quiet, "update" \notin failed, was_reset = "never"
               PROVE  misscaled <= updates
    BY DEF AtMostOneMisscaled
  <2>1. misscaled + Pending + 0 <= updates
    BY DEF Inv, Credit
  <2>2. Pending \in {0, 1} /\ misscaled \in Nat /\ updates \in Nat
    BY Counts DEF Inv
  <2>q. QED
    BY <2>1, <2>2
<1>q. QED
  BY <1>1, InvHolds, PTL

================================================================================
