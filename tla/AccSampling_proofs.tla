------------------------- MODULE AccSampling_proofs -------------------------
(***************************************************************************)
(* Proofs about AccSampling for every size of the deque, of a calibration  *)
(* and of a run: types, the bound of the deque, the order of the samples,  *)
(* and that the threads together implement SampleBuffer.                   *)
(***************************************************************************)
EXTENDS AccSampling, SequenceTheorems, TLAPS

(* The sequences a pop takes and leaves.                                    *)
LEMMA PopType ==
  ASSUME NEW S, NEW s \in Seq(S), NEW k \in 0 .. Len(s)
  PROVE  /\ SubSeq(s, 1, k) \in Seq(S)
         /\ Len(SubSeq(s, 1, k)) = k
         /\ SubSeq(s, k + 1, Len(s)) \in Seq(S)
         /\ Len(SubSeq(s, k + 1, Len(s))) = Len(s) - k
<1>1. SubSeq(s, 1, k) \in Seq(S) /\ Len(SubSeq(s, 1, k)) = k
  BY SubSeqProperties
<1>2. SubSeq(s, k + 1, Len(s)) \in Seq(S) /\ Len(SubSeq(s, k + 1, Len(s))) = Len(s) - k
  BY SubSeqProperties
<1>q. QED
  BY <1>1, <1>2

(* A pop takes no more than there is, nor than it asks for.                 *)
LEMMA TakenType ==
  ASSUME data_ \in Seq(Samples), NEW k \in Nat
  PROVE  Taken(k) \in 0 .. Len(data_) /\ Taken(k) <= k
BY LenProperties DEF Taken

(* The measure thread preserves types, ...                                  *)
LEMMA MeasureType ==
  ASSUME TypeOK, AccPopFront \/ (MeasureThread /\ UNCHANGED undefined)
  PROVE  TypeOK'
<1> USE DEF TypeOK, chip, lifecycle, calibration, streaming, Measure, MeasurePlaces
<1>1. CASE AccPopFront
  <2>1. data_' \in Seq(Samples) /\ undefined' \in BOOLEAN
    <3>1. CASE data_ = <<>>
      BY <1>1, <3>1 DEF AccPopFront
    <3>2. CASE data_ # <<>>
      BY <1>1, <3>2, SMTT(40) DEF AccPopFront
    <3>q. QED
      BY <3>1, <3>2
  <2>q. QED
    BY <1>1, <2>1 DEF AccPopFront
<1>2. CASE AccPushBack /\ UNCHANGED undefined
  BY <1>2 DEF AccPushBack
<1>3. CASE (Enter \/ TestExit \/ TestNewData \/ GetAcc \/ TestSize \/ ClearNewData)
             /\ UNCHANGED undefined
  BY <1>3, ZenonT(40) DEF Enter, TestExit, TestNewData, GetAcc, TestSize, ClearNewData
<1>q. QED
  BY <1>1, <1>2, <1>3 DEF MeasureThread

(* ... so does the main thread, with the size of a calibration, ...         *)
LEMMA MainType ==
  ASSUME TypeOK, CalibrationSampleSize, MainThread, UNCHANGED undefined
  PROVE  TypeOK' /\ CalibrationSampleSize'
<1> USE SamplingAssumption
    DEF TypeOK, CalibrationSampleSize, chip, measuring, lifecycle, streaming, Main,
        MainPlaces, MeasurePlaces
<1>1. CASE CalibrationRequire
  BY <1>1, SMTT(40) DEF CalibrationRequire
<1>2. CASE RunCalibration
  <2>1. locals' \in [booting : BOOLEAN, no_measure_thread : BOOLEAN,
                    origin_standby : BOOLEAN, caller_standby : BOOLEAN]
    <3>1. (main = "boot") \in BOOLEAN /\ (thread = "null") \in BOOLEAN
      OBVIOUS
    <3>q. QED
      BY <1>2, <3>1, ZenonT(40) DEF RunCalibration
  <2>2. v' \in Seq(Samples) /\ Len(v') <= DataNum
    BY <1>2 DEF RunCalibration
  <2>q. QED
    BY <1>2, <2>1, <2>2, ZenonT(40) DEF RunCalibration
<1>3. CASE StartMeasureTask
  BY <1>3 DEF StartMeasureTask, StartThread
<1>4. CASE Collect
  <2> DEFINE k == Taken(DataNum - Len(v))
  <2>1. DataNum - Len(v) \in Nat /\ Len(v) \in Nat
    BY <1>4 DEF Collect
  <2>2. k \in 0 .. Len(data_) /\ k <= DataNum - Len(v)
    BY <2>1, TakenType
  <2>3. /\ SubSeq(data_, 1, k) \in Seq(Samples)
        /\ Len(SubSeq(data_, 1, k)) = k
        /\ SubSeq(data_, k + 1, Len(data_)) \in Seq(Samples)
    BY <2>2, PopType
  <2>4. v' \in Seq(Samples) /\ data_' \in Seq(Samples) /\ Len(v') = Len(v) + k
    BY <1>4, <2>3, SMTT(40) DEF Collect
  <2>5. Len(v') <= DataNum
    BY <2>1, <2>2, <2>4
  <2>q. QED
    BY <1>4, <2>4, <2>5, SMTT(40) DEF Collect
<1>5. CASE Collected
  BY <1>5 DEF Collected
<1>6. CASE CancelMeasureTask
  BY <1>6 DEF CancelMeasureTask
<1>7. CASE Join
  BY <1>7 DEF Join
<1>8. CASE \/ SetStandBy("sleep", "wake", TRUE)
           \/ SetStandBy("wake", "collect", FALSE)
           \/ SetStandBy("restore", "return", locals.origin_standby)
  <2>1. standby_' \in BOOLEAN
    BY <1>8, Zenon DEF SetStandBy
  <2>q. QED
    BY <1>8, <2>1 DEF SetStandBy
<1>9. CASE ReturnToInit
  BY <1>9 DEF ReturnToInit, StartThread, ControlPlaces
<1>10. CASE ReturnToHandler
  <2>1. standby_' \in BOOLEAN /\ on_calibration' \in BOOLEAN
    BY <1>10, Zenon DEF ReturnToHandler
  <2>q. QED
    BY <1>10, <2>1 DEF ReturnToHandler
<1>q. QED
  BY <1>1, <1>2, <1>3, <1>4, <1>5, <1>6, <1>7, <1>8, <1>9, <1>10 DEF MainThread

(* ... and so does the control loop.                                        *)
LEMMA ControlType ==
  ASSUME TypeOK, ControlLoop, UNCHANGED undefined
  PROVE  TypeOK'
<1> USE DEF TypeOK, chip, measuring, lifecycle, calibration, Control, ControlPlaces
<1>1. CASE PopAll
  <2>1. Taken(n) \in 0 .. Len(data_)
    BY TakenType
  <2>2. data_' \in Seq(Samples)
    BY <1>1, <2>1, PopType DEF PopAll
  <2>q. QED
    BY <1>1, <2>2 DEF PopAll
<1>2. CASE Tick \/ ReadSize \/ NoStream
  BY <1>2 DEF Tick, ReadSize, NoStream
<1>3. CASE EnsureMeasuring
  <2>1. standby_' \in BOOLEAN
    BY <1>3, Zenon DEF EnsureMeasuring
  <2>q. QED
    BY <1>3, <2>1 DEF EnsureMeasuring
<1>q. QED
  BY <1>1, <1>2, <1>3 DEF ControlLoop

(* A step that is not the main thread's does not touch a calibration.       *)
LEMMA CalibrationUntouched ==
  ASSUME AccPopFront \/ MeasureThread \/ DataReady \/ ControlLoop
  PROVE  v' = v
BY DEF AccPopFront, MeasureThread, Enter, TestExit, TestNewData, GetAcc, AccPushBack,
   TestSize, ClearNewData, DataReady, ControlLoop, Tick, EnsureMeasuring, ReadSize,
   PopAll, NoStream, calibration

(* The measure thread exists exactly while adxl355_measure_t_ is joinable, and *)
(* what it and its readers hold are samples (controller.cc:273-322).          *)
THEOREM TypeCorrect == Spec => [](TypeOK /\ CalibrationSampleSize)
<1>1. Init => TypeOK /\ CalibrationSampleSize
  <2> SUFFICES ASSUME Init PROVE TypeOK /\ CalibrationSampleSize
    OBVIOUS
  <2>1. locals \in [booting : BOOLEAN, no_measure_thread : BOOLEAN,
                   origin_standby : BOOLEAN, caller_standby : BOOLEAN]
    BY DEF Init
  <2>2. data_ \in Seq(Samples) /\ v \in Seq(Samples) /\ Len(v) <= DataNum
    BY SamplingAssumption DEF Init
  <2>3. sensor \in Samples /\ sample \in Samples /\ calibrations \in 0 .. MaxCalibrations
    BY SamplingAssumption DEF Init, Samples
  <2>q. QED
    BY <2>1, <2>2, <2>3
       DEF Init, TypeOK, CalibrationSampleSize, MeasurePlaces, MainPlaces, ControlPlaces
<1>2. TypeOK /\ CalibrationSampleSize /\ [Next]_vars => (TypeOK /\ CalibrationSampleSize)'
  <2> SUFFICES ASSUME TypeOK, CalibrationSampleSize, [Next]_vars
               PROVE  TypeOK' /\ CalibrationSampleSize'
    OBVIOUS
  <2>1. CASE AccPopFront \/ (MeasureThread /\ UNCHANGED undefined)
    BY <2>1, MeasureType, CalibrationUntouched DEF CalibrationSampleSize
  <2>2. CASE DataReady /\ UNCHANGED undefined
    <3>1. TypeOK'
      BY <2>2, SamplingAssumption
         DEF DataReady, TypeOK, Samples, measuring, lifecycle, calibration, streaming
    <3>q. QED
      BY <2>2, <3>1, CalibrationUntouched DEF CalibrationSampleSize
  <2>3. CASE MainThread /\ UNCHANGED undefined
    BY <2>3, MainType
  <2>4. CASE FiveSeconds /\ UNCHANGED undefined
    BY <2>4 DEF FiveSeconds, TypeOK, CalibrationSampleSize, chip, measuring, lifecycle,
       streaming
  <2>5. CASE ControlLoop /\ UNCHANGED undefined
    BY <2>5, ControlType, CalibrationUntouched DEF CalibrationSampleSize
  <2>6. CASE UNCHANGED vars
    BY <2>6 DEF vars, TypeOK, CalibrationSampleSize
  <2>q. QED
    BY <2>1, <2>2, <2>3, <2>4, <2>5, <2>6 DEF Next, Others
<1>q. QED
  BY <1>1, <1>2, PTL DEF Spec

(* "Protect memory overflow" (controller.cc:283): the deque keeps its bound   *)
(* although its size is read outside the mutex and two readers pop at any     *)
(* moment: only the measure thread makes it longer, and there is never more   *)
(* than one of them.                                                          *)
THEOREM Bounded == Spec => []DequeBounded
<1>1. Init => DequeBounded
  BY SamplingAssumption DEF Init, DequeBounded
<1>2. TypeOK /\ CalibrationSampleSize /\ DequeBounded /\ [Next]_vars => DequeBounded'
  <2> SUFFICES ASSUME TypeOK, CalibrationSampleSize, DequeBounded, [Next]_vars
               PROVE  DequeBounded'
    OBVIOUS
  <2>0. data_ \in Seq(Samples) /\ Len(data_) \in Nat /\ MaxInDeque \in Nat
    BY SamplingAssumption, LenProperties DEF TypeOK
  <2>1. CASE AccPopFront
    <3>1. CASE data_ = <<>>
      BY <2>0, <2>1, <3>1 DEF AccPopFront, Measure, DequeBounded
    <3>2. CASE data_ # <<>>
      <4>1. Len(data_') = Len(data_) - 1
        BY <2>0, <2>1, <3>2 DEF AccPopFront
      <4>q. QED
        BY <2>0, <4>1 DEF DequeBounded
    <3>q. QED
      BY <3>1, <3>2
  <2>2. CASE AccPushBack
    <3>1. Len(data_') = Len(data_) + 1
      BY <2>0, <2>2 DEF AccPushBack
    <3>q. QED
      BY <2>0, <2>2, <3>1 DEF AccPushBack, Measure, DequeBounded
  <2>3. CASE Enter \/ TestExit \/ TestNewData \/ GetAcc \/ TestSize \/ ClearNewData
    BY <2>0, <2>3 DEF Enter, TestExit, TestNewData, GetAcc, TestSize, ClearNewData,
       Measure, DequeBounded
  <2>4. CASE Collect
    <3> DEFINE k == Taken(DataNum - Len(v))
    <3>1. DataNum - Len(v) \in Nat
      BY <2>4, SamplingAssumption DEF Collect, TypeOK
    <3>2. Len(data_') = Len(data_) - k /\ k \in 0 .. Len(data_)
      BY <2>0, <2>4, <3>1, TakenType, PopType DEF Collect
    <3>q. QED
      BY <2>0, <2>4, <3>2 DEF Collect, measuring, DequeBounded
  <2>5. CASE PopAll
    <3> DEFINE k == Taken(n)
    <3>1. k \in 0 .. Len(data_)
      BY <2>0, TakenType DEF TypeOK
    <3>2. data_' = SubSeq(data_, k + 1, Len(data_))
      BY <2>5 DEF PopAll
    <3> HIDE DEF k
    <3>3. Len(data_') = Len(data_) - k
      BY <2>0, <3>1, <3>2, PopType
    <3>4. measure' = measure
      BY <2>5 DEF PopAll, measuring
    <3>q. QED
      BY <2>0, <3>1, <3>3, <3>4 DEF DequeBounded
  <2>6. CASE StartMeasureTask \/ ReturnToInit
    BY <2>6 DEF StartMeasureTask, ReturnToInit, StartThread, TypeOK, DequeBounded
  <2>7. CASE Join
    BY <2>7 DEF Join, DequeBounded
  <2>8. CASE \/ DataReady \/ CalibrationRequire \/ RunCalibration \/ Collected
             \/ CancelMeasureTask \/ ReturnToHandler \/ FiveSeconds
             \/ Tick \/ EnsureMeasuring \/ ReadSize \/ NoStream
    BY <2>8 DEF DataReady, CalibrationRequire, RunCalibration, Collected,
       CancelMeasureTask, ReturnToHandler, FiveSeconds, Tick, EnsureMeasuring, ReadSize,
       NoStream, measuring, DequeBounded
  <2>9. CASE \/ SetStandBy("sleep", "wake", TRUE)
             \/ SetStandBy("wake", "collect", FALSE)
             \/ SetStandBy("restore", "return", locals.origin_standby)
    BY <2>9 DEF SetStandBy, measuring, DequeBounded
  <2>10. CASE UNCHANGED vars
    BY <2>10 DEF vars, DequeBounded
  <2>q. QED
    BY <2>1, <2>2, <2>3, <2>4, <2>5, <2>6, <2>7, <2>8, <2>9, <2>10
       DEF Next, Others, MeasureThread, MainThread, ControlLoop
<1>q. QED
  BY TypeCorrect, <1>1, <1>2, PTL DEF Spec

----------------------------------------------------------------------------
(* The order of the samples                                                 *)

(* s and then t are increasing.                                             *)
Ordered(s, t) ==
  /\ \A i, j \in 1 .. Len(s) : i < j => s[i] < s[j]
  /\ \A i, j \in 1 .. Len(t) : i < j => t[i] < t[j]
  /\ \A i \in 1 .. Len(s), j \in 1 .. Len(t) : s[i] < t[j]

UpTo(s, limit) == \A i \in 1 .. Len(s) : s[i] <= limit

(* The elements of the sequences a pop takes and leaves.                    *)
LEMMA PopElements ==
  ASSUME NEW S, NEW s \in Seq(S), NEW k \in 0 .. Len(s)
  PROVE  /\ \A i \in 1 .. k : SubSeq(s, 1, k)[i] = s[i]
         /\ \A i \in 1 .. Len(s) - k : SubSeq(s, k + 1, Len(s))[i] = s[k + i]
<1>1. \A i \in 1 .. k : SubSeq(s, 1, k)[i] = s[i]
  BY SubSeqProperties
<1>2. \A i \in 1 .. Len(s) - k : SubSeq(s, k + 1, Len(s))[i] = s[k + i]
  <2>1. \A i \in k + 1 .. Len(s) : s[i] \in S
    BY ElementOfSeq
  <2>2. \A i \in 1 .. Len(s) - (k + 1) + 1 :
          SubSeq(s, k + 1, Len(s))[i] = s[(k + 1) + i - 1]
    BY <2>1, SubSeqProperties
  <2>q. QED
    BY <2>2
<1>q. QED
  BY <1>1, <1>2

(* What leaves at the front of the second sequence disturbs no order, ...   *)
LEMMA OrderAfterPop ==
  ASSUME NEW s \in Seq(Nat), NEW t \in Seq(Nat), NEW k \in 0 .. Len(t),
         Ordered(s, t)
  PROVE  LET rest == SubSeq(t, k + 1, Len(t)) IN
         /\ Ordered(s, rest)
         /\ \A limit \in Int : UpTo(t, limit) => UpTo(rest, limit)
<1> DEFINE rest == SubSeq(t, k + 1, Len(t))
<1>1. rest \in Seq(Nat) /\ Len(rest) = Len(t) - k /\ Len(t) \in Nat
  BY PopType, LenProperties
<1>2. \A i \in 1 .. Len(rest) : rest[i] = t[k + i]
  BY <1>1, PopElements
<1> HIDE DEF rest
<1>3. \A i \in 1 .. Len(rest) : k + i \in 1 .. Len(t) /\ rest[i] = t[k + i]
  BY <1>1, <1>2
<1>4. ASSUME NEW i \in 1 .. Len(rest), NEW j \in 1 .. Len(rest), i < j
      PROVE  rest[i] < rest[j]
  <2>1. k + i < k + j
    BY <1>1, <1>4
  <2>q. QED
    BY <1>3, <2>1 DEF Ordered
<1>5. Ordered(s, rest)
  BY <1>3, <1>4 DEF Ordered
<1>6. \A limit \in Int : UpTo(t, limit) => UpTo(rest, limit)
  BY <1>3 DEF UpTo
<1>q. QED
  BY <1>5, <1>6 DEF rest

(* ... nor when it goes to the end of the first, ...                        *)
LEMMA OrderAfterMove ==
  ASSUME NEW s \in Seq(Nat), NEW t \in Seq(Nat), NEW k \in 0 .. Len(t),
         Ordered(s, t)
  PROVE  LET longer == s \o SubSeq(t, 1, k)
             rest   == SubSeq(t, k + 1, Len(t))
         IN  /\ Ordered(longer, rest)
             /\ \A limit \in Int :
                  UpTo(s, limit) /\ UpTo(t, limit) => UpTo(longer, limit) /\ UpTo(rest, limit)
<1> DEFINE taken == SubSeq(t, 1, k)
           longer == s \o taken
           rest == SubSeq(t, k + 1, Len(t))
<1>1. /\ taken \in Seq(Nat) /\ Len(taken) = k
      /\ rest \in Seq(Nat) /\ Len(rest) = Len(t) - k
      /\ Len(s) \in Nat /\ Len(t) \in Nat
  BY PopType, LenProperties, SMTT(40)
<1>2. \A i \in 1 .. k : taken[i] = t[i]
  BY PopElements
<1>3. Ordered(s, rest) /\ \A limit \in Int : UpTo(t, limit) => UpTo(rest, limit)
  BY OrderAfterPop
<1>4. \A i \in 1 .. Len(rest) : rest[i] = t[k + i]
  BY <1>1, PopElements, ZenonT(40)
<1> HIDE DEF taken, rest
<1>5. /\ Len(longer) = Len(s) + k
      /\ \A i \in 1 .. Len(s) + k :
            longer[i] = IF i <= Len(s) THEN s[i] ELSE taken[i - Len(s)]
  BY <1>1, ConcatProperties
<1> HIDE DEF longer
<1>6. \A i \in 1 .. Len(longer) :
        \/ i \in 1 .. Len(s) /\ longer[i] = s[i]
        \/ i - Len(s) \in 1 .. k /\ longer[i] = t[i - Len(s)]
  <2> TAKE i \in 1 .. Len(longer)
  <2>1. i \in 1 .. Len(s) \/ i - Len(s) \in 1 .. k
    BY <1>1, <1>5
  <2>2. CASE i \in 1 .. Len(s)
    BY <1>1, <1>5, <2>2
  <2>3. CASE i - Len(s) \in 1 .. k
    <3>1. longer[i] = taken[i - Len(s)]
      BY <1>1, <1>5, <2>3
    <3>q. QED
      BY <1>2, <2>3, <3>1
  <2>q. QED
    BY <2>1, <2>2, <2>3
<1>7. k \in Nat /\ 1 .. k \subseteq 1 .. Len(t)
  BY <1>1
<1>8. ASSUME NEW i \in 1 .. Len(longer), NEW j \in 1 .. Len(longer), i < j
      PROVE  longer[i] < longer[j]
  <2>1. CASE i \in 1 .. Len(s) /\ j \in 1 .. Len(s)
    <3>1. longer[i] = s[i] /\ longer[j] = s[j]
      BY <1>1, <1>5, <1>6, <2>1
    <3>q. QED
      BY <1>8, <2>1, <3>1 DEF Ordered
  <2>2. CASE i \in 1 .. Len(s) /\ j - Len(s) \in 1 .. k
    <3>1. longer[i] = s[i] /\ longer[j] = t[j - Len(s)]
      BY <1>1, <1>5, <1>6, <2>2
    <3>q. QED
      BY <1>7, <2>2, <3>1 DEF Ordered
  <2>3. CASE i - Len(s) \in 1 .. k /\ j - Len(s) \in 1 .. k
    <3>1. longer[i] = t[i - Len(s)] /\ longer[j] = t[j - Len(s)] /\ i - Len(s) < j - Len(s)
      BY <1>1, <1>5, <1>6, <1>8, <2>3, SMTT(40)
    <3>q. QED
      BY <1>7, <2>3, <3>1 DEF Ordered
  <2>q. QED
    BY <1>1, <1>6, <1>8, <2>1, <2>2, <2>3, SMTT(40)
<1>9. ASSUME NEW i \in 1 .. Len(longer), NEW j \in 1 .. Len(rest)
      PROVE  longer[i] < rest[j]
  <2>1. CASE i \in 1 .. Len(s) /\ longer[i] = s[i]
    BY <1>3, <2>1 DEF Ordered
  <2>2. CASE i - Len(s) \in 1 .. k /\ longer[i] = t[i - Len(s)]
    <3>1. rest[j] = t[k + j]
      BY <1>1, <1>4
    <3>2. k + j \in 1 .. Len(t) /\ i - Len(s) < k + j
      BY <1>1, <2>2
    <3>q. QED
      BY <1>7, <2>2, <3>1, <3>2 DEF Ordered
  <2>q. QED
    BY <1>6, <2>1, <2>2
<1>10. \A limit \in Int : UpTo(s, limit) /\ UpTo(t, limit) => UpTo(longer, limit)
  BY <1>6, <1>7 DEF UpTo
<1>q. QED
  BY <1>3, <1>8, <1>9, <1>10 DEF Ordered, longer, rest, taken

(* ... nor a larger element that is appended.                               *)
LEMMA OrderAfterAppend ==
  ASSUME NEW s \in Seq(Nat), NEW t \in Seq(Nat), NEW e \in Nat,
         Ordered(s, t), UpTo(s, e - 1), UpTo(t, e - 1)
  PROVE  Ordered(s, Append(t, e)) /\ UpTo(Append(t, e), e)
<1> DEFINE longer == Append(t, e)
<1>1. /\ Len(longer) = Len(t) + 1 /\ Len(t) \in Nat
      /\ \A i \in 1 .. Len(t) : longer[i] = t[i]
      /\ longer[Len(t) + 1] = e
  BY AppendProperties, LenProperties
<1> HIDE DEF longer
<1>2. \A i \in 1 .. Len(longer) :
        \/ i \in 1 .. Len(t) /\ longer[i] = t[i]
        \/ i = Len(t) + 1 /\ longer[i] = e
  BY <1>1
<1>3. /\ \A i \in 1 .. Len(s) : s[i] \in Nat /\ s[i] < e
      /\ \A i \in 1 .. Len(t) : t[i] \in Nat /\ t[i] < e
  BY ElementOfSeq, SMTT(40) DEF UpTo
<1>4. ASSUME NEW i \in 1 .. Len(longer), NEW j \in 1 .. Len(longer), i < j
      PROVE  longer[i] < longer[j]
  <2>1. i \in 1 .. Len(t) /\ longer[i] = t[i]
    BY <1>1, <1>4
  <2>2. CASE j \in 1 .. Len(t) /\ longer[j] = t[j]
    BY <1>4, <2>1, <2>2 DEF Ordered
  <2>3. CASE j = Len(t) + 1 /\ longer[j] = e
    BY <1>3, <2>1, <2>3
  <2>q. QED
    BY <1>2, <2>2, <2>3
<1>5. ASSUME NEW i \in 1 .. Len(s), NEW j \in 1 .. Len(longer)
      PROVE  s[i] < longer[j]
  BY <1>2, <1>3 DEF Ordered
<1>6. UpTo(longer, e)
  <2> SUFFICES ASSUME NEW i \in 1 .. Len(longer) PROVE longer[i] <= e
    BY DEF UpTo
  <2>1. CASE i \in 1 .. Len(t) /\ longer[i] = t[i]
    BY <1>3, <2>1
  <2>2. CASE i = Len(t) + 1 /\ longer[i] = e
    BY <2>2
  <2>q. QED
    BY <1>2, <2>1, <2>2
<1>q. QED
  BY <1>4, <1>5, <1>6 DEF Ordered, longer

(* What Ordered says of the two sequences joined.                           *)
LEMMA OrderOfConcat ==
  ASSUME NEW s \in Seq(Nat), NEW t \in Seq(Nat), Ordered(s, t)
  PROVE  \A i, j \in DOMAIN (s \o t) : i < j => (s \o t)[i] < (s \o t)[j]
<1>1. Len(t) \in 0 .. Len(t) /\ SubSeq(t, 1, Len(t)) = t
  BY LenProperties, SubSeqFull
<1>2. Ordered(s \o t, SubSeq(t, Len(t) + 1, Len(t)))
  BY <1>1, OrderAfterMove
<1>3. DOMAIN (s \o t) = 1 .. Len(s \o t)
  BY ConcatProperties, LenProperties
<1>q. QED
  BY <1>2, <1>3 DEF Ordered

(* A sample is new while the flag is up, unless the measure thread has read it *)
(* and not cleared the flag yet; what the readers have is older than a sample  *)
(* the measure thread has still to push.                                    *)
Handled == {"push", "size", "pop", "clear"}

NewestPushed == IF measure = "push" THEN sample - 1 ELSE sample

OrderInv ==
  /\ sample <= sensor
  /\ new_acc_data_ /\ measure \notin Handled => sample < sensor
  /\ measure = "get" => new_acc_data_
  /\ Ordered(v, data_)
  /\ UpTo(v, NewestPushed) /\ UpTo(data_, NewestPushed)

LEMMA SampleTypes ==
  ASSUME TypeOK
  PROVE  /\ v \in Seq(Nat) /\ data_ \in Seq(Nat) /\ sample \in Nat /\ sensor \in Nat
         /\ \A i \in 1 .. Len(v) : v[i] \in Nat
         /\ \A i \in 1 .. Len(data_) : data_[i] \in Nat
<1>1. Samples \subseteq Nat
  BY SamplingAssumption DEF Samples
<1>2. v \in Seq(Nat) /\ data_ \in Seq(Nat)
  BY <1>1, SeqMonotonic DEF TypeOK
<1>q. QED
  BY <1>1, <1>2, ElementOfSeq DEF TypeOK

(* The steps of the measure thread and of the interrupt keep that so, ...     *)
LEMMA MeasureOrder ==
  ASSUME TypeOK, OrderInv, AccPopFront \/ MeasureThread \/ DataReady
  PROVE  OrderInv'
<1> USE DEF NewestPushed
<1>0. /\ v \in Seq(Nat) /\ data_ \in Seq(Nat) /\ sample \in Nat /\ sensor \in Nat
      /\ \A i \in 1 .. Len(v) : v[i] \in Nat
      /\ \A i \in 1 .. Len(data_) : data_[i] \in Nat
  BY SampleTypes
<1>1. CASE AccPopFront
  <2>1. /\ measure = "pop" /\ measure' = "clear"
        /\ UNCHANGED <<sensor, new_acc_data_, sample, v>>
    BY <1>1 DEF AccPopFront, Measure, chip, calibration
  <2>2. Ordered(v, data_') /\ UpTo(data_', sample)
    <3>1. CASE data_ = <<>>
      BY <1>1, <2>1, <3>1 DEF AccPopFront, OrderInv
    <3>2. CASE data_ # <<>>
      <4>1. data_' = SubSeq(data_, 2, Len(data_)) /\ 1 \in 0 .. Len(data_)
        <5>1. data_' = SubSeq(data_, 2, Len(data_))
          BY <1>0, <1>1, <3>2, TailIsSubSeq DEF AccPopFront
        <5>2. Len(data_) \in Nat \ {0}
          BY <1>0, <3>2, EmptySeq
        <5>q. QED
          BY <5>1, <5>2
      <4>2. Ordered(v, data_') /\ \A limit \in Int : UpTo(data_, limit) => UpTo(data_', limit)
        BY <1>0, <4>1, OrderAfterPop DEF OrderInv
      <4>q. QED
        BY <1>0, <2>1, <4>2 DEF OrderInv
    <3>q. QED
      BY <3>1, <3>2
  <2>q. QED
    BY <2>1, <2>2 DEF OrderInv, Handled
<1>2. CASE AccPushBack
  <2>1. /\ measure = "push" /\ measure' = "size" /\ data_' = Append(data_, sample)
        /\ UNCHANGED <<sensor, new_acc_data_, sample, v>>
    BY <1>2 DEF AccPushBack, Measure, chip, calibration
  <2>2. Ordered(v, data_') /\ UpTo(data_', sample)
    BY <1>0, <2>1, OrderAfterAppend DEF OrderInv
  <2>3. UpTo(v, sample)
    BY <1>0, <2>1 DEF OrderInv, UpTo
  <2>q. QED
    BY <2>1, <2>2, <2>3 DEF OrderInv, Handled
<1>3. CASE GetAcc
  <2>1. /\ measure = "get" /\ measure' = "push" /\ sample' = sensor
        /\ UNCHANGED <<sensor, new_acc_data_, data_, v>>
    BY <1>3 DEF GetAcc, Measure, chip, calibration
  <2>2. sample < sensor
    BY <2>1 DEF OrderInv, Handled
  <2>3. UpTo(v, sensor - 1) /\ UpTo(data_, sensor - 1)
    BY <1>0, <2>1, <2>2, SMTT(40) DEF OrderInv, UpTo
  <2>q. QED
    BY <1>0, <2>1, <2>3 DEF OrderInv, Handled
<1>4. CASE Enter \/ TestExit \/ TestNewData \/ TestSize \/ ClearNewData
  <2>1. /\ UNCHANGED <<sensor, sample, data_, v>>
        /\ measure # "push" /\ measure' # "push"
        /\ new_acc_data_' => new_acc_data_ /\ (measure \in Handled => measure' \in Handled)
        /\ measure' = "get" => new_acc_data_'
    BY <1>4 DEF Enter, TestExit, TestNewData, TestSize, ClearNewData, Measure, chip,
       calibration, Handled
  <2>q. QED
    BY <2>1 DEF OrderInv
<1>5. CASE DataReady
  <2>1. sensor' = sensor + 1 /\ new_acc_data_' /\ UNCHANGED <<sample, data_, v, measure>>
    BY <1>5 DEF DataReady, measuring, calibration
  <2>q. QED
    BY <1>0, <2>1 DEF OrderInv
<1>q. QED
  BY <1>1, <1>2, <1>3, <1>4, <1>5 DEF MeasureThread

(* ... and so do those of the readers.                                      *)
LEMMA ReadersOrder ==
  ASSUME TypeOK, CalibrationSampleSize, OrderInv, MainThread \/ FiveSeconds \/ ControlLoop
  PROVE  OrderInv'
<1>0. v \in Seq(Nat) /\ data_ \in Seq(Nat) /\ NewestPushed \in Int
  BY SampleTypes DEF NewestPushed
<1>1. /\ UNCHANGED <<sensor, new_acc_data_, sample>>
      /\ \/ measure' = measure
         \/ measure \in {"none", "returned"} /\ measure' \in {"none", "enter"}
  BY DEF TypeOK, MainThread, CalibrationRequire, RunCalibration, StartMeasureTask, SetStandBy,
     Collect, Collected, CancelMeasureTask, Join, ReturnToInit, ReturnToHandler, FiveSeconds,
     ControlLoop, Tick, EnsureMeasuring, ReadSize, PopAll, NoStream, StartThread, chip,
     measuring
<1>2. /\ Ordered(v', data_')
      /\ \A limit \in Int :
           UpTo(v, limit) /\ UpTo(data_, limit) => UpTo(v', limit) /\ UpTo(data_', limit)
  <2>1. CASE Collect
    <3>1. DataNum - Len(v) \in Nat
      BY <2>1, SamplingAssumption, LenProperties DEF Collect, TypeOK
    <3>2. Taken(DataNum - Len(v)) \in 0 .. Len(data_)
      BY <3>1, TakenType DEF TypeOK
    <3>q. QED
      BY <1>0, <2>1, <3>2, OrderAfterMove DEF Collect, OrderInv
  <2>2. CASE PopAll
    <3>1. Taken(n) \in 0 .. Len(data_)
      BY TakenType DEF TypeOK
    <3>2. v' = v
      BY <2>2 DEF PopAll, calibration
    <3>q. QED
      BY <1>0, <2>2, <3>1, <3>2, OrderAfterPop DEF PopAll, OrderInv
  <2>3. CASE RunCalibration
    <3>1. v' = <<>> /\ data_' = data_
      BY <2>3 DEF RunCalibration
    <3>2. Len(v') = 0
      BY <3>1
    <3>q. QED
      BY <3>1, <3>2 DEF OrderInv, Ordered, UpTo
  <2>4. CASE UNCHANGED <<v, data_>>
    BY <2>4 DEF OrderInv
  <2>q. QED
    BY <2>1, <2>2, <2>3, <2>4
       DEF MainThread, CalibrationRequire, StartMeasureTask, SetStandBy, Collected,
       CancelMeasureTask, Join, ReturnToInit, ReturnToHandler, FiveSeconds, ControlLoop,
       Tick, EnsureMeasuring, ReadSize, NoStream, calibration
<1>3. NewestPushed' = NewestPushed
  BY <1>1 DEF NewestPushed
<1>4. UpTo(v', NewestPushed') /\ UpTo(data_', NewestPushed')
  BY <1>0, <1>2, <1>3 DEF OrderInv
<1>q. QED
  BY <1>1, <1>2, <1>4 DEF OrderInv, Handled

LEMMA OrderHolds == Spec => []OrderInv
<1>1. Init => OrderInv
  <2> SUFFICES ASSUME Init PROVE OrderInv
    OBVIOUS
  <2>1. Len(v) = 0 /\ Len(data_) = 0
    BY DEF Init
  <2>q. QED
    BY <2>1 DEF Init, OrderInv, Ordered, UpTo, Handled
<1>2. TypeOK /\ CalibrationSampleSize /\ OrderInv /\ [Next]_vars => OrderInv'
  <2> SUFFICES ASSUME TypeOK, CalibrationSampleSize, OrderInv, [Next]_vars
               PROVE  OrderInv'
    OBVIOUS
  <2>1. CASE UNCHANGED vars
    BY <2>1 DEF vars, OrderInv, NewestPushed
  <2>q. QED
    BY <2>1, MeasureOrder, ReadersOrder DEF Next, Others
<1>q. QED
  BY TypeCorrect, <1>1, <1>2, PTL DEF Spec

(* A calibration and the stream get the samples in the order they were taken, *)
(* and none twice (controller.cc:201-322): the flag, which the interrupt may  *)
(* raise at any moment, is cleared only after the sample was read, and no     *)
(* reader pops from anywhere but the front.                                  *)
THEOREM InOrder == Spec => []SamplesInOrder
<1>1. TypeOK /\ OrderInv => SamplesInOrder
  BY SampleTypes, OrderOfConcat DEF OrderInv, SamplesInOrder
<1>q. QED
  BY TypeCorrect, OrderHolds, <1>1, PTL

----------------------------------------------------------------------------
(* The refinement                                                           *)

(* A step of the measure thread or of the interrupt is a step of the buffer.  *)
LEMMA MeasureRefines ==
  ASSUME TypeOK, DequeBounded, OrderInv, AccPopFront \/ MeasureThread \/ DataReady
  PROVE  [Buffer!Next]_Buffer!vars
<1> USE DEF Buffer!vars
<1>0. data_ \in Seq(Nat) /\ sample \in Nat /\ sensor \in Nat
  BY SampleTypes
<1>1. CASE AccPopFront
  <2>1. measure # "push" /\ measure' # "push" /\ UNCHANGED sample
    BY <1>1 DEF AccPopFront, Measure
  <2>2. CASE data_ = <<>>
    BY <1>1, <2>1, <2>2 DEF AccPopFront
  <2>3. CASE data_ # <<>>
    <3>1. data_' = SubSeq(data_, 2, Len(data_))
      BY <1>0, <1>1, <2>3, TailIsSubSeq DEF AccPopFront
    <3>2. 1 \in 1 .. Len(data_)
      BY <1>0, <2>3, EmptySeq
    <3>3. Buffer!Leave(1)
      BY <2>1, <3>1 DEF Buffer!Leave
    <3>q. QED
      BY <3>2, <3>3 DEF Buffer!Next
  <2>q. QED
    BY <2>2, <2>3
<1>2. CASE AccPushBack
  <2>1. Buffer!Put
    BY <1>2 DEF AccPushBack, Measure, DequeBounded, Buffer!Put
  <2>q. QED
    BY <2>1 DEF Buffer!Next
<1>3. CASE GetAcc
  <2>1. sample < sensor
    BY <1>3 DEF GetAcc, Measure, OrderInv, Handled
  <2>2. Buffer!Read
    BY <1>0, <1>3, <2>1 DEF GetAcc, Measure, Buffer!Read
  <2>q. QED
    BY <2>2 DEF Buffer!Next
<1>4. CASE Enter \/ TestExit \/ TestNewData \/ TestSize \/ ClearNewData
  BY <1>4 DEF Enter, TestExit, TestNewData, TestSize, ClearNewData, Measure
<1>5. CASE DataReady
  BY <1>5 DEF DataReady, measuring
<1>q. QED
  BY <1>1, <1>2, <1>3, <1>4, <1>5 DEF MeasureThread

(* A pop of k samples, which may be none, is one too.                       *)
LEMMA PopRefines ==
  ASSUME data_ \in Seq(Samples), UNCHANGED <<measure, sample>>,
         NEW k \in 0 .. Len(data_), data_' = SubSeq(data_, k + 1, Len(data_))
  PROVE  [Buffer!Next]_Buffer!vars
<1>1. CASE k = 0
  BY <1>1, SubSeqFull DEF Buffer!vars
<1>2. CASE k \in 1 .. Len(data_)
  <2>1. Buffer!Leave(k)
    BY DEF Buffer!Leave
  <2>q. QED
    BY <1>2, <2>1 DEF Buffer!Next
<1>q. QED
  BY <1>1, <1>2, LenProperties

(* So is every step of the readers.                                         *)
LEMMA ReadersRefine ==
  ASSUME TypeOK, MainThread \/ FiveSeconds \/ ControlLoop
  PROVE  [Buffer!Next]_Buffer!vars
<1>1. CASE Collect
  <2>1. DataNum - Len(v) \in Nat
    BY <1>1, SamplingAssumption, LenProperties DEF Collect, TypeOK
  <2>2. Taken(DataNum - Len(v)) \in 0 .. Len(data_)
    BY <2>1, TakenType DEF TypeOK
  <2>q. QED
    BY <1>1, <2>2, PopRefines DEF Collect, measuring, TypeOK
<1>2. CASE PopAll
  <2>1. Taken(n) \in 0 .. Len(data_)
    BY TakenType DEF TypeOK
  <2>q. QED
    BY <1>2, <2>1, PopRefines DEF PopAll, measuring, TypeOK
<1>3. CASE \/ CalibrationRequire \/ RunCalibration \/ StartMeasureTask \/ Collected
           \/ CancelMeasureTask \/ Join \/ ReturnToInit \/ ReturnToHandler \/ FiveSeconds
           \/ Tick \/ EnsureMeasuring \/ ReadSize \/ NoStream
           \/ SetStandBy("sleep", "wake", TRUE)
           \/ SetStandBy("wake", "collect", FALSE)
           \/ SetStandBy("restore", "return", locals.origin_standby)
  BY <1>3
     DEF CalibrationRequire, RunCalibration, StartMeasureTask, Collected, CancelMeasureTask,
     Join, ReturnToInit, ReturnToHandler, FiveSeconds, Tick, EnsureMeasuring, ReadSize,
     NoStream, SetStandBy, StartThread, measuring, TypeOK, Buffer!vars
<1>q. QED
  BY <1>1, <1>2, <1>3 DEF MainThread, ControlLoop

(* The threads, the interrupt and the deque they share are a buffer that keeps *)
(* order and bound (controller.cc:201-322): whatever a reader gets is what the *)
(* abstract buffer lets leave.                                              *)
THEOREM Refinement == Spec => ImplementsBuffer
<1>1. Init => Buffer!Init
  BY DEF Init, Buffer!Init
<1>2. TypeOK /\ DequeBounded /\ OrderInv /\ [Next]_vars => [Buffer!Next]_Buffer!vars
  <2> SUFFICES ASSUME TypeOK, DequeBounded, OrderInv, [Next]_vars
               PROVE  [Buffer!Next]_Buffer!vars
    OBVIOUS
  <2>1. CASE UNCHANGED vars
    BY <2>1 DEF vars, Buffer!vars
  <2>q. QED
    BY <2>1, MeasureRefines, ReadersRefine DEF Next, Others
<1>q. QED
  BY TypeCorrect, Bounded, OrderHolds, <1>1, <1>2, PTL
     DEF Spec, ImplementsBuffer, Buffer!Spec

=============================================================================
