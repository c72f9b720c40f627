---------------------------- MODULE SensorProofs ----------------------------
(***************************************************************************)
(* Calibration and the factory erase of the sensor service, in either build,  *)
(* for every save spacing and any number of exports.                          *)
(*                                                                         *)
(* NewestExportIsKept is not inductive: a save that fails may destroy a       *)
(* record that was the newest state.  What keeps the state is that the main    *)
(* thread only saves what was newest when it took it, so that whatever has     *)
(* been exported since is pending (HandOverInv).  ErasedIsEmpty rests on the    *)
(* worker having left its loop before the erase begins (StopInv).              *)
(* The raw backend follows: that a reading is stamped in time, from what its   *)
(* two clocks hold between polls (RawInv).                                     *)
(***************************************************************************)
EXTENDS SensorService, TLAPS

ServiceTypeOK ==
  /\ exported \in Nat /\ savePending \in BOOLEAN /\ started \in BOOLEAN
  /\ wpc \in {"loop", "step", "append", "export", "stopped"}
  /\ mpc \in {"poll", "save", "putback", "stopping", "erasing", "erased", "fault"}
  /\ stored \in Nat \cup {Corrupt}

HandOverInv ==
  /\ savePending => save = exported
  /\ mpc \in {"save", "putback"} /\ ~savePending => taken = exported
  /\ mpc \in {"save", "putback"} => taken \in Nat
  /\ mpc \in {"poll", "stopping"} /\ ~savePending => exported = Loaded(stored)

StopInv == /\ ~started => wpc = "stopped"
           /\ mpc \in {"erasing", "erased"} => wpc = "stopped"
           /\ mpc = "erased" => stored = None /\ ~ring

IInv == ServiceTypeOK /\ HandOverInv /\ StopInv

-----------------------------------------------------------------------------
LEMMA LoadedType ==
  ASSUME NEW r \in Nat \cup {Corrupt}
  PROVE  Loaded(r) \in Nat /\ (r \in Nat => Loaded(r) = r)
  BY DEF Loaded, Corrupt, None

THEOREM InitIInv == ServiceInit => IInv
  <1> SUFFICES ASSUME ServiceInit PROVE IInv
    OBVIOUS
  <1>1. stored \in Nat \cup {Corrupt}
    BY DEF ServiceInit, Init, Corrupt, None
  <1>2. QED
    BY <1>1, LoadedType DEF ServiceInit, Init, IInv, ServiceTypeOK, HandOverInv, StopInv

(* A boot forgets all but the record of the EEPROM.                           *)
LEMMA BootIInv ==
  ASSUME NEW r \in Nat \cup {Corrupt}, Boot(r)
  PROVE  IInv'
  BY LoadedType DEF Boot, IInv, ServiceTypeOK, HandOverInv, StopInv

(* The worker touches neither the main thread's copy nor the EEPROM, and an    *)
(* export makes the newest state the pending one.                             *)
LEMMA WorkerIInv ==
  ASSUME IInv, Worker
  PROVE  IInv'
PROOF
  <1> USE DEF IInv, shared, main
  <1>1. CASE Enter
    BY <1>1 DEF Enter, ServiceTypeOK, HandOverInv, StopInv
  <1>2. CASE Leave
    BY <1>2 DEF Leave, ServiceTypeOK, HandOverInv, StopInv
  <1>3. CASE Begin
    BY <1>3 DEF Begin, Failure, ServiceTypeOK, HandOverInv, StopInv
  <1>4. CASE Trigger
    BY <1>4 DEF Trigger, Failure, ServiceTypeOK, HandOverInv, StopInv
  <1>5. CASE FetchFails
    BY <1>5 DEF FetchFails, Failure, ServiceTypeOK, HandOverInv, StopInv
  <1>6. CASE Fetch
    BY <1>6 DEF Fetch, ServiceTypeOK, HandOverInv, StopInv
  <1>7. CASE Append
    BY <1>7 DEF Append, ServiceTypeOK, HandOverInv, StopInv
  <1>8. CASE Export
    BY <1>8 DEF Export, ServiceTypeOK, HandOverInv, StopInv
  <1>9. CASE ExportFails
    BY <1>9 DEF ExportFails, ServiceTypeOK, HandOverInv, StopInv
  <1>10. QED
    BY <1>1, <1>2, <1>3, <1>4, <1>5, <1>6, <1>7, <1>8, <1>9 DEF Worker

(* The main thread saves, puts back, stops the sensor, and erases.            *)
LEMMA MainIInv ==
  ASSUME IInv, Take \/ Save \/ SaveFails \/ Retry \/ Confirm \/ SensorStop \/ Erase \/ EraseFails
  PROVE  IInv'
PROOF
  <1> USE LoadedType DEF IInv, worker
  <1>1. CASE Take
    BY <1>1 DEF Take, ServiceTypeOK, HandOverInv, StopInv
  <1>2. CASE Save
    BY <1>2 DEF Save, ServiceTypeOK, HandOverInv, StopInv
  <1>3. CASE SaveFails
    BY <1>3 DEF SaveFails, ServiceTypeOK, HandOverInv, StopInv
  <1>4. CASE Retry
    BY <1>4 DEF Retry, PutBack, ServiceTypeOK, HandOverInv, StopInv
  <1>5. CASE Confirm
    BY <1>5 DEF Confirm, ServiceTypeOK, HandOverInv, StopInv
  <1>6. CASE SensorStop
    BY <1>6 DEF SensorStop, StopDone, ServiceTypeOK, HandOverInv, StopInv
  <1>7. CASE Erase
    BY <1>7 DEF Erase, None, ServiceTypeOK, HandOverInv, StopInv
  <1>8. CASE EraseFails
    BY <1>8 DEF EraseFails, None, Corrupt, ServiceTypeOK, HandOverInv, StopInv
  <1>9. QED
    BY <1>1, <1>2, <1>3, <1>4, <1>5, <1>6, <1>7, <1>8 DEF IInv

LEMMA RawIInv ==
  ASSUME IInv, RawSteps
  PROVE  IInv'
  BY DEF RawSteps, InRaw, RawPolls, worker, main, IInv, ServiceTypeOK, HandOverInv, StopInv

LEMMA BootsIInv ==
  ASSUME IInv, Boots
  PROVE  IInv'
PROOF
  <1>1. stored \in Nat \cup {Corrupt}
    BY DEF IInv, ServiceTypeOK
  <1>2. CASE Reboot
    BY <1>1, <1>2, BootIInv DEF Reboot
  <1>3. CASE Restart
    BY <1>1, <1>3, BootIInv DEF Restart
  <1>4. CASE PowerLoss
    <2>1. PICK r \in {stored} \cup (IF mpc = "save" THEN {Corrupt, taken} ELSE {})
                             \cup (IF mpc = "erasing" THEN {Corrupt, None} ELSE {}) : Boot(r)
      BY <1>4 DEF PowerLoss
    <2>2. r \in Nat \cup {Corrupt}
      BY <1>1, <2>1 DEF IInv, HandOverInv, None
    <2>3. QED
      BY <2>1, <2>2, BootIInv
  <1>5. QED
    BY <1>2, <1>3, <1>4 DEF Boots

THEOREM NextIInv == IInv /\ [ServiceNext]_service => IInv'
PROOF
  <1> SUFFICES ASSUME IInv, [ServiceNext]_service PROVE IInv'
    OBVIOUS
  <1>1. CASE WorkerSteps
    <2>1. CASE Tick
      BY <2>1 DEF Tick, IInv, ServiceTypeOK, HandOverInv, StopInv
    <2>2. QED
      BY <1>1, <2>1, WorkerIInv, MainIInv DEF WorkerSteps
  <1>2. CASE RawSteps
    BY <1>2, RawIInv
  <1>3. CASE SensorStops
    BY <1>3, MainIInv DEF SensorStops
  <1>4. CASE Resets
    BY <1>4, MainIInv DEF Resets
  <1>5. CASE Boots
    BY <1>5, BootsIInv
  <1>6. CASE UNCHANGED service
    BY <1>6 DEF service, vars, IInv, ServiceTypeOK, HandOverInv, StopInv
  <1>7. QED
    BY <1>1, <1>2, <1>3, <1>4, <1>5, <1>6 DEF ServiceNext

THEOREM InductiveInvariant == ServiceSpec => []IInv
  <1>1. ServiceInit /\ [][ServiceNext]_service => []IInv
    BY InitIInv, NextIInv, PTL
  <1>2. QED
    BY <1>1, PTL DEF ServiceSpec

(* Whatever saves fail and however exports and saves interleave, the newest    *)
(* calibration state of a boot is in the EEPROM or on its way there.           *)
THEOREM NewestExportKept == ServiceSpec => []NewestExportIsKept
  <1>1. IInv => NewestExportIsKept
    BY LoadedType DEF IInv, ServiceTypeOK, HandOverInv, NewestExportIsKept
  <1>2. QED
    BY <1>1, InductiveInvariant, PTL

(* Once a factory erase is done, nothing comes back before the restart.        *)
THEOREM ErasedStaysEmpty == ServiceSpec => []ErasedIsEmpty
  <1>1. IInv => ErasedIsEmpty
    BY DEF IInv, StopInv, ErasedIsEmpty
  <1>2. QED
    BY <1>1, InductiveInvariant, PTL

-----------------------------------------------------------------------------
(* The raw backend: what its clocks hold when a poll comes.                    *)
RawTypeOK ==
  /\ sensorState \in {"Stopped", "Start", "Wait", "Cooldown"}
  /\ present \in BOOLEAN /\ hurried \in BOOLEAN
  /\ now \in 0..2 * Wrap - 1 /\ uptime \in 0..2 * Wrap - 1 /\ measured \in 0..2 * Wrap - 1
  /\ uptimeTick \in 0..Wrap - 1 /\ measurementStarted \in 0..Wrap - 1 /\ cycleStarted \in 0..Wrap - 1
  /\ sincePoll \in 0..MaxPause /\ sinceFailure \in 0..Rest /\ cycleWait \in Nat

(* The uptime is that of the last poll, less than a wrap ago. *)
UptimeInv == uptime = Circle(now - sincePoll) /\ uptimeTick = uptime % Wrap

(* A measurement that is awaited began less than a wrap ago, when the sensor   *)
(* said so.                                                                   *)
Waited == Circle(now - measured + Conversion)
WaitInv == sensorState = "Wait" => /\ present /\ Waited <= Conversion + Grace + sincePoll
                                   /\ measurementStarted = Circle(measured - Conversion) % Wrap

(* After a failure the cycle is timed from it; no other state follows one.     *)
RestInv == /\ sensorState \in {"Start", "Wait"} => sinceFailure = Rest
           /\ sensorState = "Cooldown" /\ sinceFailure < Rest =>
                cycleWait = Rest /\ cycleStarted = Circle(now - sinceFailure) % Wrap

RawInv == RawTypeOK /\ UptimeInv /\ WaitInv /\ RestInv /\ RawReadingsAreTimely

(* The arithmetic of the two circles. *)
LEMMA CircleIs ==
  ASSUME NEW x \in -(2 * Wrap)..4 * Wrap - 1
  PROVE  /\ Circle(x) = IF x < 0 THEN x + 2 * Wrap ELSE IF x < 2 * Wrap THEN x ELSE x - 2 * Wrap
         /\ Circle(x) \in 0..2 * Wrap - 1
PROOF
  <1> DEFINE W == 2 * Wrap
  <1>1. W \in Nat /\ W > 0 /\ Wrap \in Nat
    BY RawAssumption
  <1>2. Circle(x) = x % W
    BY DEF Circle
  <1>3. x \in Int /\ -W <= x /\ x < 2 * W
    BY <1>1
  <1> HIDE DEF W
  <1>4. x % W = IF x < 0 THEN x + W ELSE IF x < W THEN x ELSE x - W
    BY <1>1, <1>3
  <1>5. x % W \in 0..W - 1
    BY <1>1, <1>3, <1>4
  <1>6. QED
    BY <1>2, <1>4, <1>5 DEF W

LEMMA MillisIs ==
  ASSUME NEW t \in 0..2 * Wrap - 1
  PROVE  t % Wrap = (IF t < Wrap THEN t ELSE t - Wrap) /\ t % Wrap \in 0..Wrap - 1
  BY RawAssumption

(* Elapsed is exact for a time less than a wrap ago. *)
LEMMA ElapsedIs ==
  ASSUME now \in 0..2 * Wrap - 1, NEW k \in 0..Wrap - 1
  PROVE  Elapsed(Circle(now - k) % Wrap) = k
PROOF
  <1>1. Wrap \in Nat /\ Wrap > 0
    BY RawAssumption
  <1>2. Circle(now - k) = (IF now < k THEN now - k + 2 * Wrap ELSE now - k) /\ Circle(now - k) \in 0..2 * Wrap - 1
    BY <1>1, CircleIs
  <1> DEFINE m == now % Wrap
             s == Circle(now - k) % Wrap
  <1>3. m = (IF now < Wrap THEN now ELSE now - Wrap) /\ m \in 0..Wrap - 1
    BY MillisIs
  <1>4. /\ s = (IF Circle(now - k) < Wrap THEN Circle(now - k) ELSE Circle(now - k) - Wrap)
        /\ s \in 0..Wrap - 1
    BY <1>2, MillisIs
  <1>5. Elapsed(s) = (m - s) % Wrap
    BY DEF Elapsed, millis
  <1> HIDE DEF m, s
  <1>6. m - s = k \/ m - s = k - Wrap
    BY <1>1, <1>2, <1>3, <1>4
  <1>7. k % Wrap = k /\ (k - Wrap) % Wrap = k
    BY <1>1
  <1>8. Elapsed(s) = k
    BY <1>5, <1>6, <1>7
  <1>9. QED
    BY <1>8 DEF s

(* A poll finds the uptime by the clock, and a wait that began when the sensor *)
(* said so.                                                                   *)
LEMMA UptimeIs ==
  ASSUME RawTypeOK, UptimeInv
  PROVE  sensorUptimeMs = now
PROOF
  <1>1. /\ Wrap \in Nat /\ now \in 0..2 * Wrap - 1
        /\ sincePoll \in Nat /\ sincePoll <= MaxPause /\ MaxPause < Wrap /\ sincePoll \in 0..Wrap - 1
    BY RawAssumption DEF RawTypeOK
  <1>2. uptimeTick = Circle(now - sincePoll) % Wrap /\ uptime = Circle(now - sincePoll)
    BY DEF UptimeInv
  <1>3. Elapsed(uptimeTick) = sincePoll
    BY <1>1, <1>2, ElapsedIs
  <1>4. uptime = (IF now < sincePoll THEN now - sincePoll + 2 * Wrap ELSE now - sincePoll)
    BY <1>1, <1>2, CircleIs
  <1>5. Circle(now) = now /\ Circle(now + 2 * Wrap) = now
    BY <1>1, CircleIs
  <1>6. uptime + sincePoll = now \/ uptime + sincePoll = now + 2 * Wrap
    BY <1>1, <1>4
  <1>7. QED
    BY <1>3, <1>5, <1>6 DEF sensorUptimeMs

LEMMA WaitedIs ==
  ASSUME RawTypeOK, WaitInv, sensorState = "Wait"
  PROVE  /\ Elapsed(measurementStarted) = Waited
         /\ Waited \in 0..Wrap - 1 /\ Circle(now - Waited + Conversion) = measured
         /\ (measurementStarted + Conversion) % Wrap = measured % Wrap
PROOF
  <1>1. /\ Wrap \in Nat /\ now \in 0..2 * Wrap - 1 /\ measured \in 0..2 * Wrap - 1
        /\ Conversion \in Nat /\ Grace \in Nat /\ MaxPause \in Nat
        /\ sincePoll \in 0..MaxPause /\ Conversion + Grace + MaxPause < Wrap
    BY RawAssumption DEF RawTypeOK
  <1>2. /\ Waited <= Conversion + Grace + sincePoll
        /\ measurementStarted = Circle(measured - Conversion) % Wrap
    BY DEF WaitInv
  <1> DEFINE x == now - measured + Conversion
             begun == measured - Conversion
  <1>3. x \in -(2 * Wrap)..4 * Wrap - 1 /\ x \in Int
    BY <1>1
  <1>4. /\ Waited = IF x < 0 THEN x + 2 * Wrap ELSE IF x < 2 * Wrap THEN x ELSE x - 2 * Wrap
        /\ Waited \in 0..2 * Wrap - 1
    BY <1>3, CircleIs DEF Waited
  <1>5. Waited \in 0..Wrap - 1
    BY <1>1, <1>2, <1>4
  <1>6. Circle(begun) = IF begun < 0 THEN begun + 2 * Wrap ELSE begun
    BY <1>1, CircleIs
  <1>7. Circle(now - Waited) = IF now - Waited < 0 THEN now - Waited + 2 * Wrap ELSE now - Waited
    BY <1>1, <1>5, CircleIs
  <1>8. Circle(now - Waited) = Circle(begun)
    BY <1>1, <1>4, <1>5, <1>6, <1>7
  <1>9. Elapsed(measurementStarted) = Waited
    BY <1>1, <1>2, <1>5, <1>8, ElapsedIs
  <1>10. Circle(now - Waited + Conversion) = measured
    <2> DEFINE z == now - Waited + Conversion
    <2>1. z = measured \/ z = measured + 2 * Wrap \/ z = measured - 2 * Wrap
      BY <1>1, <1>4, <1>5
    <2>2. /\ Circle(measured) = measured /\ Circle(measured + 2 * Wrap) = measured
          /\ Circle(measured - 2 * Wrap) = measured
      BY <1>1, CircleIs
    <2> HIDE DEF z
    <2>3. Circle(z) = measured
      BY <2>1, <2>2
    <2>4. QED
      BY <2>3 DEF z
  <1>11. (measurementStarted + Conversion) % Wrap = measured % Wrap
    <2> DEFINE b == Circle(begun)
               s == b % Wrap
               m == measured % Wrap
    <2>1. b \in 0..2 * Wrap - 1 /\ (b = measured - Conversion \/ b = measured - Conversion + 2 * Wrap)
      BY <1>1, <1>6
    <2>2. s = (IF b < Wrap THEN b ELSE b - Wrap) /\ s \in 0..Wrap - 1
      BY <2>1, MillisIs
    <2>3. m = (IF measured < Wrap THEN measured ELSE measured - Wrap) /\ m \in 0..Wrap - 1
      BY <1>1, MillisIs
    <2>4. measurementStarted = s
      BY <1>2
    <2> HIDE DEF b, s, m
    <2>5. s + Conversion = m \/ s + Conversion = m + Wrap
      BY <1>1, <2>1, <2>2, <2>3
    <2>6. m % Wrap = m /\ (m + Wrap) % Wrap = m
      BY <1>1, <2>3
    <2>7. (measurementStarted + Conversion) % Wrap = m
      BY <2>4, <2>5, <2>6
    <2>8. QED
      BY <2>7 DEF m
  <1>12. QED
    BY <1>5, <1>9, <1>10, <1>11

-----------------------------------------------------------------------------
(* Time passes: all that is timed grows by the tick. *)
LEMMA RawTickInv ==
  ASSUME RawInv, RawTick
  PROVE  RawInv'
PROOF
  <1>0. RawTypeOK /\ UptimeInv /\ WaitInv /\ RestInv /\ RawReadingsAreTimely
    BY DEF RawInv
  <1>1. /\ Wrap \in Nat /\ now \in 0..2 * Wrap - 1 /\ measured \in 0..2 * Wrap - 1
        /\ Conversion \in Nat /\ Grace \in Nat /\ MaxPause \in Nat /\ Rest \in Nat
        /\ sincePoll \in 0..MaxPause /\ Conversion + Grace + MaxPause < Wrap
        /\ Rest + MaxPause < Wrap /\ sinceFailure \in 0..Rest
    BY <1>0, RawAssumption DEF RawTypeOK
  <1>2. /\ now' = Circle(now + 1) /\ sincePoll' = sincePoll + 1 /\ sincePoll < MaxPause
        /\ sinceFailure' = IF sinceFailure < Rest THEN sinceFailure + 1 ELSE Rest
        /\ UNCHANGED <<sensorState, present, measuring, measurementStarted, latest, cycleStarted,
                       cycleWait, uptimeTick, uptime, measured, hurried>>
    BY DEF RawTick
  <1>3. /\ now' = IF now + 1 < 2 * Wrap THEN now + 1 ELSE now + 1 - 2 * Wrap
        /\ now' \in 0..2 * Wrap - 1
    BY <1>1, <1>2, CircleIs
  <1>4. RawTypeOK'
    BY <1>0, <1>1, <1>2, <1>3 DEF RawTypeOK
  <1>5. ASSUME NEW k \in 0..Wrap - 1, k + 1 \in 0..Wrap - 1
        PROVE  Circle(now' - (k + 1)) = Circle(now - k)
    <2>1. Circle(now - k) = IF now - k < 0 THEN now - k + 2 * Wrap ELSE now - k
      BY <1>1, CircleIs
    <2>2. Circle(now' - (k + 1)) = IF now' - (k + 1) < 0 THEN now' - (k + 1) + 2 * Wrap ELSE now' - (k + 1)
      BY <1>1, <1>3, <1>5, CircleIs
    <2>3. QED
      BY <1>1, <1>3, <2>1, <2>2, <1>5
  <1>6. UptimeInv'
    <2>1. Circle(now' - (sincePoll + 1)) = Circle(now - sincePoll)
      BY <1>1, <1>2, <1>5
    <2>2. QED
      BY <1>0, <1>2, <2>1 DEF UptimeInv
  <1>7. WaitInv'
    <2> SUFFICES ASSUME sensorState' = "Wait"
                 PROVE  /\ present' /\ Waited' <= Conversion + Grace + sincePoll'
                        /\ measurementStarted' = Circle(measured - Conversion)' % Wrap
      BY DEF WaitInv
    <2>1. /\ present /\ Waited <= Conversion + Grace + sincePoll /\ Waited \in 0..Wrap - 1
          /\ measurementStarted = Circle(measured - Conversion) % Wrap
      BY <1>0, <1>2, WaitedIs DEF WaitInv
    <2>2. Circle(measured - Conversion)' = Circle(measured - Conversion)
      BY <1>2 DEF Circle
    <2>3. Waited' = Circle(now' - measured + Conversion)
      BY <1>2 DEF Waited, Circle
    <2>4. /\ now - measured + Conversion \in -(2 * Wrap)..4 * Wrap - 1
          /\ now' - measured + Conversion \in -(2 * Wrap)..4 * Wrap - 1
      BY <1>1, <1>3
    <2>5. Waited = LET x == now - measured + Conversion
                   IN  IF x < 0 THEN x + 2 * Wrap ELSE IF x < 2 * Wrap THEN x ELSE x - 2 * Wrap
      BY <2>4, CircleIs DEF Waited
    <2>6. Waited' = LET x == now' - measured + Conversion
                    IN  IF x < 0 THEN x + 2 * Wrap ELSE IF x < 2 * Wrap THEN x ELSE x - 2 * Wrap
      BY <2>3, <2>4, CircleIs
    <2>7. Waited' = Waited + 1
      BY <1>1, <1>3, <2>1, <2>5, <2>6
    <2>8. QED
      BY <1>1, <1>2, <2>1, <2>2, <2>7
  <1>8. RestInv'
    <2>1. sensorState' \in {"Start", "Wait"} => sinceFailure' = Rest
      BY <1>0, <1>1, <1>2 DEF RestInv
    <2>2. ASSUME sensorState' = "Cooldown", sinceFailure' < Rest
          PROVE  cycleWait' = Rest /\ cycleStarted' = Circle(now' - sinceFailure') % Wrap
      <3>1. sinceFailure < Rest /\ sinceFailure' = sinceFailure + 1
        BY <1>1, <1>2, <2>2
      <3>2. Circle(now' - (sinceFailure + 1)) = Circle(now - sinceFailure)
        BY <1>1, <1>5, <2>2, <3>1
      <3>3. QED
        BY <1>0, <1>2, <2>2, <3>1, <3>2 DEF RestInv
    <2>3. QED
      BY <2>1, <2>2 DEF RestInv, Circle
  <1>9. RawReadingsAreTimely'
    BY <1>0, <1>2 DEF RawReadingsAreTimely
  <1>10. QED
    BY <1>4, <1>6, <1>7, <1>8, <1>9 DEF RawInv

(* Every poll brings the uptime up to date. *)
LEMMA PolledIs ==
  ASSUME RawInv, Polled
  PROVE  /\ UptimeInv' /\ now' = now /\ sincePoll' = 0 /\ sincePoll' \in 0..MaxPause
         /\ uptime' \in 0..2 * Wrap - 1 /\ uptimeTick' \in 0..Wrap - 1
         /\ now \in 0..2 * Wrap - 1 /\ millis = now % Wrap /\ millis \in 0..Wrap - 1
         /\ Wrap \in Nat \ {0} /\ Circle(now) = now /\ Circle(now - 0) = now
PROOF
  <1>1. RawTypeOK /\ UptimeInv
    BY DEF RawInv
  <1>2. Wrap \in Nat \ {0} /\ MaxPause \in Nat /\ now \in 0..2 * Wrap - 1
    BY <1>1, RawAssumption DEF RawTypeOK
  <1>3. now' = now /\ sincePoll' = 0 /\ uptime' = now /\ uptimeTick' = now % Wrap
    BY <1>1, UptimeIs DEF Polled, millis
  <1>4. Circle(now) = now /\ Circle(now - 0) = now /\ now % Wrap \in 0..Wrap - 1
    BY <1>2, CircleIs, MillisIs
  <1>5. UptimeInv'
    BY <1>3, <1>4 DEF UptimeInv, Circle
  <1>6. QED
    BY <1>2, <1>3, <1>4, <1>5 DEF millis

(* A failure starts the rest. *)
LEMMA FailsInv ==
  ASSUME RawInv, Polled, Fails("Cooldown"), hurried' = FALSE
  PROVE  RawInv'
PROOF
  <1>0. RawTypeOK /\ UptimeInv'
    BY PolledIs DEF RawInv
  <1>1. /\ now' = now /\ sincePoll' = 0 /\ sincePoll' \in 0..MaxPause
        /\ uptime' \in 0..2 * Wrap - 1 /\ uptimeTick' \in 0..Wrap - 1
        /\ millis = now % Wrap /\ millis \in 0..Wrap - 1 /\ Circle(now - 0) = now
    BY PolledIs
  <1>2. /\ present' = FALSE /\ latest' = NoReading /\ cycleStarted' = millis /\ cycleWait' = Rest
        /\ sensorState' = "Cooldown" /\ sinceFailure' = 0
        /\ UNCHANGED <<measurementStarted, measured>>
    BY DEF Fails, RestFrom
  <1>3. RawTypeOK'
    <2>1. /\ now' \in 0..2 * Wrap - 1 /\ measured' \in 0..2 * Wrap - 1
          /\ measurementStarted' \in 0..Wrap - 1 /\ cycleStarted' \in 0..Wrap - 1
      BY <1>0, <1>1, <1>2 DEF RawTypeOK
    <2>2. sinceFailure' \in 0..Rest /\ cycleWait' \in Nat
      BY <1>2, RawAssumption
    <2>3. QED
      BY <1>1, <1>2, <2>1, <2>2 DEF RawTypeOK
  <1>4. WaitInv' /\ RawReadingsAreTimely'
    BY <1>2 DEF WaitInv, RawReadingsAreTimely, NoReading
  <1>5. RestInv'
    <2>1. Circle(now - sinceFailure)' = now
      BY <1>1, <1>2 DEF Circle
    <2>2. QED
      BY <1>1, <1>2, <2>1 DEF RestInv
  <1>6. QED
    BY <1>0, <1>3, <1>4, <1>5 DEF RawInv

(* A cycle that is due begins after the whole rest. *)
LEMMA DueIsRested ==
  ASSUME RawInv, CycleDue
  PROVE  sinceFailure = Rest
PROOF
  <1>1. RawTypeOK /\ RestInv
    BY DEF RawInv
  <1>2. CASE sensorState = "Start"
    BY <1>1, <1>2 DEF RestInv
  <1>3. CASE sensorState = "Cooldown" /\ Elapsed(cycleStarted) >= cycleWait
    <2> SUFFICES ASSUME sinceFailure < Rest PROVE FALSE
      BY <1>1, RawAssumption DEF RawTypeOK
    <2>1. /\ cycleWait = Rest /\ cycleStarted = Circle(now - sinceFailure) % Wrap
      BY <1>1, <1>3 DEF RestInv
    <2>2. sinceFailure \in 0..Wrap - 1 /\ now \in 0..2 * Wrap - 1
      BY <1>1, RawAssumption DEF RawTypeOK
    <2>3. Elapsed(cycleStarted) = sinceFailure
      BY <2>1, <2>2, ElapsedIs
    <2>4. QED
      BY <1>3, <2>1, <2>2, <2>3, RawAssumption
  <1>4. QED
    BY <1>2, <1>3 DEF CycleDue

LEMMA StartCycleInv ==
  ASSUME RawInv, StartCycle
  PROVE  RawInv'
PROOF
  <1>0. RawTypeOK /\ RawReadingsAreTimely /\ UptimeInv'
    BY PolledIs DEF RawInv, StartCycle
  <1>1. /\ now' = now /\ sincePoll' = 0 /\ sincePoll' \in 0..MaxPause
        /\ uptime' \in 0..2 * Wrap - 1 /\ uptimeTick' \in 0..Wrap - 1
        /\ now \in 0..2 * Wrap - 1 /\ Wrap \in Nat \ {0}
        /\ millis = now % Wrap /\ millis \in 0..Wrap - 1 /\ Circle(now) = now
    BY PolledIs DEF StartCycle
  <1>2. sinceFailure = Rest /\ hurried' = FALSE
    <2>1. sinceFailure = Rest
      BY DueIsRested DEF StartCycle
    <2>2. QED
      BY <1>0, <2>1, RawAssumption DEF StartCycle, RawReadingsAreTimely, RawTypeOK
  <1>3. CASE Fails("Cooldown")
    BY <1>2, <1>3, FailsInv DEF StartCycle
  <1>4. CASE /\ sensorState' = "Wait" /\ present' = TRUE /\ measuring' = TRUE
             /\ measurementStarted' = millis /\ measured' = Circle(now + Conversion)
             /\ cycleStarted' = millis /\ latest' = IF present THEN latest ELSE NoReading
             /\ UNCHANGED <<cycleWait, sinceFailure>>
    <2>1. /\ Conversion \in Nat /\ Grace \in Nat /\ Conversion < Wrap
      BY RawAssumption
    <2>2. /\ measured' \in 0..2 * Wrap - 1
          /\ measured' = IF now + Conversion < 2 * Wrap THEN now + Conversion
                         ELSE now + Conversion - 2 * Wrap
      BY <1>1, <1>4, <2>1, CircleIs
    <2>3. RawTypeOK'
      BY <1>0, <1>1, <1>2, <1>4, <2>2 DEF RawTypeOK
    <2>4. WaitInv'
      <3>1. Circle(measured' - Conversion) = now
        BY <1>1, <2>1, <2>2, CircleIs
      <3>2. Circle(now - measured' + Conversion) = 0
        <4>1. now - measured' + Conversion = 0 \/ now - measured' + Conversion = 2 * Wrap
          BY <1>1, <2>1, <2>2
        <4>2. Circle(0) = 0 /\ Circle(2 * Wrap) = 0
          BY <1>1, CircleIs
        <4>3. QED
          BY <4>1, <4>2
      <3>3. Circle(measured - Conversion)' = now /\ Waited' = 0
        BY <1>1, <3>1, <3>2 DEF Circle, Waited
      <3>4. QED
        BY <1>1, <1>4, <2>1, <3>3 DEF WaitInv
    <2>5. RestInv'
      BY <1>2, <1>4 DEF RestInv
    <2>6. RawReadingsAreTimely'
      BY <1>0, <1>2, <1>4 DEF RawReadingsAreTimely, NoReading
    <2>7. QED
      BY <1>0, <2>3, <2>4, <2>5, <2>6 DEF RawInv
  <1>5. QED
    BY <1>3, <1>4 DEF StartCycle

(* A poll that changes nothing but the uptime. *)
LEMMA IdlePollInv ==
  ASSUME RawInv, Rests \/ AwaitData
  PROVE  RawInv'
PROOF
  <1>0. RawTypeOK /\ WaitInv /\ RestInv /\ RawReadingsAreTimely /\ UptimeInv' /\ Polled
    BY PolledIs DEF RawInv, Rests, AwaitData
  <1>1. /\ now' = now /\ sincePoll' = 0 /\ sincePoll' \in 0..MaxPause
        /\ uptime' \in 0..2 * Wrap - 1 /\ uptimeTick' \in 0..Wrap - 1
    BY <1>0, PolledIs
  <1>2. UNCHANGED <<sensorState, present, measuring, measurementStarted, latest, cycleStarted,
                    cycleWait, measured, sinceFailure, hurried>>
    BY DEF Rests, AwaitData
  <1>3. RawTypeOK'
    BY <1>0, <1>1, <1>2 DEF RawTypeOK
  <1>4. RestInv' /\ RawReadingsAreTimely'
    BY <1>0, <1>1, <1>2 DEF RestInv, RawReadingsAreTimely, Circle
  <1>5. WaitInv'
    <2> SUFFICES ASSUME sensorState = "Wait" PROVE WaitInv'
      BY <1>2 DEF WaitInv
    <2>1. present /\ Elapsed(measurementStarted) < Conversion + Grace
      BY <1>0 DEF WaitInv, Rests, AwaitData
    <2>2. Elapsed(measurementStarted) = Waited /\ Waited \in 0..Wrap - 1
      BY <1>0, WaitedIs
    <2>3. Waited' = Waited /\ Circle(measured - Conversion)' = Circle(measured - Conversion)
      BY <1>1, <1>2 DEF Waited, Circle
    <2>4. QED
      BY <1>0, <1>1, <1>2, <2>1, <2>2, <2>3, RawAssumption DEF WaitInv
  <1>6. QED
    BY <1>0, <1>3, <1>4, <1>5 DEF RawInv

LEMMA CollectInv ==
  ASSUME RawInv, Collect
  PROVE  RawInv'
PROOF
  <1>0. RawTypeOK /\ UptimeInv /\ WaitInv /\ RestInv /\ RawReadingsAreTimely
        /\ UptimeInv' /\ Polled /\ sensorState = "Wait"
    BY PolledIs DEF RawInv, Collect, Collects
  <1>1. /\ now' = now /\ sincePoll' = 0 /\ sincePoll' \in 0..MaxPause
        /\ uptime' \in 0..2 * Wrap - 1 /\ uptimeTick' \in 0..Wrap - 1
    BY <1>0, PolledIs
  <1>2. /\ sensorState' = "Cooldown" /\ cycleWait' = Interval
        /\ latest' = [ms |-> (measurementStarted + Conversion) % Wrap, uptime |-> CompletedAt,
                      measured |-> measured, have |-> TRUE]
        /\ UNCHANGED <<present, measurementStarted, cycleStarted, measured, sinceFailure, hurried>>
    BY DEF Collect
  <1>3. RawTypeOK'
    BY <1>0, <1>1, <1>2, RawAssumption DEF RawTypeOK
  <1>4. WaitInv' /\ RestInv'
    BY <1>0, <1>2, RawAssumption DEF WaitInv, RestInv
  <1>5. CompletedAt = measured
    <2>1. sensorUptimeMs = now /\ Elapsed(measurementStarted) = Waited
          /\ Circle(now - Waited + Conversion) = measured
      BY <1>0, UptimeIs, WaitedIs
    <2>2. QED
      BY <2>1 DEF CompletedAt
  <1>6. (measurementStarted + Conversion) % Wrap = measured % Wrap
    BY <1>0, WaitedIs
  <1>7. RawReadingsAreTimely'
    BY <1>0, <1>2, <1>5, <1>6 DEF RawReadingsAreTimely
  <1>8. QED
    BY <1>0, <1>3, <1>4, <1>7 DEF RawInv

(* sensorStart after a boot. *)
LEMMA FreshRaw ==
  /\ 0 \in 0..2 * Wrap - 1 /\ 0 \in 0..Wrap - 1 /\ Circle(0) = 0 /\ Circle(0 - 0) = 0 /\ 0 % Wrap = 0
  /\ Rest \in 0..Rest /\ 0 \in 0..MaxPause /\ Interval \in Nat
PROOF
  <1>1. /\ Wrap \in Nat /\ Wrap > 0 /\ Rest \in Nat /\ MaxPause \in Nat /\ Interval \in Nat
    BY RawAssumption
  <1>2. Circle(0) = 0 /\ Circle(0 - 0) = 0
    BY <1>1, CircleIs
  <1>3. QED
    BY <1>1, <1>2

LEMMA RawInitInv ==
  ASSUME RawInit
  PROVE  RawInv
PROOF
  <1>1. RawTypeOK
    BY FreshRaw DEF RawInit, RawTypeOK
  <1>2. Circle(now - sincePoll) = 0
    BY FreshRaw DEF RawInit
  <1>3. UptimeInv
    BY <1>2, FreshRaw DEF RawInit, UptimeInv
  <1>4. WaitInv /\ RestInv /\ RawReadingsAreTimely
    BY FreshRaw DEF RawInit, WaitInv, RestInv, RawReadingsAreTimely, NoReading
  <1>5. QED
    BY <1>1, <1>3, <1>4 DEF RawInv

LEMMA RawBootInv ==
  ASSUME RawBoot
  PROVE  RawInv'
PROOF
  <1>1. RawTypeOK'
    BY FreshRaw DEF RawBoot, RawTypeOK
  <1>2. Circle(now - sincePoll)' = 0
    BY FreshRaw DEF RawBoot, Circle
  <1>3. UptimeInv'
    BY <1>2, FreshRaw DEF RawBoot, UptimeInv
  <1>4. WaitInv' /\ RestInv' /\ RawReadingsAreTimely'
    BY FreshRaw DEF RawBoot, WaitInv, RestInv, RawReadingsAreTimely, NoReading
  <1>5. QED
    BY <1>1, <1>3, <1>4 DEF RawInv

LEMMA RawUnchanged ==
  ASSUME RawInv, UNCHANGED raw
  PROVE  RawInv'
  BY DEF raw, RawInv, RawTypeOK, UptimeInv, WaitInv, Waited, RestInv, RawReadingsAreTimely, Circle

(* Every step of the service keeps the invariant of the raw backend. *)
LEMMA RawStepInv ==
  ASSUME RawInv, [ServiceNext]_service
  PROVE  RawInv'
PROOF
  <1>1. CASE RawSteps
    <2>1. CASE RawTick
      BY <2>1, RawTickInv
    <2>2. CASE RawPoll \/ Collect
      <3>1. CASE FetchFailed
        <4>1. Polled /\ Fails("Cooldown") /\ hurried' = FALSE
          BY <3>1 DEF FetchFailed, Collects, AfterFetch, RawInv, RawReadingsAreTimely, RawTypeOK
        <4>2. QED
          BY <4>1, FailsInv
      <3>2. QED
        BY <2>2, <3>1, IdlePollInv, StartCycleInv, CollectInv DEF RawPoll
    <2>3. QED
      BY <1>1, <2>1, <2>2 DEF RawSteps, RawPolls
  <1>2. CASE SensorStops
    <2>1. CASE RawStop
      BY <2>1 DEF RawStop, RawInv, RawTypeOK, UptimeInv, WaitInv, RestInv, RawReadingsAreTimely, Circle
    <2>2. QED
      BY <1>2, <2>1, RawUnchanged DEF SensorStops
  <1>3. CASE Boots
    BY <1>3, RawBootInv DEF Boots, BootsRaw
  <1>4. CASE WorkerSteps \/ Resets \/ UNCHANGED service
    BY <1>4, RawUnchanged DEF WorkerSteps, InBsec, Resets, service
  <1>5. QED
    BY <1>1, <1>2, <1>3, <1>4 DEF ServiceNext

(* sensorBackendPoll publishes a reading with the time of its measurement by   *)
(* both clocks, however late it comes and whatever wraps, and leaves the bus   *)
(* alone for a minute after each failure.                                     *)
THEOREM RawReadingsTimely == ServiceSpec => []RawReadingsAreTimely
PROOF
  <1>1. ServiceInit /\ [][ServiceNext]_service => []RawInv
    <2>1. ServiceInit => RawInv
      BY RawInitInv DEF ServiceInit
    <2>2. QED
      BY <2>1, RawStepInv, PTL
  <1>2. RawInv => RawReadingsAreTimely
    BY DEF RawInv
  <1>3. QED
    BY <1>1, <1>2, PTL DEF ServiceSpec
=============================================================================
