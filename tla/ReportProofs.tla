---------------------------- MODULE ReportProofs ----------------------------
(***************************************************************************)
(* Theorems about reports.  First the scheduler, for every base and longest *)
(* interval, every retry limit, every set of minutes and every length of a  *)
(* transaction: what the first sensor report holds, that the slots of Fixed *)
(* mode are kept, and that the interval of Dynamic mode follows time.  Then *)
(* the wire, for every reading, status, request and settings record: what   *)
(* the node packs, Decoder reads back as it was meant.                      *)
(***************************************************************************)
EXTENDS Scheduler, Console, SequenceTheorems, TLAPS

Modes    == [mode : {"Dynamic", "Fixed"}, minutes : Minutes]
Readings == {"none", "partial", "full"}

SchedulerTypeOK ==
  /\ pc \in {"poll", "encode", "receive"} /\ kind \in Kinds
  /\ latest \in Readings /\ firstMask \in Readings
  /\ settings \in Modes
  /\ learned \in BOOLEAN /\ firstSensor \in BOOLEAN /\ retryPending \in BOOLEAN
  /\ haveEvaluation \in BOOLEAN /\ recordPending \in BOOLEAN /\ availabilityPending \in BOOLEAN
  /\ interval \in 1..Longest /\ retryFor \in 1..RetryMax
  /\ sinceFirst \in Int /\ sinceFirst <= Base
  /\ sinceReport \in 0..Longest /\ sinceHealth \in 0..Longest /\ sinceEvaluation \in 0..Longest
  /\ sinceReset \in 0..Longest - Base /\ sinceSent \in 0..Longest /\ slotGap \in 0..Longest

(* Learning is over once the first reading is six minutes old, and a sensor   *)
(* report is chosen only then; its first one held all seven fields.           *)
LearnedInv ==
  /\ learned => sinceFirst = Base
  /\ pc = "encode" /\ kind = "Sensor" => learned
  /\ firstSensor => firstMask = "full" /\ sinceFirst = Base

(* In Fixed mode no anchor is older than the last report that was sent, and   *)
(* what is chosen, or owed to a retry, is due by the settings' minutes.       *)
SlotInv ==
  /\ sinceHealth <= sinceSent
  /\ ~Dynamic =>
       /\ sinceReport <= sinceSent
       /\ slotGap >= settings.minutes
       /\ interval = settings.minutes \/ (slotGap = Longest /\ pc # "encode")
       /\ retryPending => sinceSent >= settings.minutes
       /\ pc = "encode" /\ kind # "Control" => sinceSent >= settings.minutes

(* In Dynamic mode what the interval may still grow by until the next         *)
(* evaluation is time that has passed since it was set outright.              *)
GrowthInv ==
  Dynamic => /\ interval <= Base + sinceReset
             /\ haveEvaluation => \/ sinceReset = Longest - Base
                                  \/ interval + sinceEvaluation <= Base + sinceReset

IInv == SchedulerTypeOK /\ LearnedInv /\ SlotInv /\ GrowthInv

-----------------------------------------------------------------------------
LEMMA MinutesFit ==
  ASSUME settings \in Modes
  PROVE  settings.minutes \in 1..Longest
PROOF
  <1>1. settings.minutes \in Minutes
    BY DEF Modes
  <1>2. Minutes \subseteq 1..Longest
    BY SchedulerAssumption
  <1>3. QED
    BY <1>1, <1>2

LEMMA InitIInv == Init => IInv
PROOF
  <1> SUFFICES ASSUME Init PROVE IInv
    OBVIOUS
  <1> USE SchedulerAssumption DEF Init
  <1>0. settings \in Modes /\ settings.minutes \in 1..Longest
    BY DEF Modes
  <1>1. SchedulerTypeOK
    <2>1. sinceFirst \in Int /\ sinceFirst <= Base /\ interval \in 1..Longest /\ retryFor \in 1..RetryMax
      OBVIOUS
    <2>2. /\ sinceReport \in 0..Longest /\ sinceHealth \in 0..Longest /\ sinceEvaluation \in 0..Longest
          /\ sinceReset \in 0..Longest - Base /\ sinceSent \in 0..Longest /\ slotGap \in 0..Longest
      OBVIOUS
    <2>3. QED
      BY <1>0, <2>1, <2>2 DEF SchedulerTypeOK, Readings, Kinds
  <1>2. LearnedInv
    BY DEF LearnedInv
  <1>3. SlotInv
    BY <1>0 DEF SlotInv
  <1>4. GrowthInv
    BY DEF GrowthInv
  <1>5. QED
    BY <1>1, <1>2, <1>3, <1>4 DEF IInv

(* Steps of the world around the scheduler. *)
LEMMA WorldIInv ==
  ASSUME IInv, Sense \/ Radio \/ Tick
  PROVE  IInv'
PROOF
  <1> USE SchedulerAssumption DEF IInv, Dynamic
  <1>1. CASE Sense
    BY <1>1 DEF Sense, flags, timing, history, SchedulerTypeOK, LearnedInv, SlotInv, GrowthInv,
                Modes, Readings, Kinds
  <1>2. CASE Radio
    BY <1>2 DEF Radio, flags, timing, ages, SchedulerTypeOK, LearnedInv, SlotInv, GrowthInv,
                Modes, Readings, Kinds
  <1>3. CASE Tick
    <2>1. SchedulerTypeOK'
      <3>1. /\ sinceFirst' \in Int /\ sinceFirst' <= Base
            /\ sinceReport' \in 0..Longest /\ sinceHealth' \in 0..Longest /\ sinceEvaluation' \in 0..Longest
            /\ sinceReset' \in 0..Longest - Base /\ sinceSent' \in 0..Longest
        BY <1>3 DEF Tick, Elapse, Older, Least, SchedulerTypeOK
      <3>2. QED
        BY <1>3, <3>1 DEF Tick, world, flags, timing, SchedulerTypeOK
    <2>2. LearnedInv'
      BY <1>3 DEF Tick, Elapse, Older, Least, world, flags, timing, SchedulerTypeOK, LearnedInv
    <2>3. SlotInv'
      <3>1. UNCHANGED <<settings, retryPending, interval, slotGap, pc, kind>>
        BY <1>3 DEF Tick, world, flags, timing
      <3>2. /\ sinceSent \in 0..Longest /\ sinceSent' \in 0..Longest /\ sinceSent' >= sinceSent
            /\ sinceHealth <= sinceSent => sinceHealth' <= sinceSent'
            /\ sinceReport <= sinceSent => sinceReport' <= sinceSent'
        BY <1>3 DEF Tick, Older, Least, SchedulerTypeOK
      <3>3. settings.minutes \in 1..Longest
        BY MinutesFit DEF SchedulerTypeOK
      <3>4. settings.minutes <= sinceSent => settings.minutes <= sinceSent'
        BY <3>2, <3>3
      <3>5. QED
        BY <3>1, <3>2, <3>4 DEF SlotInv
    <2>4. GrowthInv'
      BY <1>3 DEF Tick, Elapse, Older, Least, world, flags, timing, SchedulerTypeOK, GrowthInv, Modes
    <2>5. QED
      BY <2>1, <2>2, <2>3, <2>4
  <1>4. QED
    BY <1>1, <1>2, <1>3 DEF IInv

(* An evaluation keeps the interval in its limits, and lets it grow by no     *)
(* more than the time since the one before.                                  *)
LEMMA EvaluateKeeps ==
  ASSUME IInv, Evaluate, UNCHANGED <<settings, sinceReset>>
  PROVE  /\ interval' \in 1..Longest /\ sinceEvaluation' \in 0..Longest
         /\ haveEvaluation' \in BOOLEAN /\ availabilityPending' \in BOOLEAN /\ recordPending' = FALSE
         /\ ~Dynamic => interval' = settings.minutes
         /\ GrowthInv'
PROOF
  <1> USE SchedulerAssumption DEF Dynamic
  <1>0. SchedulerTypeOK /\ GrowthInv
    BY DEF IInv
  <1>1. CASE ~Dynamic
    BY <1>0, <1>1 DEF Evaluate, SchedulerTypeOK, GrowthInv, Modes
  <1>2. CASE Dynamic /\ ~recordPending
    BY <1>0, <1>2 DEF Evaluate, SchedulerTypeOK, GrowthInv, Modes
  <1>3. CASE Dynamic /\ recordPending
    <2> DEFINE elapsed == IF haveEvaluation THEN sinceEvaluation ELSE 0
    <2>1. PICK policy \in 1..Upper(elapsed), changed \in {FALSE, firstSensor} :
             /\ availabilityPending' = (availabilityPending \/ changed)
             /\ interval' = IF ~firstSensor THEN interval
                            ELSE IF availabilityPending' THEN Least(policy, Base) ELSE policy
      BY <1>3 DEF Evaluate
    <2>2. /\ sinceEvaluation' = 0 /\ haveEvaluation' = TRUE /\ recordPending' = FALSE
          /\ settings' = settings /\ sinceReset' = sinceReset
      BY <1>3 DEF Evaluate
    <2>3. elapsed \in 0..Longest
      BY <1>0 DEF SchedulerTypeOK
    <2>4. Upper(elapsed) \in 1..Longest /\ Upper(elapsed) <= interval + elapsed
      BY <1>0, <2>3 DEF Upper, Least, SchedulerTypeOK
    <2>5. interval' \in 1..Longest /\ (interval' <= interval \/ interval' <= interval + elapsed)
      BY <1>0, <2>1, <2>3, <2>4 DEF Least, SchedulerTypeOK
    <2>6. interval + elapsed <= Base + sinceReset \/ sinceReset = Longest - Base
      BY <1>0, <1>3 DEF GrowthInv, SchedulerTypeOK
    <2>7. interval <= Base + sinceReset
      BY <1>0, <1>3 DEF GrowthInv
    <2>8. interval' <= Base + sinceReset
      BY <1>0, <2>3, <2>5, <2>6, <2>7 DEF SchedulerTypeOK
    <2>9. GrowthInv'
      <3>1. interval' <= Base + sinceReset'
        BY <2>2, <2>8
      <3>2. interval' + sinceEvaluation' = interval'
        <4>1. \A i \in Int : i + 0 = i
          OBVIOUS
        <4>2. interval' \in Int
          BY <2>5
        <4>3. sinceEvaluation' = 0
          BY <2>2
        <4>4. QED
          BY <4>1, <4>2, <4>3
      <3>3. QED
        BY <3>1, <3>2 DEF GrowthInv
    <2>10. availabilityPending' \in BOOLEAN
      BY <1>0, <2>1 DEF SchedulerTypeOK
    <2>11. QED
      BY <1>3, <2>2, <2>5, <2>9, <2>10
  <1>4. QED
    BY <1>1, <1>2, <1>3

(* A poll chooses a report that is due by the interval it has just settled.   *)
LEMMA PollIInv ==
  ASSUME IInv, Poll
  PROVE  IInv'
PROOF
  <1> USE SchedulerAssumption DEF IInv
  <1>1. /\ pc = "poll" /\ pc' \in {"poll", "encode"} /\ kind' \in Kinds
        /\ UNCHANGED <<latest, replies, settings, firstSensor, attempted, retryPending, freshInterval,
                       retryFor, sinceFirst, sinceAttempt, sinceReport, sinceHealth, history>>
    BY DEF Poll, SchedulerTypeOK
  <1>2. /\ interval' \in 1..Longest /\ sinceEvaluation' \in 0..Longest
        /\ haveEvaluation' \in BOOLEAN /\ availabilityPending' \in BOOLEAN /\ recordPending' = FALSE
        /\ ~Dynamic => interval' = settings.minutes
        /\ GrowthInv'
    <2>1. Evaluate /\ UNCHANGED <<settings, sinceReset>>
      BY DEF Poll, history
    <2>2. QED
      BY <2>1, EvaluateKeeps
  <1>3. learned' <=> (learned \/ sinceFirst = Base)
    BY DEF Poll, Learn
  <1>4. learned' \in BOOLEAN
    BY DEF Poll, Learn, SchedulerTypeOK
  <1>5. SchedulerTypeOK'
    BY <1>1, <1>2, <1>4 DEF SchedulerTypeOK, history
  <1>6. CASE pc' = "poll"
    <2>1. LearnedInv'
      BY <1>1, <1>3, <1>6 DEF LearnedInv, history
    <2>2. SlotInv'
      BY <1>1, <1>2, <1>6 DEF SlotInv, SchedulerTypeOK, Dynamic, history
    <2>3. QED
      BY <1>2, <1>5, <2>1, <2>2
  <1>7. CASE pc' = "encode"
    <2>1. Due(kind')
      BY <1>1, <1>7 DEF Poll
    <2>2. kind' = "Sensor" => (FirstSensorDue \/ (firstSensor /\ SensorDue))
      BY <2>1 DEF Due
    <2>3. kind' = "Health" => HealthDue
      BY <2>1 DEF Due
    <2>4. LearnedInv'
      BY <1>1, <1>3, <1>7, <2>2 DEF LearnedInv, FirstSensorDue, history
    <2>5. ~Dynamic /\ kind' # "Control" => sinceSent >= settings.minutes
      <3>1. CASE kind' = "Sensor"
        BY <1>2, <2>2, <3>1 DEF FirstSensorDue, SensorDue, SlotInv, SchedulerTypeOK, Modes
      <3>2. CASE kind' = "Health"
        BY <1>2, <2>3, <3>2 DEF HealthDue, SlotInv, SchedulerTypeOK, Modes
      <3>3. QED
        BY <1>1, <3>1, <3>2 DEF Kinds
    <2>6. SlotInv'
      BY <1>1, <1>2, <1>7, <2>5 DEF SlotInv, SchedulerTypeOK, Dynamic, history
    <2>7. QED
      BY <1>2, <1>5, <2>4, <2>6
  <1>8. QED
    BY <1>1, <1>6, <1>7

(* The time of a transaction passes for every anchor. *)
LEMMA AttemptKeeps ==
  ASSUME IInv, NEW k \in 0..Long, Attempt(k)
  PROVE  /\ sinceFirst' \in Int /\ sinceFirst' <= Base /\ (sinceFirst = Base => sinceFirst' = Base)
         /\ sinceEvaluation' \in 0..Longest /\ sinceReset' \in 0..Longest - Base
         /\ GrowthInv'
PROOF
  <1> USE SchedulerAssumption
  <1>0. SchedulerTypeOK /\ GrowthInv
    BY DEF IInv
  <1>1. UNCHANGED <<settings, haveEvaluation, interval>>
    BY DEF Attempt
  <1>2. k \in Nat
    OBVIOUS
  <1>3. /\ sinceFirst' = IF sinceFirst = -1 THEN -1 ELSE Older(sinceFirst, k, Base)
        /\ sinceEvaluation' = Older(sinceEvaluation, k, Longest)
        /\ sinceReset' = Older(sinceReset, k, Longest - Base)
    BY DEF Attempt, Elapse
  <1>4. /\ sinceFirst \in Int /\ sinceFirst <= Base /\ interval \in 1..Longest
        /\ sinceEvaluation \in 0..Longest /\ sinceReset \in 0..Longest - Base
    BY <1>0 DEF SchedulerTypeOK
  <1>5. sinceFirst' \in Int /\ sinceFirst' <= Base /\ (sinceFirst = Base => sinceFirst' = Base)
    BY <1>2, <1>3, <1>4 DEF Older, Least
  <1>6. /\ sinceEvaluation' \in 0..Longest /\ sinceReset' \in 0..Longest - Base /\ sinceReset <= sinceReset'
        /\ sinceReset = Longest - Base => sinceReset' = Longest - Base
    BY <1>2, <1>3, <1>4 DEF Older, Least
  <1>7. interval + sinceEvaluation <= Base + sinceReset
        => \/ sinceReset' = Longest - Base
           \/ interval + sinceEvaluation' <= Base + sinceReset'
    BY <1>2, <1>3, <1>4 DEF Older, Least
  <1>8. interval <= Base + sinceReset => interval <= Base + sinceReset'
    BY <1>2, <1>3, <1>4 DEF Older, Least
  <1>9. GrowthInv'
    BY <1>0, <1>1, <1>6, <1>7, <1>8 DEF GrowthInv, Dynamic
  <1>10. QED
    BY <1>5, <1>6, <1>9

(* A report that was sent starts its slot anew. *)
LEMMA DeliveredIInv ==
  ASSUME IInv, Delivered
  PROVE  IInv'
PROOF
  <1> USE SchedulerAssumption
  <1>0. SchedulerTypeOK /\ LearnedInv /\ SlotInv /\ settings.minutes \in 1..Longest
    BY MinutesFit DEF IInv, SchedulerTypeOK
  <1>1. PICK k \in 0..Long :
          /\ Attempt(k) /\ Encodable
          /\ retryFor' = 1 /\ retryPending' = FALSE
          /\ firstSensor' = (firstSensor \/ kind = "Sensor")
          /\ firstMask' = IF ~firstSensor /\ kind = "Sensor" THEN latest ELSE firstMask
          /\ availabilityPending' = (availabilityPending /\ kind # "Sensor")
          /\ sinceHealth' = IF kind # "Control" THEN Least(k, Longest) ELSE Older(sinceHealth, k, Longest)
          /\ sinceReport' = IF kind = "Sensor" \/ (kind = "Health" /\ HealthTakesSlot)
                            THEN Least(k, Longest) ELSE Older(sinceReport, k, Longest)
          /\ IF kind = "Control" THEN UNCHANGED slotGap /\ sinceSent' = Older(sinceSent, k, Longest)
             ELSE slotGap' = sinceSent /\ sinceSent' = Least(k, Longest)
          /\ pc' \in {"poll", "receive"}
    BY DEF Delivered
  <1>2. /\ pc = "encode"
        /\ UNCHANGED <<settings, learned, haveEvaluation, interval, recordPending, latest, kind>>
    BY <1>1 DEF Attempt
  <1>3. /\ sinceFirst' \in Int /\ sinceFirst' <= Base /\ (sinceFirst = Base => sinceFirst' = Base)
        /\ sinceEvaluation' \in 0..Longest /\ sinceReset' \in 0..Longest - Base
        /\ GrowthInv'
    BY <1>1, AttemptKeeps
  <1>4. /\ sinceReport \in 0..Longest /\ sinceHealth \in 0..Longest /\ sinceSent \in 0..Longest /\ k \in Nat
        /\ slotGap \in 0..Longest
    BY <1>0 DEF SchedulerTypeOK
  <1>5. /\ sinceReport' \in 0..Longest /\ sinceHealth' \in 0..Longest /\ sinceSent' \in 0..Longest
        /\ slotGap' \in 0..Longest
    BY <1>1, <1>4 DEF Older, Least
  <1>6. SchedulerTypeOK'
    <2>1. firstMask' \in Readings /\ retryFor' \in 1..RetryMax
      BY <1>0, <1>1 DEF SchedulerTypeOK
    <2>2. firstSensor' \in BOOLEAN /\ availabilityPending' \in BOOLEAN /\ retryPending' \in BOOLEAN
      BY <1>0, <1>1 DEF SchedulerTypeOK
    <2>3. QED
      BY <1>0, <1>1, <1>2, <1>3, <1>5, <2>1, <2>2 DEF SchedulerTypeOK
  <1>7. LearnedInv'
    BY <1>0, <1>1, <1>2, <1>3 DEF LearnedInv, Encodable
  <1>8. SlotInv'
    <2>1. sinceHealth' <= sinceSent'
      BY <1>0, <1>1, <1>4 DEF SlotInv, Older, Least
    <2>2. ~Dynamic => sinceReport' <= sinceSent'
      <3>1. kind \in Kinds
        BY <1>0 DEF SchedulerTypeOK
      <3>2. QED
        BY <1>0, <1>1, <1>4, <3>1 DEF SlotInv, Kinds, HealthTakesSlot, Older, Least
    <2>3. ~Dynamic => slotGap' >= settings.minutes /\ interval = settings.minutes
      <3>1. CASE kind = "Control"
        BY <1>0, <1>1, <1>2, <3>1 DEF SlotInv
      <3>2. CASE kind # "Control"
        BY <1>0, <1>1, <1>2, <3>2 DEF SlotInv
      <3>3. QED
        BY <3>1, <3>2
    <2>4. QED
      BY <1>1, <1>2, <2>1, <2>2, <2>3 DEF SlotInv, Dynamic
  <1>9. QED
    BY <1>3, <1>6, <1>7, <1>8 DEF IInv

(* One that was not stays owed, if it was a sensor report. *)
LEMMA UndeliveredIInv ==
  ASSUME IInv, Undelivered
  PROVE  IInv'
PROOF
  <1> USE SchedulerAssumption
  <1>0. SchedulerTypeOK /\ LearnedInv /\ SlotInv /\ settings.minutes \in 1..Longest
    BY MinutesFit DEF IInv, SchedulerTypeOK
  <1>1. PICK k \in 0..Long :
          /\ Attempt(k)
          /\ retryFor' \in {retryFor, Doubled} /\ pc' \in {"poll", "receive"}
          /\ retryPending' = (retryPending \/ kind = "Sensor")
          /\ sinceReport' = Older(sinceReport, k, Longest) /\ sinceHealth' = Older(sinceHealth, k, Longest)
          /\ sinceSent' = Older(sinceSent, k, Longest)
          /\ UNCHANGED <<replies, firstSensor, firstMask, freshInterval, availabilityPending, slotGap>>
    BY DEF Undelivered
  <1>2. /\ pc = "encode"
        /\ UNCHANGED <<settings, learned, haveEvaluation, interval, recordPending, latest, kind>>
    BY <1>1 DEF Attempt
  <1>3. /\ sinceFirst' \in Int /\ sinceFirst' <= Base /\ (sinceFirst = Base => sinceFirst' = Base)
        /\ sinceEvaluation' \in 0..Longest /\ sinceReset' \in 0..Longest - Base
        /\ GrowthInv'
    BY <1>1, AttemptKeeps
  <1>4. /\ sinceReport \in 0..Longest /\ sinceHealth \in 0..Longest /\ sinceSent \in 0..Longest /\ k \in Nat
    BY <1>0 DEF SchedulerTypeOK
  <1>5. /\ sinceReport' \in 0..Longest /\ sinceHealth' \in 0..Longest /\ sinceSent' \in 0..Longest
        /\ sinceSent <= sinceSent'
        /\ sinceHealth <= sinceSent => sinceHealth' <= sinceSent'
        /\ sinceReport <= sinceSent => sinceReport' <= sinceSent'
    BY <1>1, <1>4 DEF Older, Least
  <1>6. SchedulerTypeOK'
    <2>1. retryFor' \in 1..RetryMax
      BY <1>0, <1>1 DEF SchedulerTypeOK, Doubled, Least
    <2>2. retryPending' \in BOOLEAN
      BY <1>0, <1>1 DEF SchedulerTypeOK
    <2>3. QED
      BY <1>0, <1>1, <1>2, <1>3, <1>5, <2>1, <2>2 DEF SchedulerTypeOK
  <1>7. LearnedInv'
    BY <1>0, <1>1, <1>2, <1>3 DEF LearnedInv
  <1>8. SlotInv'
    <2>1. settings.minutes <= sinceSent => settings.minutes <= sinceSent'
      BY <1>0, <1>4, <1>5
    <2>2. ~Dynamic /\ retryPending' => settings.minutes <= sinceSent
      BY <1>0, <1>1, <1>2 DEF SlotInv
    <2>3. QED
      BY <1>0, <1>1, <1>2, <1>5, <2>1, <2>2 DEF SlotInv, Dynamic
  <1>9. QED
    BY <1>3, <1>6, <1>7, <1>8 DEF IInv

(* New settings start the slots, the interval and the evaluations over. *)
LEMMA ReceiveIInv ==
  ASSUME IInv, Receive
  PROVE  IInv'
PROOF
  <1> USE SchedulerAssumption
  <1>0. SchedulerTypeOK /\ LearnedInv /\ SlotInv /\ GrowthInv
    BY DEF IInv
  <1>1. PICK new \in Modes : SettingsChanged(new)
    BY DEF Receive, Modes
  <1>2. /\ pc = "receive" /\ pc' = "poll"
        /\ UNCHANGED <<kind, ready, latest, learned, firstSensor, attempted, availabilityPending, retryFor,
                       sinceFirst, sinceAttempt, sinceBlocked, sinceEvaluation, firstMask>>
    BY DEF Receive
  <1>3. new.minutes \in 1..Longest /\ new.mode \in {"Dynamic", "Fixed"}
    BY DEF Modes
  <1>4. CASE new = settings
    BY <1>0, <1>1, <1>2, <1>4
       DEF SettingsChanged, IInv, SchedulerTypeOK, LearnedInv, SlotInv, GrowthInv, Dynamic
  <1>5. CASE new # settings
    <2>1. /\ settings' = new
          /\ interval' = IF new.mode = "Fixed" THEN new.minutes ELSE Base
          /\ sinceReport' = 0 /\ sinceHealth' = 0 /\ retryPending' = FALSE
          /\ recordPending' = TRUE /\ haveEvaluation' = FALSE
          /\ sinceReset' = 0 /\ slotGap' = Longest /\ sinceSent' = Longest
      BY <1>1, <1>5 DEF SettingsChanged
    <2>2. /\ interval' \in 1..Longest /\ sinceReport' \in 0..Longest /\ sinceHealth' \in 0..Longest
          /\ sinceReset' \in 0..Longest - Base /\ slotGap' \in 0..Longest /\ sinceSent' \in 0..Longest
      BY <1>3, <2>1
    <2>3. SchedulerTypeOK'
      BY <1>0, <1>2, <2>1, <2>2 DEF SchedulerTypeOK
    <2>4. LearnedInv'
      BY <1>0, <1>2 DEF LearnedInv
    <2>5. SlotInv'
      BY <1>2, <1>3, <2>1 DEF SlotInv, Dynamic
    <2>6. GrowthInv'
      BY <1>3, <2>1 DEF GrowthInv, Dynamic
    <2>7. QED
      BY <2>3, <2>4, <2>5, <2>6 DEF IInv
  <1>6. QED
    BY <1>4, <1>5

LEMMA NextIInv == IInv /\ [Next]_vars => IInv'
PROOF
  <1> SUFFICES ASSUME IInv, [Next]_vars PROVE IInv'
    OBVIOUS
  <1>1. CASE UNCHANGED vars
    BY <1>1 DEF vars, IInv, SchedulerTypeOK, LearnedInv, SlotInv, GrowthInv, Dynamic
  <1>2. CASE Next
    BY <1>2, WorldIInv, PollIInv, DeliveredIInv, UndeliveredIInv, ReceiveIInv DEF Next
  <1>3. QED
    BY <1>1, <1>2

-----------------------------------------------------------------------------
(* What schedulerPoll and encoderTransmit keep true of the anchors, of what   *)
(* has been learned and of the interval, at every step.                      *)
THEOREM SchedulerInvariant == Spec => []IInv
  BY InitIInv, NextIInv, PTL DEF Spec

LEMMA IInvImplies == IInv => FirstReportIsComplete /\ FixedSlotsAreKept /\ IntervalFollowsTime
PROOF
  <1> SUFFICES ASSUME IInv PROVE FirstReportIsComplete /\ FixedSlotsAreKept /\ IntervalFollowsTime
    OBVIOUS
  <1>0. SchedulerTypeOK /\ LearnedInv /\ SlotInv /\ GrowthInv
    BY DEF IInv
  <1>1. FirstReportIsComplete
    BY <1>0 DEF LearnedInv, FirstReportIsComplete
  <1>2. FixedSlotsAreKept
    BY <1>0, SchedulerAssumption DEF SchedulerTypeOK, SlotInv, FixedSlotsAreKept
  <1>3. IntervalFollowsTime
    BY <1>0, SchedulerAssumption DEF SchedulerTypeOK, GrowthInv, IntervalFollowsTime
  <1>4. QED
    BY <1>1, <1>2, <1>3

(* The first sensor report is sent after six minutes of readings and holds    *)
(* all seven fields, whatever the worker commits between the choice of the    *)
(* report in schedulerPoll and its encoding in encoderTransmit.               *)
THEOREM FirstReportComplete == Spec => []FirstReportIsComplete
  BY SchedulerInvariant, IInvImplies, PTL

(* In Fixed mode two reports that were sent are never closer than the         *)
(* interval, across retries, health reports, lost readings and long           *)
(* transactions.                                                             *)
THEOREM FixedSlotsKept == Spec => []FixedSlotsAreKept
  BY SchedulerInvariant, IInvImplies, PTL

(* In Dynamic mode the interval never grows by more than the time since it    *)
(* was set outright, however often the worker notifies, and neither it nor    *)
(* the backoff leaves its limits.                                            *)
THEOREM IntervalFollows == Spec => []IntervalFollowsTime
  BY SchedulerInvariant, IInvImplies, PTL

-----------------------------------------------------------------------------
(* Numbers and bytes.                                                        *)
LEMMA UInt16Is == \A v : v \in UInt16 <=> v \in Nat /\ v <= 65535
  BY DEF UInt16

LEMMA UInt32Is ==
  ASSUME NEW v \in UInt32
  PROVE  /\ v[1] \in UInt16 /\ v[2] \in UInt16 /\ v = <<v[1], v[2]>>
         /\ v[1] \in Nat /\ v[1] <= 65535 /\ v[2] \in Nat /\ v[2] <= 65535
PROOF
  <1>1. v[1] \in UInt16 /\ v[2] \in UInt16 /\ v = <<v[1], v[2]>>
    BY DEF UInt32
  <1>2. QED
    BY <1>1, UInt16Is

(* Two bytes give back the number they were made of. *)
Holds16(b, i, v) == b[i] = v \div 256 /\ b[i + 1] = v % 256

LEMMA Reads16 ==
  ASSUME NEW v \in UInt16, NEW b, NEW i \in Nat, Holds16(b, i, v)
  PROVE  readU16(b, i) = v
PROOF
  <1>1. v \in Nat
    BY UInt16Is
  <1>2. 256 * (v \div 256) + (v % 256) = v
    BY <1>1
  <1>3. QED
    BY <1>2 DEF readU16, Holds16

(* A signed number that fits into 16 bits survives them. *)
LEMMA Signed ==
  ASSUME NEW v \in Int, -32768 <= v, v <= 32767
  PROVE  /\ Int16(v) \in UInt16
         /\ v = IF Int16(v) >= 32768 THEN Int16(v) - 65536 ELSE Int16(v)
         /\ v >= 0 => Int16(v) = v
PROOF
  <1>1. Int16(v) \in Nat /\ Int16(v) <= 65535
    BY DEF Int16
  <1>2. CASE v >= 0
    <2>1. Int16(v) = v
      BY <1>2 DEF Int16
    <2>2. QED
      BY <1>1, <1>2, <2>1, UInt16Is
  <1>3. CASE v < 0
    <2>1. Int16(v) = v + 65536
      BY <1>3 DEF Int16
    <2>2. QED
      BY <1>1, <1>3, <2>1, UInt16Is
  <1>4. QED
    BY <1>2, <1>3

LEMMA Unsigned ==
  ASSUME NEW v \in UInt16
  PROVE  Int16(v) = v
  BY UInt16Is DEF Int16

(* Rounding stays within half a step, and on the side of zero. *)
LEMMA RoundedNear ==
  ASSUME NEW x \in Int, NEW unit \in {10, 20, 100, 10000, 338639, 100000, 13332}
  PROVE  LET r == Rounded(x, unit)
         IN  /\ r \in Int /\ 2 * (unit * r - x) <= unit /\ 2 * (x - unit * r) <= unit
             /\ (x >= 0 => r >= 0) /\ (x < 0 => r <= 0)
PROOF
  <1> DEFINE a == Abs(x)
             q == (a + unit \div 2) \div unit
  <1>1. a \in Nat /\ a = IF x < 0 THEN -x ELSE x
    BY DEF Abs
  <1> HIDE DEF a
  <1>2. q \in Nat /\ 2 * (unit * q - a) <= unit /\ 2 * (a - unit * q) <= unit
    BY <1>1
  <1> HIDE DEF q
  <1>3. Rounded(x, unit) = IF x < 0 THEN -q ELSE q
    BY DEF Rounded, q, a
  <1>4. CASE x < 0
    BY <1>1, <1>2, <1>3, <1>4
  <1>5. CASE x >= 0
    BY <1>1, <1>2, <1>3, <1>5
  <1>6. QED
    BY <1>4, <1>5

(* What is inside a range of the sensor, in the units of the packet. *)
LEMMA RoundedIn ==
  ASSUME NEW x \in Int
  PROVE  /\ Between(x, -40000, 85000) => Rounded(x, 10) \in Int /\ Between(Rounded(x, 10), -4000, 8500)
         /\ Between(x, 0, 100000) => Rounded(x, 10) \in UInt16
         /\ Between(x, 300000, 1100000) => Rounded(x, 20) \in UInt16
         /\ Between(x, 0, 500000) => Rounded(x, 100) \in UInt16 /\ Rounded(x, 100) <= 5000
         /\ Between(x, 0, 655350) => Rounded(x, 10) \in UInt16
PROOF
  <1>1. /\ Rounded(x, 10) \in Int /\ 2 * (10 * Rounded(x, 10) - x) <= 10
        /\ 2 * (x - 10 * Rounded(x, 10)) <= 10 /\ (x >= 0 => Rounded(x, 10) >= 0)
    BY RoundedNear
  <1>2. /\ Rounded(x, 20) \in Int /\ 2 * (20 * Rounded(x, 20) - x) <= 20
        /\ 2 * (x - 20 * Rounded(x, 20)) <= 20 /\ (x >= 0 => Rounded(x, 20) >= 0)
    BY RoundedNear
  <1>3. /\ Rounded(x, 100) \in Int /\ 2 * (100 * Rounded(x, 100) - x) <= 100
        /\ 2 * (x - 100 * Rounded(x, 100)) <= 100 /\ (x >= 0 => Rounded(x, 100) >= 0)
    BY RoundedNear
  <1>4. Between(x, -40000, 85000) => Between(Rounded(x, 10), -4000, 8500)
    BY <1>1 DEF Between
  <1>5. /\ Between(x, 0, 100000) => Rounded(x, 10) \in UInt16
        /\ Between(x, 0, 655350) => Rounded(x, 10) \in UInt16
    BY <1>1, UInt16Is DEF Between
  <1>6. Between(x, 300000, 1100000) => Rounded(x, 20) \in UInt16
    BY <1>2, UInt16Is DEF Between
  <1>7. Between(x, 0, 500000) => Rounded(x, 100) \in UInt16 /\ Rounded(x, 100) <= 5000
    BY <1>3, UInt16Is DEF Between
  <1>8. QED
    BY <1>1, <1>4, <1>5, <1>6, <1>7

-----------------------------------------------------------------------------
(* Bytes made of flags.                                                      *)
LEMMA FlagIs ==
  ASSUME NEW c \in BOOLEAN, NEW w \in Nat
  PROVE  Flag(c, 1) \in 0..1 /\ (Flag(c, 1) = 1 <=> c) /\ Flag(c, w) = w * Flag(c, 1) /\ Flag(c, w) \in Nat
  BY DEF Flag

(* Four flags below a number. *)
Low(a, b, c, d, q) == a + 2 * b + 4 * c + 8 * d + 16 * q

LowIs(m, a, b, c, d, q) ==
  /\ m \in Nat /\ m \div 16 = q /\ m % 16 = Low(a, b, c, d, 0)
  /\ (Bit(m, 1) <=> a = 1) /\ (Bit(m, 2) <=> b = 1) /\ (Bit(m, 4) <=> c = 1) /\ (Bit(m, 8) <=> d = 1)

LEMMA LowBits ==
  ASSUME NEW a \in 0..1, NEW b \in 0..1, NEW c \in 0..1, NEW d \in 0..1, NEW q \in Nat
  PROVE  LowIs(Low(a, b, c, d, q), a, b, c, d, q)
PROOF
  <1> DEFINE m == a + 2 * b + 4 * c + 8 * d + 16 * q
  <1>1. m \in Nat /\ m \div 16 = q /\ m % 16 = a + 2 * b + 4 * c + 8 * d
    OBVIOUS
  <1>2. /\ m \div 1 = a + 2 * (b + 2 * c + 4 * d + 8 * q)
        /\ m \div 2 = b + 2 * (c + 2 * d + 4 * q)
        /\ m \div 4 = c + 2 * (d + 2 * q)
        /\ m \div 8 = d + 2 * q
    OBVIOUS
  <1>3. \A x \in 0..1, y \in Nat : (x + 2 * y) % 2 = x
    OBVIOUS
  <1>4. b + 2 * c + 4 * d + 8 * q \in Nat /\ c + 2 * d + 4 * q \in Nat /\ d + 2 * q \in Nat
    OBVIOUS
  <1>5. (m \div 1) % 2 = a /\ (m \div 2) % 2 = b /\ (m \div 4) % 2 = c /\ (m \div 8) % 2 = d
    BY <1>2, <1>3, <1>4
  <1>6. Low(a, b, c, d, q) = m /\ Low(a, b, c, d, 0) = a + 2 * b + 4 * c + 8 * d
    BY DEF Low
  <1> HIDE DEF m
  <1>7. QED
    BY <1>1, <1>5, <1>6 DEF Bit, LowIs

(* The high half of a byte. *)
High(r, e, f, g, h) == r + 16 * e + 32 * f + 64 * g + 128 * h

HighIs(m, e, f, g, h) ==
  /\ (m \div 16) % 8 = e + 2 * f + 4 * g
  /\ (Bit(m, 16) <=> e = 1) /\ (Bit(m, 32) <=> f = 1) /\ (Bit(m, 64) <=> g = 1) /\ (Bit(m, 128) <=> h = 1)

LEMMA HighBits ==
  ASSUME NEW r \in Nat, r < 16, NEW e \in 0..1, NEW f \in 0..1, NEW g \in 0..1, NEW h \in 0..1
  PROVE  HighIs(High(r, e, f, g, h), e, f, g, h)
PROOF
  <1> DEFINE m == r + 16 * e + 32 * f + 64 * g + 128 * h
  <1>1. m \div 16 = e + 2 * (f + 2 * g + 4 * h)
    OBVIOUS
  <1>2. m \div 32 = f + 2 * (g + 2 * h) /\ m \div 64 = g + 2 * h /\ m \div 128 = h + 2 * 0
    OBVIOUS
  <1>3. \A x \in 0..1, y \in Nat : (x + 2 * y) % 2 = x
    OBVIOUS
  <1>4. f + 2 * g + 4 * h \in Nat /\ g + 2 * h \in Nat
    OBVIOUS
  <1>5. (m \div 16) % 2 = e /\ (m \div 32) % 2 = f /\ (m \div 64) % 2 = g /\ (m \div 128) % 2 = h
    BY <1>1, <1>2, <1>3, <1>4
  <1>6. (m \div 16) % 8 = e + 2 * f + 4 * g
    BY <1>1
  <1>7. High(r, e, f, g, h) = m
    BY DEF High
  <1> HIDE DEF m
  <1>8. QED
    BY <1>5, <1>6, <1>7 DEF Bit, HighIs

-----------------------------------------------------------------------------
(* Putting packets together.                                                 *)
(* A slot holds the value, or zeros. *)
LEMMA Slot2 ==
  ASSUME NEW c \in BOOLEAN, NEW x \in Int, NEW y \in Int
  PROVE  LET s == Slot(c, <<x, y>>)
         IN  s \in Seq(Int) /\ Len(s) = 2 /\ (c => s[1] = x /\ s[2] = y)
PROOF
  <1>1. CASE c
    BY <1>1 DEF Slot
  <1>2. CASE ~c
    <2>1. [i \in DOMAIN <<x, y>> |-> 0] = <<0, 0>>
      OBVIOUS
    <2>2. QED
      BY <1>2, <2>1 DEF Slot
  <1>3. QED
    BY <1>1, <1>2

FourBytes(s, c, x, y, z, w) ==
  s \in Seq(Int) /\ Len(s) = 4 /\ (c => s[1] = x /\ s[2] = y /\ s[3] = z /\ s[4] = w)

LEMMA Slot4 ==
  ASSUME NEW c \in BOOLEAN, NEW x \in Int, NEW y \in Int, NEW z \in Int, NEW w \in Int
  PROVE  FourBytes(Slot(c, <<x, y, z, w>>), c, x, y, z, w)
PROOF
  <1>1. CASE c
    BY <1>1 DEF Slot, FourBytes
  <1>2. CASE ~c
    <2>1. [i \in DOMAIN <<x, y, z, w>> |-> 0] = <<0, 0, 0, 0>>
      OBVIOUS
    <2>2. QED
      BY <1>2, <2>1 DEF Slot, FourBytes
  <1>3. QED
    BY <1>1, <1>2

(* A sequence that has the parts of a concatenation is that concatenation. *)
LEMMA Joined ==
  ASSUME NEW S, NEW s \in Seq(S), NEW t \in Seq(S), NEW u \in Seq(S), Len(u) = Len(s) + Len(t),
         \A i \in 1..Len(s) : u[i] = s[i], \A i \in 1..Len(t) : u[Len(s) + i] = t[i]
  PROVE  s \o t = u
PROOF
  <1>1. /\ s \o t \in Seq(S) /\ Len(s \o t) = Len(s) + Len(t)
        /\ \A i \in 1..Len(s) + Len(t) : (s \o t)[i] = IF i <= Len(s) THEN s[i] ELSE t[i - Len(s)]
    BY ConcatProperties
  <1>2. ASSUME NEW i \in 1..Len(u)
        PROVE  (s \o t)[i] = u[i]
    <2>1. CASE i <= Len(s)
      BY <1>1, <2>1
    <2>2. CASE i > Len(s)
      <3>1. i - Len(s) \in 1..Len(t) /\ Len(s) + (i - Len(s)) = i
        BY <2>2
      <3>2. QED
        BY <1>1, <2>2, <3>1
    <2>3. QED
      BY <2>1, <2>2
  <1>3. QED
    BY <1>1, <1>2, SeqEqual

LEMMA Join22 ==
  ASSUME NEW a, NEW b, NEW c, NEW d
  PROVE  <<a, b>> \o <<c, d>> = <<a, b, c, d>>
PROOF
  <1> DEFINE S == {a, b, c, d}
             s == <<a, b>>
             t == <<c, d>>
             u == <<a, b, c, d>>
  <1>1. s \in Seq(S) /\ Len(s) = 2 /\ t \in Seq(S) /\ Len(t) = 2 /\ u \in Seq(S) /\ Len(u) = 4
        /\ u[1] = s[1] /\ u[2] = s[2] /\ u[3] = t[1] /\ u[4] = t[2]
    OBVIOUS
  <1> HIDE DEF s, t, u, S
  <1>2. \A i \in 1..Len(s) : u[i] = s[i]
    BY <1>1
  <1>3. \A i \in 1..Len(t) : u[Len(s) + i] = t[i]
    BY <1>1
  <1>4. Len(u) = Len(s) + Len(t) /\ s \in Seq(S) /\ t \in Seq(S) /\ u \in Seq(S)
    BY <1>1
  <1>5. s \o t = u
    BY <1>2, <1>3, <1>4, Joined, Zenon
  <1>6. QED
    BY <1>5 DEF s, t, u

(* The bytes of a uint32_t. *)
LEMMA U32Is ==
  ASSUME NEW v
  PROVE  U32(v) = <<v[1] \div 256, v[1] % 256, v[2] \div 256, v[2] % 256>>
  BY Join22 DEF U32, U16

(* Four bytes that give back both halves. *)
Holds32(b, i, v) == Holds16(b, i, v[1]) /\ Holds16(b, i + 2, v[2])

LEMMA Reads32 ==
  ASSUME NEW v \in UInt32, NEW b, NEW i \in Nat, Holds32(b, i, v)
  PROVE  readU32(b, i) = v
PROOF
  <1>1. v[1] \in UInt16 /\ v[2] \in UInt16 /\ v = <<v[1], v[2]>>
    BY UInt32Is
  <1>2. Holds16(b, i, v[1]) /\ Holds16(b, i + 2, v[2]) /\ i + 2 \in Nat
    BY DEF Holds32
  <1>3. readU16(b, i) = v[1]
    BY <1>1, <1>2, Reads16
  <1>4. readU16(b, i + 2) = v[2]
    BY <1>1, <1>2, Reads16
  <1>5. QED
    BY <1>1, <1>3, <1>4 DEF readU32

-----------------------------------------------------------------------------
(* w is the n bytes of s, then the k bytes of t. *)
Adds(w, s, n, t, k) ==
  /\ w \in Seq(Int) /\ Len(w) = n + k
  /\ \A i \in 1..n : w[i] = s[i]
  /\ \A i \in 1..k : w[n + i] = t[i]

Follows(w, S, s, n, t, k) ==
  /\ w \in Seq(S) /\ Len(w) = n + k
  /\ \A i \in 1..n : w[i] = s[i]
  /\ \A i \in 1..k : w[n + i] = t[i]

LEMMA FollowsIs ==
  ASSUME NEW S, NEW s \in Seq(S), NEW t \in Seq(S), NEW n \in Nat, NEW k \in Nat, Len(s) = n, Len(t) = k
  PROVE  Follows(s \o t, S, s, n, t, k)
PROOF
  <1>1. PICK w : w = s \o t
    OBVIOUS
  <1>2. /\ w \in Seq(S) /\ Len(w) = n + k
        /\ \A i \in 1..n + k : w[i] = IF i <= n THEN s[i] ELSE t[i - n]
    BY <1>1, ConcatProperties
  <1>3. \A i \in 1..n : w[i] = s[i]
    BY <1>2
  <1>4. ASSUME NEW i \in 1..k
        PROVE  w[n + i] = t[i]
    <2>1. n + i \in 1..n + k /\ ~(n + i <= n) /\ (n + i) - n = i
      OBVIOUS
    <2>2. QED
      BY <1>2, <2>1
  <1>5. QED
    BY <1>1, <1>2, <1>3, <1>4 DEF Follows

LEMMA AddsIs ==
  ASSUME NEW s \in Seq(Int), NEW t \in Seq(Int), NEW n \in Nat, NEW k \in Nat, Len(s) = n, Len(t) = k
  PROVE  Adds(s \o t, s, n, t, k)
PROOF
  <1>1. Follows(s \o t, Int, s, n, t, k)
    BY FollowsIs
  <1>2. QED
    BY <1>1 DEF Adds, Follows

(* What is left of a packet without its first byte. *)
LEMMA TailIs ==
  ASSUME NEW e \in Seq(Int), NEW n \in Nat, Len(e) = n + 1
  PROVE  Tail(e) \in Seq(Int) /\ Len(Tail(e)) = n /\ \A i \in 1..n : Tail(e)[i] = e[i + 1]
PROOF
  <1>1. e # <<>>
    BY LenProperties, EmptySeq
  <1>2. Tail(e) \in Seq(Int) /\ Len(Tail(e)) = Len(e) - 1 /\ \A i \in 1..Len(Tail(e)) : Tail(e)[i] = e[i + 1]
    BY <1>1, HeadTailProperties
  <1>3. QED
    BY <1>2

(* The parts of the environment packet. *)
EnvironmentIs(w, m, A, B, C, D) ==
  /\ w \in Seq(Int) /\ Len(w) = 11 /\ w[1] = m
  /\ w[2] = A[1] /\ w[3] = A[2] /\ w[4] = B[1] /\ w[5] = B[2] /\ w[6] = C[1] /\ w[7] = C[2]
  /\ w[8] = D[1] /\ w[9] = D[2] /\ w[10] = D[3] /\ w[11] = D[4]

LEMMA EnvironmentParts ==
  ASSUME NEW m \in Int, NEW A \in Seq(Int), NEW B \in Seq(Int), NEW C \in Seq(Int), NEW D \in Seq(Int),
         Len(A) = 2, Len(B) = 2, Len(C) = 2, Len(D) = 4
  PROVE  EnvironmentIs(<<m>> \o A \o B \o C \o D, m, A, B, C, D)
PROOF
  <1>1. PICK w0 : w0 = <<m>>
    OBVIOUS
  <1>2. PICK w1 : w1 = w0 \o A
    OBVIOUS
  <1>3. PICK w2 : w2 = w1 \o B
    OBVIOUS
  <1>4. PICK w3 : w3 = w2 \o C
    OBVIOUS
  <1>5. PICK w : w = w3 \o D
    OBVIOUS
  <1>6. w0 \in Seq(Int) /\ Len(w0) = 1 /\ w0[1] = m
    BY <1>1
  <1>7. Adds(w1, w0, 1, A, 2)
    BY <1>2, <1>6, AddsIs
  <1>8. w1 \in Seq(Int) /\ Len(w1) = 3 /\ w1[1] = m /\ w1[2] = A[1] /\ w1[3] = A[2]
    BY <1>6, <1>7 DEF Adds
  <1>9. Adds(w2, w1, 3, B, 2)
    BY <1>3, <1>8, AddsIs
  <1>10. /\ w2 \in Seq(Int) /\ Len(w2) = 5 /\ w2[1] = m /\ w2[2] = A[1] /\ w2[3] = A[2]
         /\ w2[4] = B[1] /\ w2[5] = B[2]
    BY <1>8, <1>9 DEF Adds
  <1>11. Adds(w3, w2, 5, C, 2)
    BY <1>4, <1>10, AddsIs
  <1>12. /\ w3 \in Seq(Int) /\ Len(w3) = 7 /\ w3[1] = m /\ w3[2] = A[1] /\ w3[3] = A[2]
         /\ w3[4] = B[1] /\ w3[5] = B[2] /\ w3[6] = C[1] /\ w3[7] = C[2]
    BY <1>10, <1>11 DEF Adds
  <1>13. Adds(w, w3, 7, D, 4)
    BY <1>5, <1>12, AddsIs
  <1>14. /\ w \in Seq(Int) /\ Len(w) = 11 /\ w[1] = m
         /\ w[2] = A[1] /\ w[3] = A[2] /\ w[4] = B[1] /\ w[5] = B[2] /\ w[6] = C[1] /\ w[7] = C[2]
         /\ w[8] = D[1] /\ w[9] = D[2] /\ w[10] = D[3] /\ w[11] = D[4]
    BY <1>12, <1>13 DEF Adds
  <1>15. w = <<m>> \o A \o B \o C \o D
    BY <1>1, <1>2, <1>3, <1>4, <1>5
  <1>16. QED
    BY <1>14, <1>15 DEF EnvironmentIs

(* A packet that keeps all but the first byte of another. *)
RelabelledIs(w, m, e, n) ==
  w \in Seq(Int) /\ Len(w) = n + 1 /\ w[1] = m /\ \A i \in 2..n + 1 : w[i] = e[i]

LEMMA Relabelled ==
  ASSUME NEW m \in Int, NEW e \in Seq(Int), NEW n \in Nat, Len(e) = n + 1
  PROVE  RelabelledIs(<<m>> \o Tail(e), m, e, n)
PROOF
  <1>1. PICK t : t = Tail(e)
    OBVIOUS
  <1>2. PICK w0 : w0 = <<m>>
    OBVIOUS
  <1>3. PICK w : w = w0 \o t
    OBVIOUS
  <1>4. t \in Seq(Int) /\ Len(t) = n /\ \A i \in 1..n : t[i] = e[i + 1]
    BY <1>1, TailIs
  <1>5. w0 \in Seq(Int) /\ Len(w0) = 1 /\ w0[1] = m
    BY <1>2
  <1>6. Adds(w, w0, 1, t, n)
    BY <1>3, <1>4, <1>5, AddsIs
  <1>7. w \in Seq(Int) /\ Len(w) = n + 1 /\ w[1] = m
    BY <1>5, <1>6 DEF Adds
  <1>8. ASSUME NEW i \in 2..n + 1
        PROVE  w[i] = e[i]
    <2>1. i - 1 \in 1..n /\ 1 + (i - 1) = i /\ (i - 1) + 1 = i
      OBVIOUS
    <2>2. w[1 + (i - 1)] = t[i - 1] /\ t[i - 1] = e[(i - 1) + 1]
      BY <1>4, <1>6, <2>1 DEF Adds
    <2>3. QED
      BY <2>1, <2>2
  <1>9. w = <<m>> \o Tail(e)
    BY <1>1, <1>2, <1>3
  <1>10. QED
    BY <1>7, <1>8, <1>9 DEF RelabelledIs

(* The parts of the report. *)
ReportIs(w, m, e, A, B, C, q, D) ==
  /\ w \in Seq(Int) /\ Len(w) = 24 /\ w[1] = m /\ \A i \in 2..11 : w[i] = e[i]
  /\ w[12] = A[1] /\ w[13] = A[2] /\ w[14] = B[1] /\ w[15] = B[2]
  /\ w[16] = C[1] /\ w[17] = C[2] /\ w[18] = C[3] /\ w[19] = C[4] /\ w[20] = q
  /\ w[21] = D[1] /\ w[22] = D[2] /\ w[23] = D[3] /\ w[24] = D[4]

LEMMA ReportParts ==
  ASSUME NEW m \in Int, NEW e \in Seq(Int), Len(e) = 11,
         NEW A \in Seq(Int), NEW B \in Seq(Int), NEW C \in Seq(Int), NEW q \in Int, NEW D \in Seq(Int),
         Len(A) = 2, Len(B) = 2, Len(C) = 4, Len(D) = 4
  PROVE  ReportIs(<<m>> \o Tail(e) \o A \o B \o C \o <<q>> \o D, m, e, A, B, C, q, D)
PROOF
  <1>1. PICK w1 : w1 = <<m>> \o Tail(e)
    OBVIOUS
  <1>2. PICK w2 : w2 = w1 \o A
    OBVIOUS
  <1>3. PICK w3 : w3 = w2 \o B
    OBVIOUS
  <1>4. PICK w4 : w4 = w3 \o C
    OBVIOUS
  <1>5. PICK t : t = <<q>>
    OBVIOUS
  <1>6. PICK w5 : w5 = w4 \o t
    OBVIOUS
  <1>7. PICK w : w = w5 \o D
    OBVIOUS
  <1>8. w1 \in Seq(Int) /\ Len(w1) = 11 /\ w1[1] = m /\ \A i \in 2..11 : w1[i] = e[i]
    <2>1. PICK n \in Nat : n = 10
      OBVIOUS
    <2>2. Len(e) = n + 1
      BY <2>1
    <2>3. RelabelledIs(w1, m, e, n)
      BY <1>1, <2>2, Relabelled
    <2>4. QED
      BY <2>1, <2>3 DEF RelabelledIs
  <1>9. Adds(w2, w1, 11, A, 2)
    BY <1>2, <1>8, AddsIs
  <1>10. /\ w2 \in Seq(Int) /\ Len(w2) = 13 /\ w2[1] = m /\ \A i \in 2..11 : w2[i] = e[i]
         /\ w2[12] = A[1] /\ w2[13] = A[2]
    BY <1>8, <1>9 DEF Adds
  <1>11. Adds(w3, w2, 13, B, 2)
    BY <1>3, <1>10, AddsIs
  <1>12. /\ w3 \in Seq(Int) /\ Len(w3) = 15 /\ w3[1] = m /\ \A i \in 2..11 : w3[i] = e[i]
         /\ w3[12] = A[1] /\ w3[13] = A[2] /\ w3[14] = B[1] /\ w3[15] = B[2]
    BY <1>10, <1>11 DEF Adds
  <1>13. Adds(w4, w3, 15, C, 4)
    BY <1>4, <1>12, AddsIs
  <1>14. /\ w4 \in Seq(Int) /\ Len(w4) = 19 /\ w4[1] = m /\ \A i \in 2..11 : w4[i] = e[i]
         /\ w4[12] = A[1] /\ w4[13] = A[2] /\ w4[14] = B[1] /\ w4[15] = B[2]
         /\ w4[16] = C[1] /\ w4[17] = C[2] /\ w4[18] = C[3] /\ w4[19] = C[4]
    BY <1>12, <1>13 DEF Adds
  <1>15. t \in Seq(Int) /\ Len(t) = 1 /\ t[1] = q
    BY <1>5
  <1>16. Adds(w5, w4, 19, t, 1)
    BY <1>6, <1>14, <1>15, AddsIs
  <1>17. /\ w5 \in Seq(Int) /\ Len(w5) = 20 /\ w5[1] = m /\ \A i \in 2..11 : w5[i] = e[i]
         /\ w5[12] = A[1] /\ w5[13] = A[2] /\ w5[14] = B[1] /\ w5[15] = B[2]
         /\ w5[16] = C[1] /\ w5[17] = C[2] /\ w5[18] = C[3] /\ w5[19] = C[4] /\ w5[20] = q
    BY <1>14, <1>15, <1>16 DEF Adds
  <1>18. Adds(w, w5, 20, D, 4)
    BY <1>7, <1>17, AddsIs
  <1>19. /\ w \in Seq(Int) /\ Len(w) = 24 /\ w[1] = m /\ \A i \in 2..11 : w[i] = e[i]
         /\ w[12] = A[1] /\ w[13] = A[2] /\ w[14] = B[1] /\ w[15] = B[2]
         /\ w[16] = C[1] /\ w[17] = C[2] /\ w[18] = C[3] /\ w[19] = C[4] /\ w[20] = q
         /\ w[21] = D[1] /\ w[22] = D[2] /\ w[23] = D[3] /\ w[24] = D[4]
    BY <1>17, <1>18 DEF Adds
  <1>20. w = <<m>> \o Tail(e) \o A \o B \o C \o <<q>> \o D
    BY <1>1, <1>2, <1>3, <1>4, <1>5, <1>6, <1>7
  <1>21. QED
    BY <1>19, <1>20 DEF ReportIs

(* The parts of the sensor packet. *)
SensorIs(w, m, r, p) ==
  w \in Seq(Int) /\ Len(w) = 25 /\ w[1] = m /\ (\A i \in 2..24 : w[i] = r[i]) /\ w[25] = p

LEMMA SensorParts ==
  ASSUME NEW m \in Int, NEW r \in Seq(Int), Len(r) = 24, NEW p \in Int
  PROVE  SensorIs(<<m>> \o Tail(r) \o <<p>>, m, r, p)
PROOF
  <1>1. PICK w1 : w1 = <<m>> \o Tail(r)
    OBVIOUS
  <1>2. PICK t : t = <<p>>
    OBVIOUS
  <1>3. PICK w : w = w1 \o t
    OBVIOUS
  <1>4. w1 \in Seq(Int) /\ Len(w1) = 24 /\ w1[1] = m /\ \A i \in 2..24 : w1[i] = r[i]
    <2>1. PICK n \in Nat : n = 23
      OBVIOUS
    <2>2. Len(r) = n + 1
      BY <2>1
    <2>3. RelabelledIs(w1, m, r, n)
      BY <1>1, <2>2, Relabelled
    <2>4. QED
      BY <2>1, <2>3 DEF RelabelledIs
  <1>5. t \in Seq(Int) /\ Len(t) = 1 /\ t[1] = p
    BY <1>2
  <1>6. Adds(w, w1, 24, t, 1)
    BY <1>3, <1>4, <1>5, AddsIs
  <1>7. w \in Seq(Int) /\ Len(w) = 25 /\ w[1] = m /\ (\A i \in 2..24 : w[i] = r[i]) /\ w[25] = p
    BY <1>4, <1>5, <1>6 DEF Adds
  <1>8. w = <<m>> \o Tail(r) \o <<p>>
    BY <1>1, <1>2, <1>3
  <1>9. QED
    BY <1>7, <1>8 DEF SensorIs

-----------------------------------------------------------------------------
(* Which readings of a sample are valid, and the two mask bytes of a packet.  *)
TOk(s) == Between(s.temperatureC, -40000, 85000)
HOk(s) == Between(s.humidityPct, 0, 100000)
POk(s) == Between(s.pressurePa, 300000, 1100000)
GOk(s) == s.gasValid /\ s.gasOhms # <<0, 0>>
QOk(s) == Bit(s.validMask, 1) /\ s.iaqAccuracy <= 3 /\ Between(s.iaq, 0, 500000)
COk(s) == Bit(s.validMask, 2) /\ Between(s.co2EquivalentPpm, 0, 655350)
VOk(s) == /\ Bit(s.validMask, 4) /\ Finite(s.breathVocEquivalentPpm)
          /\ NotBelowZero(s.breathVocEquivalentPpm)
Measured(s) == Flag(TOk(s), 1) + Flag(HOk(s), 2) + Flag(POk(s), 4) + Flag(GOk(s), 8)
Outputs(s) == Flag(QOk(s), 1) + 2 * Flag(COk(s), 1) + 4 * Flag(VOk(s), 1)
AirByte(s) == Flag(QOk(s), 16) + Flag(COk(s), 32) + Flag(VOk(s), 64)
              + Flag(s.iaqAccuracy <= 3, s.iaqAccuracy) + Flag(s.stabilized, 4) + Flag(s.runIn, 8)
              + Flag(s.temperatureHumidityCompensated, 128)

LEMMA ValidIsBoolean ==
  ASSUME NEW s \in SensorSnapshot
  PROVE  /\ TOk(s) \in BOOLEAN /\ HOk(s) \in BOOLEAN /\ POk(s) \in BOOLEAN /\ GOk(s) \in BOOLEAN
         /\ QOk(s) \in BOOLEAN /\ COk(s) \in BOOLEAN /\ VOk(s) \in BOOLEAN
  BY DEF TOk, HOk, POk, GOk, QOk, COk, VOk, SensorSnapshot, Between, Bit, Finite, NotBelowZero

LEMMA FlagsAre ==
  ASSUME NEW c \in BOOLEAN
  PROVE  /\ Flag(c, 1) \in 0..1 /\ (Flag(c, 1) = 1 <=> c)
         /\ Flag(c, 2) = 2 * Flag(c, 1) /\ Flag(c, 4) = 4 * Flag(c, 1) /\ Flag(c, 8) = 8 * Flag(c, 1)
         /\ Flag(c, 16) = 16 * Flag(c, 1) /\ Flag(c, 32) = 32 * Flag(c, 1) /\ Flag(c, 64) = 64 * Flag(c, 1)
         /\ Flag(c, 128) = 128 * Flag(c, 1)
  BY DEF Flag

(* Both mask bytes say what is valid. *)
LEMMA ReadingsAre ==
  ASSUME NEW s \in SensorSnapshot, NEW q \in Nat, NEW m, m = Measured(s) + 16 * q
  PROVE  /\ m \in Nat /\ m \div 16 = q /\ m % 16 = Measured(s)
         /\ Measured(s) \in Nat /\ Measured(s) < 16 /\ Outputs(s) \in Nat /\ Outputs(s) < 8
         /\ (Bit(m, 1) <=> TOk(s)) /\ (Bit(m, 2) <=> HOk(s)) /\ (Bit(m, 4) <=> POk(s)) /\ (Bit(m, 8) <=> GOk(s))
PROOF
  <1>1. PICK a \in 0..1, b \in 0..1, c \in 0..1, d \in 0..1 :
          /\ Measured(s) = a + 2 * b + 4 * c + 8 * d
          /\ (a = 1 <=> TOk(s)) /\ (b = 1 <=> HOk(s)) /\ (c = 1 <=> POk(s)) /\ (d = 1 <=> GOk(s))
    BY ValidIsBoolean, FlagsAre DEF Measured
  <1>2. PICK e \in 0..1, f \in 0..1, g \in 0..1 : Outputs(s) = e + 2 * f + 4 * g
    BY ValidIsBoolean, FlagsAre DEF Outputs
  <1>3. m = Low(a, b, c, d, q) /\ Measured(s) = Low(a, b, c, d, 0)
    BY <1>1 DEF Low
  <1>4. LowIs(m, a, b, c, d, q)
    BY <1>3, LowBits
  <1>5. Measured(s) \in Nat /\ Measured(s) < 16
    BY <1>1
  <1>6. Outputs(s) \in Nat /\ Outputs(s) < 8
    BY <1>2
  <1>7. QED
    BY <1>1, <1>3, <1>4, <1>5, <1>6 DEF LowIs

LEMMA OutputsAre ==
  ASSUME NEW s \in SensorSnapshot, NEW r \in Nat, r < 16, NEW h \in 0..1,
         NEW m, m = r + 16 * Outputs(s) + 128 * h
  PROVE  /\ (m \div 16) % 8 = Outputs(s)
         /\ (Bit(m, 16) <=> QOk(s)) /\ (Bit(m, 32) <=> COk(s)) /\ (Bit(m, 64) <=> VOk(s)) /\ (Bit(m, 128) <=> h = 1)
PROOF
  <1>1. PICK e \in 0..1, f \in 0..1, g \in 0..1 :
          /\ Outputs(s) = e + 2 * f + 4 * g
          /\ (e = 1 <=> QOk(s)) /\ (f = 1 <=> COk(s)) /\ (g = 1 <=> VOk(s))
    BY ValidIsBoolean, FlagsAre DEF Outputs
  <1>2. m = High(r, e, f, g, h)
    BY <1>1 DEF High
  <1>3. HighIs(m, e, f, g, h)
    BY <1>2, HighBits
  <1>4. QED
    BY <1>1, <1>3 DEF HighIs

LEMMA SensorMask ==
  ASSUME NEW s \in SensorSnapshot
  PROVE  LET m == sensorValidMask(s)
         IN  /\ m = Measured(s) + 16 * Outputs(s) /\ m \div 16 = Outputs(s)
             /\ (Bit(m, 1) <=> TOk(s)) /\ (Bit(m, 2) <=> HOk(s)) /\ (Bit(m, 4) <=> POk(s))
             /\ (Bit(m, 8) <=> GOk(s))
             /\ (Bit(m, 16) <=> QOk(s)) /\ (Bit(m, 32) <=> COk(s)) /\ (Bit(m, 64) <=> VOk(s))
PROOF
  <1>1. sensorValidMask(s) = Measured(s) + Flag(QOk(s), 16) + Flag(COk(s), 32) + Flag(VOk(s), 64)
    <2>1. sensorValidMask(s) = Flag(TOk(s), 1) + Flag(HOk(s), 2) + Flag(POk(s), 4) + Flag(GOk(s), 8)
                               + Flag(QOk(s), 16) + Flag(COk(s), 32) + Flag(VOk(s), 64)
      BY SMT DEF sensorValidMask, TOk, HOk, POk, GOk, QOk, COk, VOk
    <2>2. QED
      BY <2>1, Zenon DEF Measured
  <1>2. PICK m : m = sensorValidMask(s)
    OBVIOUS
  <1>3. Outputs(s) \in Nat /\ Measured(s) \in Nat /\ Measured(s) < 16
    BY ReadingsAre
  <1>4. Flag(QOk(s), 16) + Flag(COk(s), 32) + Flag(VOk(s), 64) = 16 * Outputs(s)
    BY ValidIsBoolean, FlagsAre DEF Outputs
  <1>5. m = Measured(s) + 16 * Outputs(s)
    <2>1. /\ Flag(QOk(s), 16) \in Nat /\ Flag(COk(s), 32) \in Nat /\ Flag(VOk(s), 64) \in Nat
      BY ValidIsBoolean, FlagsAre
    <2>2. QED
      BY <1>1, <1>2, <1>3, <1>4, <2>1
  <1>6. /\ m \div 16 = Outputs(s)
        /\ (Bit(m, 1) <=> TOk(s)) /\ (Bit(m, 2) <=> HOk(s)) /\ (Bit(m, 4) <=> POk(s)) /\ (Bit(m, 8) <=> GOk(s))
    BY <1>3, <1>5, ReadingsAre
  <1>7. (Bit(m, 16) <=> QOk(s)) /\ (Bit(m, 32) <=> COk(s)) /\ (Bit(m, 64) <=> VOk(s))
    <2>1. m = Measured(s) + 16 * Outputs(s) + 128 * 0
      BY <1>3, <1>5
    <2>2. QED
      BY <1>3, <2>1, OutputsAre
  <1>8. QED
    BY <1>2, <1>5, <1>6, <1>7

-----------------------------------------------------------------------------
(* What the bytes of each sensor packet hold.                                *)
EnvironmentBytes(b, s) ==
  /\ b[1] % 16 = Measured(s)
  /\ TOk(s) => readU16(b, 2) = Int16(Rounded(s.temperatureC, 10))
  /\ HOk(s) => readU16(b, 4) = Int16(Rounded(s.humidityPct, 10))
  /\ POk(s) => readU16(b, 6) = Int16(Rounded(s.pressurePa, 20))
  /\ GOk(s) => readU32(b, 8) = s.gasOhms
AirBytes(b, s) ==
  /\ b[20] = AirByte(s)
  /\ QOk(s) => readU16(b, 12) = Int16(Rounded(s.iaq, 100))
  /\ COk(s) => readU16(b, 14) = Int16(Rounded(s.co2EquivalentPpm, 10))
  /\ VOk(s) => readU32(b, 16) = s.breathVocEquivalentPpm
  /\ readU32(b, 21) = s.sampleUptimeSeconds

LEMMA Int16In ==
  ASSUME NEW v \in Int
  PROVE  Int16(v) \in UInt16
  BY UInt16Is DEF Int16

LEMMA RoundedIsInt ==
  ASSUME NEW x \in Int
  PROVE  Rounded(x, 10) \in Int /\ Rounded(x, 20) \in Int /\ Rounded(x, 100) \in Int
  BY RoundedNear

(* A slot of a number holds its bytes, or zeros. *)
Slot16(t, c, v) == t \in Seq(Int) /\ Len(t) = 2 /\ (c => Holds16(t, 1, v))
Slot32(t, c, v) == t \in Seq(Int) /\ Len(t) = 4 /\ (c => Holds32(t, 1, v))

LEMMA SlotU16 ==
  ASSUME NEW c \in BOOLEAN, NEW v \in UInt16
  PROVE  Slot16(Slot(c, U16(v)), c, v)
PROOF
  <1>1. v \in Nat
    BY UInt16Is
  <1>2. PICK x \in Int, y \in Int : x = v \div 256 /\ y = v % 256
    BY <1>1
  <1>3. PICK t : t = Slot(c, <<x, y>>)
    OBVIOUS
  <1>4. t \in Seq(Int) /\ Len(t) = 2 /\ (c => t[1] = x /\ t[2] = y)
    BY <1>3, Slot2
  <1>5. t = Slot(c, U16(v))
    BY <1>2, <1>3 DEF U16
  <1>6. c => Holds16(t, 1, v)
    BY <1>2, <1>4 DEF Holds16
  <1>7. QED
    BY <1>4, <1>5, <1>6 DEF Slot16

LEMMA SlotU32 ==
  ASSUME NEW c \in BOOLEAN, NEW v \in UInt32
  PROVE  Slot32(Slot(c, U32(v)), c, v)
PROOF
  <1>1. v[1] \in Nat /\ v[2] \in Nat
    BY UInt32Is
  <1>2. PICK x \in Int, y \in Int, z \in Int, w \in Int :
          x = v[1] \div 256 /\ y = v[1] % 256 /\ z = v[2] \div 256 /\ w = v[2] % 256
    BY <1>1
  <1>3. PICK t : t = Slot(c, <<x, y, z, w>>)
    OBVIOUS
  <1>4. t \in Seq(Int) /\ Len(t) = 4 /\ (c => t[1] = x /\ t[2] = y /\ t[3] = z /\ t[4] = w)
    <2>1. FourBytes(t, c, x, y, z, w)
      BY <1>3, Slot4, Zenon
    <2>2. QED
      BY <2>1, Zenon DEF FourBytes
  <1>5. t = Slot(c, U32(v))
    BY <1>2, <1>3, U32Is
  <1>6. c => Holds32(t, 1, v)
    BY <1>2, <1>4 DEF Holds16, Holds32
  <1>7. QED
    BY <1>4, <1>5, <1>6 DEF Slot32

LEMMA EnvironmentPacket ==
  ASSUME NEW s \in SensorSnapshot
  PROVE  LET b == payloadEncodeEnvironment(s)
         IN  b \in Seq(Int) /\ Len(b) = 11 /\ b[1] = 16 + Measured(s) /\ EnvironmentBytes(b, s)
PROOF
  <1>1. PICK m : m = 16 + Flag(TOk(s), 1) + Flag(HOk(s), 2) + Flag(POk(s), 4) + Flag(GOk(s), 8)
    OBVIOUS
  <1>2. PICK A : A = Slot(TOk(s), U16(Int16(Rounded(s.temperatureC, 10))))
    OBVIOUS
  <1>3. PICK B : B = Slot(HOk(s), U16(Int16(Rounded(s.humidityPct, 10))))
    OBVIOUS
  <1>4. PICK C : C = Slot(POk(s), U16(Int16(Rounded(s.pressurePa, 20))))
    OBVIOUS
  <1>5. PICK D : D = Slot(GOk(s), U32(s.gasOhms))
    OBVIOUS
  <1>6. PICK b : b = <<m>> \o A \o B \o C \o D
    OBVIOUS
  <1>7. payloadEncodeEnvironment(s) = b
    <2>1. payloadEncodeEnvironment(s) =
            <<16 + Flag(TOk(s), 1) + Flag(HOk(s), 2) + Flag(POk(s), 4) + Flag(GOk(s), 8)>>
            \o Slot(TOk(s), U16(Int16(Rounded(s.temperatureC, 10))))
            \o Slot(HOk(s), U16(Int16(Rounded(s.humidityPct, 10))))
            \o Slot(POk(s), U16(Int16(Rounded(s.pressurePa, 20)))) \o Slot(GOk(s), U32(s.gasOhms))
      BY SMT DEF payloadEncodeEnvironment, TOk, HOk, POk, GOk
    <2>2. QED
      BY <1>1, <1>2, <1>3, <1>4, <1>5, <1>6, <2>1
  <1>8. /\ s.temperatureC \in Int /\ s.humidityPct \in Int /\ s.pressurePa \in Int /\ s.gasOhms \in UInt32
        /\ TOk(s) \in BOOLEAN /\ HOk(s) \in BOOLEAN /\ POk(s) \in BOOLEAN /\ GOk(s) \in BOOLEAN
    BY ValidIsBoolean DEF SensorSnapshot
  <1>9. PICK x \in UInt16, y \in UInt16, z \in UInt16 :
          /\ x = Int16(Rounded(s.temperatureC, 10)) /\ y = Int16(Rounded(s.humidityPct, 10))
          /\ z = Int16(Rounded(s.pressurePa, 20))
    BY <1>8, RoundedIsInt, Int16In
  <1>10. Slot16(A, TOk(s), x) /\ Slot16(B, HOk(s), y) /\ Slot16(C, POk(s), z)
    BY <1>2, <1>3, <1>4, <1>8, <1>9, SlotU16
  <1>11. PICK g \in UInt32 : g = s.gasOhms
    BY <1>8
  <1>12. Slot32(D, GOk(s), g)
    BY <1>5, <1>8, <1>11, SlotU32
  <1>13. /\ A \in Seq(Int) /\ B \in Seq(Int) /\ C \in Seq(Int) /\ D \in Seq(Int)
         /\ Len(A) = 2 /\ Len(B) = 2 /\ Len(C) = 2 /\ Len(D) = 4
    BY <1>10, <1>12 DEF Slot16, Slot32
  <1>14. /\ TOk(s) => Holds16(A, 1, x)
         /\ HOk(s) => Holds16(B, 1, y)
         /\ POk(s) => Holds16(C, 1, z)
         /\ GOk(s) => Holds32(D, 1, g)
    BY <1>10, <1>12 DEF Slot16, Slot32
  <1>15. m = 16 + Measured(s) /\ m \in Int /\ m % 16 = Measured(s)
    <2>1. Measured(s) = Flag(TOk(s), 1) + Flag(HOk(s), 2) + Flag(POk(s), 4) + Flag(GOk(s), 8)
      BY DEF Measured
    <2>2. /\ Flag(TOk(s), 1) \in Int /\ Flag(HOk(s), 2) \in Int /\ Flag(POk(s), 4) \in Int
          /\ Flag(GOk(s), 8) \in Int
      BY DEF Flag
    <2>3. m = 16 + Measured(s)
      BY <1>1, <2>1, <2>2
    <2>4. Measured(s) \in Nat /\ Measured(s) < 16
      BY ReadingsAre
    <2>5. QED
      BY <2>3, <2>4
  <1>16. EnvironmentIs(b, m, A, B, C, D)
    BY <1>6, <1>13, <1>15, EnvironmentParts
  <1>17. /\ TOk(s) => Holds16(b, 2, x)
         /\ HOk(s) => Holds16(b, 4, y)
         /\ POk(s) => Holds16(b, 6, z)
    BY <1>14, <1>16 DEF EnvironmentIs, Holds16
  <1>18. GOk(s) => Holds32(b, 8, g)
    BY <1>14, <1>16 DEF EnvironmentIs, Holds16, Holds32
  <1>19. /\ TOk(s) => readU16(b, 2) = x
         /\ HOk(s) => readU16(b, 4) = y
         /\ POk(s) => readU16(b, 6) = z
    BY <1>17, Reads16
  <1>20. GOk(s) => readU32(b, 8) = g
    BY <1>18, Reads32
  <1>21. b \in Seq(Int) /\ Len(b) = 11 /\ b[1] = m
    BY <1>16 DEF EnvironmentIs
  <1>22. EnvironmentBytes(b, s)
    BY <1>9, <1>11, <1>15, <1>19, <1>20, <1>21 DEF EnvironmentBytes
  <1>23. QED
    BY <1>7, <1>15, <1>21, <1>22

(* A later packet keeps the bytes of an earlier one. *)
LEMMA EnvironmentKept ==
  ASSUME NEW s, NEW e, NEW w, EnvironmentBytes(e, s), w[1] % 16 = Measured(s), \A i \in 2..11 : w[i] = e[i]
  PROVE  EnvironmentBytes(w, s)
PROOF
  <1>1. /\ w[2] = e[2] /\ w[3] = e[3] /\ w[4] = e[4] /\ w[5] = e[5] /\ w[6] = e[6]
        /\ w[7] = e[7] /\ w[8] = e[8] /\ w[9] = e[9] /\ w[10] = e[10] /\ w[11] = e[11]
    OBVIOUS
  <1>2. readU16(w, 2) = readU16(e, 2) /\ readU16(w, 4) = readU16(e, 4) /\ readU16(w, 6) = readU16(e, 6)
    BY <1>1 DEF readU16
  <1>3. readU32(w, 8) = readU32(e, 8)
    BY <1>1 DEF readU16, readU32
  <1>4. QED
    BY <1>2, <1>3 DEF EnvironmentBytes

LEMMA AirKept ==
  ASSUME NEW s, NEW e, NEW w, AirBytes(e, s), \A i \in 2..24 : w[i] = e[i]
  PROVE  AirBytes(w, s)
PROOF
  <1>1. /\ w[12] = e[12] /\ w[13] = e[13] /\ w[14] = e[14] /\ w[15] = e[15] /\ w[16] = e[16] /\ w[17] = e[17]
        /\ w[18] = e[18] /\ w[19] = e[19] /\ w[20] = e[20] /\ w[21] = e[21] /\ w[22] = e[22]
        /\ w[23] = e[23] /\ w[24] = e[24]
    OBVIOUS
  <1>2. readU16(w, 12) = readU16(e, 12) /\ readU16(w, 14) = readU16(e, 14)
    BY <1>1 DEF readU16
  <1>3. readU32(w, 16) = readU32(e, 16) /\ readU32(w, 21) = readU32(e, 21)
    BY <1>1 DEF readU16, readU32
  <1>4. QED
    BY <1>1, <1>2, <1>3 DEF AirBytes

(* The byte of the air quality: the accuracy, three flags and the outputs. *)
LEMMA AirByteIs ==
  ASSUME NEW s \in SensorSnapshot
  PROVE  \E r \in 0..15 : /\ AirByte(s) = r + 16 * Outputs(s) + 128 * Flag(s.temperatureHumidityCompensated, 1)
                          /\ r % 4 = IF s.iaqAccuracy <= 3 THEN s.iaqAccuracy ELSE 0
PROOF
  <1>1. /\ s.iaqAccuracy \in 0..255 /\ s.stabilized \in BOOLEAN /\ s.runIn \in BOOLEAN
        /\ s.temperatureHumidityCompensated \in BOOLEAN
        /\ QOk(s) \in BOOLEAN /\ COk(s) \in BOOLEAN /\ VOk(s) \in BOOLEAN
    BY ValidIsBoolean DEF SensorSnapshot
  <1>2. PICK a \in 0..3 : /\ a = Flag(s.iaqAccuracy <= 3, s.iaqAccuracy)
                          /\ a = IF s.iaqAccuracy <= 3 THEN s.iaqAccuracy ELSE 0
    BY <1>1 DEF Flag
  <1>3. PICK b \in 0..1, c \in 0..1, h \in 0..1 :
          /\ Flag(s.stabilized, 4) = 4 * b /\ Flag(s.runIn, 8) = 8 * c
          /\ Flag(s.temperatureHumidityCompensated, 128) = 128 * h
          /\ Flag(s.temperatureHumidityCompensated, 1) = h
    BY <1>1, FlagsAre
  <1>4. PICK e \in 0..1, f \in 0..1, g \in 0..1 :
          /\ Flag(QOk(s), 16) = 16 * e /\ Flag(COk(s), 32) = 32 * f /\ Flag(VOk(s), 64) = 64 * g
          /\ Flag(QOk(s), 1) = e /\ Flag(COk(s), 1) = f /\ Flag(VOk(s), 1) = g
    BY <1>1, FlagsAre
  <1>5. PICK r \in 0..15 : r = a + 4 * b + 8 * c
    OBVIOUS
  <1>6. AirByte(s) = 16 * e + 32 * f + 64 * g + a + 4 * b + 8 * c + 128 * h
    BY <1>2, <1>3, <1>4 DEF AirByte
  <1>7. Outputs(s) = e + 2 * f + 4 * g
    BY <1>4 DEF Outputs
  <1>8. AirByte(s) = r + 16 * Outputs(s) + 128 * h
    BY <1>5, <1>6, <1>7
  <1>9. r % 4 = a
    BY <1>5
  <1>10. QED
    BY <1>2, <1>3, <1>8, <1>9

LEMMA BytesOf32 ==
  ASSUME NEW v \in UInt32
  PROVE  Slot32(U32(v), TRUE, v)
PROOF
  <1>1. Slot(TRUE, U32(v)) = U32(v)
    BY DEF Slot
  <1>2. QED
    BY <1>1, SlotU32

LEMMA ReportPacket ==
  ASSUME NEW s \in SensorSnapshot
  PROVE  LET b == payloadEncodeReport(s)
         IN  /\ b \in Seq(Int) /\ Len(b) = 24 /\ b[1] = 32 + Measured(s)
             /\ EnvironmentBytes(b, s) /\ AirBytes(b, s)
PROOF
  <1>1. PICK e : e = payloadEncodeEnvironment(s)
    OBVIOUS
  <1>2. e \in Seq(Int) /\ Len(e) = 11 /\ e[1] = 16 + Measured(s) /\ EnvironmentBytes(e, s)
    BY <1>1, EnvironmentPacket
  <1>3. PICK m : m = 32 + (e[1] % 16)
    OBVIOUS
  <1>4. PICK A : A = Slot(QOk(s), U16(Int16(Rounded(s.iaq, 100))))
    OBVIOUS
  <1>5. PICK B : B = Slot(COk(s), U16(Int16(Rounded(s.co2EquivalentPpm, 10))))
    OBVIOUS
  <1>6. PICK C : C = Slot(VOk(s), U32(s.breathVocEquivalentPpm))
    OBVIOUS
  <1>7. PICK q : q = AirByte(s)
    OBVIOUS
  <1>8. PICK D : D = U32(s.sampleUptimeSeconds)
    OBVIOUS
  <1>9. PICK b : b = <<m>> \o Tail(e) \o A \o B \o C \o <<q>> \o D
    OBVIOUS
  <1>10. payloadEncodeReport(s) = b
    <2>1. payloadEncodeReport(s) =
            <<32 + (payloadEncodeEnvironment(s)[1] % 16)>> \o Tail(payloadEncodeEnvironment(s))
            \o Slot(QOk(s), U16(Int16(Rounded(s.iaq, 100))))
            \o Slot(COk(s), U16(Int16(Rounded(s.co2EquivalentPpm, 10))))
            \o Slot(VOk(s), U32(s.breathVocEquivalentPpm)) \o <<AirByte(s)>> \o U32(s.sampleUptimeSeconds)
      BY SMT DEF payloadEncodeReport, QOk, COk, VOk, AirByte
    <2>2. QED
      BY <1>1, <1>3, <1>4, <1>5, <1>6, <1>7, <1>8, <1>9, <2>1
  <1>11. /\ s.iaq \in Int /\ s.co2EquivalentPpm \in Int /\ s.breathVocEquivalentPpm \in UInt32
         /\ s.sampleUptimeSeconds \in UInt32
         /\ QOk(s) \in BOOLEAN /\ COk(s) \in BOOLEAN /\ VOk(s) \in BOOLEAN
    BY ValidIsBoolean DEF SensorSnapshot
  <1>12. PICK x \in UInt16, y \in UInt16 :
           x = Int16(Rounded(s.iaq, 100)) /\ y = Int16(Rounded(s.co2EquivalentPpm, 10))
    BY <1>11, RoundedIsInt, Int16In
  <1>13. PICK v \in UInt32, u \in UInt32 : v = s.breathVocEquivalentPpm /\ u = s.sampleUptimeSeconds
    BY <1>11
  <1>14. Slot16(A, QOk(s), x) /\ Slot16(B, COk(s), y)
    BY <1>4, <1>5, <1>11, <1>12, SlotU16
  <1>15. Slot32(C, VOk(s), v) /\ Slot32(D, TRUE, u)
    BY <1>6, <1>8, <1>11, <1>13, SlotU32, BytesOf32
  <1>16. /\ A \in Seq(Int) /\ B \in Seq(Int) /\ C \in Seq(Int) /\ D \in Seq(Int)
         /\ Len(A) = 2 /\ Len(B) = 2 /\ Len(C) = 4 /\ Len(D) = 4
         /\ QOk(s) => Holds16(A, 1, x)
         /\ COk(s) => Holds16(B, 1, y)
         /\ VOk(s) => Holds32(C, 1, v)
         /\ Holds32(D, 1, u)
    BY <1>14, <1>15 DEF Slot16, Slot32
  <1>17. m = 32 + Measured(s) /\ m \in Int /\ m % 16 = Measured(s)
    <2>1. Measured(s) \in Nat /\ Measured(s) < 16
      BY ReadingsAre
    <2>2. QED
      BY <1>2, <1>3, <2>1
  <1>18. q \in Int
    <2>1. PICK r \in 0..15 : AirByte(s) = r + 16 * Outputs(s) + 128 * Flag(s.temperatureHumidityCompensated, 1)
      BY AirByteIs
    <2>2. Outputs(s) \in Int /\ Flag(s.temperatureHumidityCompensated, 1) \in Int
      BY ReadingsAre DEF Flag
    <2>3. QED
      BY <1>7, <2>1, <2>2
  <1>19. ReportIs(b, m, e, A, B, C, q, D)
    BY <1>2, <1>9, <1>16, <1>17, <1>18, ReportParts, Zenon
  <1>20. b \in Seq(Int) /\ Len(b) = 24 /\ b[1] = m /\ b[20] = q /\ \A i \in 2..11 : b[i] = e[i]
    BY <1>19 DEF ReportIs
  <1>21. EnvironmentBytes(b, s)
    BY <1>2, <1>17, <1>20, EnvironmentKept
  <1>22. /\ QOk(s) => Holds16(b, 12, x)
         /\ COk(s) => Holds16(b, 14, y)
    <2>1. b[12] = A[1] /\ b[13] = A[2] /\ b[14] = B[1] /\ b[15] = B[2]
      BY <1>19, Zenon DEF ReportIs
    <2>2. (QOk(s) => Holds16(A, 1, x)) /\ (COk(s) => Holds16(B, 1, y))
      BY <1>16, Zenon
    <2>3. QED
      BY <2>1, <2>2 DEF Holds16
  <1>23. /\ VOk(s) => Holds32(b, 16, v)
         /\ Holds32(b, 21, u)
    <2>1. /\ b[16] = C[1] /\ b[17] = C[2] /\ b[18] = C[3] /\ b[19] = C[4]
          /\ b[21] = D[1] /\ b[22] = D[2] /\ b[23] = D[3] /\ b[24] = D[4]
      BY <1>19, Zenon DEF ReportIs
    <2>2. (VOk(s) => Holds32(C, 1, v)) /\ Holds32(D, 1, u)
      BY <1>16, Zenon
    <2>3. QED
      BY <2>1, <2>2 DEF Holds16, Holds32
  <1>24. /\ QOk(s) => readU16(b, 12) = x
         /\ COk(s) => readU16(b, 14) = y
    BY <1>22, Reads16
  <1>25. /\ VOk(s) => readU32(b, 16) = v
         /\ readU32(b, 21) = u
    BY <1>23, Reads32
  <1>26. AirBytes(b, s)
    BY <1>7, <1>12, <1>13, <1>20, <1>24, <1>25 DEF AirBytes
  <1>27. QED
    BY <1>10, <1>17, <1>20, <1>21, <1>26

(* The sensor packet also says how to show the readings. *)
LEMMA SensorPacket ==
  ASSUME NEW s \in SensorSnapshot, NEW prefs \in AppSettings
  PROVE  LET b == encoderSensorPacket(s, prefs)
         IN  /\ b \in Seq(Int) /\ Len(b) = 25 /\ b[1] = 48 + Measured(s)
             /\ EnvironmentBytes(b, s) /\ AirBytes(b, s) /\ b[25] = settingsPreferenceByte(prefs)
PROOF
  <1>1. PICK r : r = payloadEncodeReport(s)
    OBVIOUS
  <1>2. /\ r \in Seq(Int) /\ Len(r) = 24 /\ r[1] = 32 + Measured(s)
        /\ EnvironmentBytes(r, s) /\ AirBytes(r, s)
    BY <1>1, ReportPacket
  <1>3. PICK m : m = 48 + (r[1] % 16)
    OBVIOUS
  <1>4. PICK p : p = settingsPreferenceByte(prefs)
    OBVIOUS
  <1>5. PICK b : b = <<m>> \o Tail(r) \o <<p>>
    OBVIOUS
  <1>6. encoderSensorPacket(s, prefs) = b
    BY <1>1, <1>3, <1>4, <1>5 DEF encoderSensorPacket, settingsValid
  <1>7. m = 48 + Measured(s) /\ m \in Int /\ m % 16 = Measured(s)
    <2>1. Measured(s) \in Nat /\ Measured(s) < 16
      BY ReadingsAre
    <2>2. QED
      BY <1>2, <1>3, <2>1
  <1>8. p \in Int
    BY <1>4 DEF settingsPreferenceByte, AppSettings
  <1>9. SensorIs(b, m, r, p)
    BY <1>2, <1>5, <1>7, <1>8, SensorParts
  <1>10. b \in Seq(Int) /\ Len(b) = 25 /\ b[1] = m /\ b[25] = p /\ \A i \in 2..24 : b[i] = r[i]
    BY <1>9 DEF SensorIs
  <1>11. \A i \in 2..11 : b[i] = r[i]
    <2>1. ASSUME NEW i \in 2..11
          PROVE  b[i] = r[i]
      <3>1. i \in 2..24
        OBVIOUS
      <3>2. QED
        BY <1>10, <3>1
    <2>2. QED
      BY <2>1
  <1>12. EnvironmentBytes(b, s)
    BY <1>2, <1>7, <1>10, <1>11, EnvironmentKept
  <1>13. AirBytes(b, s)
    BY <1>2, <1>10, AirKept
  <1>14. QED
    BY <1>4, <1>6, <1>7, <1>10, <1>12, <1>13

-----------------------------------------------------------------------------
(* What Decoder makes of those bytes.                                        *)
LEMMA AbsIs ==
  ASSUME NEW x \in Int, NEW k \in Int, x <= k, -x <= k
  PROVE  Abs(x) <= k
  BY DEF Abs

LEMMA SameOpt ==
  ASSUME NEW c \in BOOLEAN, NEW v, NEW mask, NEW bit, Bit(mask, bit) \in BOOLEAN, Bit(mask, bit) <=> c
  PROVE  Same(Opt(c, v), mask, bit)
  BY DEF Same, Opt

(* Each reading comes back within half a step of the packet. *)
LEMMA ReadingsComeBack ==
  ASSUME NEW s \in SensorSnapshot
  PROVE  /\ TOk(s) => LET raw == Int16(Rounded(s.temperatureC, 10))
                          t   == IF raw >= 32768 THEN raw - 65536 ELSE raw
                      IN  t \in Int /\ Between(t, -4000, 8500) /\ Abs(10 * t - s.temperatureC) <= 5
         /\ HOk(s) => Abs(10 * Int16(Rounded(s.humidityPct, 10)) - s.humidityPct) <= 5
         /\ POk(s) => Abs(20 * Int16(Rounded(s.pressurePa, 20)) - s.pressurePa) <= 10
         /\ QOk(s) => /\ Abs(100 * Int16(Rounded(s.iaq, 100)) - s.iaq) <= 50
                      /\ Int16(Rounded(s.iaq, 100)) <= 5000
         /\ COk(s) => Abs(10 * Int16(Rounded(s.co2EquivalentPpm, 10)) - s.co2EquivalentPpm) <= 5
PROOF
  <1>1. /\ s.temperatureC \in Int /\ s.humidityPct \in Int /\ s.pressurePa \in Int /\ s.iaq \in Int
        /\ s.co2EquivalentPpm \in Int
    BY DEF SensorSnapshot
  <1>2. ASSUME NEW x \in Int
        PROVE  /\ 10 * Rounded(x, 10) - x \in Int /\ 10 * Rounded(x, 10) - x <= 5 /\ -(10 * Rounded(x, 10) - x) <= 5
               /\ 20 * Rounded(x, 20) - x \in Int /\ 20 * Rounded(x, 20) - x <= 10 /\ -(20 * Rounded(x, 20) - x) <= 10
               /\ 100 * Rounded(x, 100) - x \in Int /\ 100 * Rounded(x, 100) - x <= 50
               /\ -(100 * Rounded(x, 100) - x) <= 50
    <2>1. Rounded(x, 10) \in Int /\ 2 * (10 * Rounded(x, 10) - x) <= 10 /\ 2 * (x - 10 * Rounded(x, 10)) <= 10
      BY RoundedNear
    <2>2. Rounded(x, 20) \in Int /\ 2 * (20 * Rounded(x, 20) - x) <= 20 /\ 2 * (x - 20 * Rounded(x, 20)) <= 20
      BY RoundedNear
    <2>3. /\ Rounded(x, 100) \in Int /\ 2 * (100 * Rounded(x, 100) - x) <= 100
          /\ 2 * (x - 100 * Rounded(x, 100)) <= 100
      BY RoundedNear
    <2>4. 10 * Rounded(x, 10) - x \in Int /\ 10 * Rounded(x, 10) - x <= 5 /\ -(10 * Rounded(x, 10) - x) <= 5
      BY <2>1
    <2>5. 20 * Rounded(x, 20) - x \in Int /\ 20 * Rounded(x, 20) - x <= 10 /\ -(20 * Rounded(x, 20) - x) <= 10
      BY <2>2
    <2>6. /\ 100 * Rounded(x, 100) - x \in Int /\ 100 * Rounded(x, 100) - x <= 50
          /\ -(100 * Rounded(x, 100) - x) <= 50
      BY <2>3
    <2>7. QED
      BY <2>4, <2>5, <2>6
  <1>3. ASSUME NEW x \in Int
        PROVE  /\ Abs(10 * Rounded(x, 10) - x) <= 5 /\ Abs(20 * Rounded(x, 20) - x) <= 10
               /\ Abs(100 * Rounded(x, 100) - x) <= 50
    BY <1>2, AbsIs
  <1>4. ASSUME TOk(s)
        PROVE  LET raw == Int16(Rounded(s.temperatureC, 10))
                   t   == IF raw >= 32768 THEN raw - 65536 ELSE raw
               IN  t \in Int /\ Between(t, -4000, 8500) /\ Abs(10 * t - s.temperatureC) <= 5
    <2>1. PICK v \in Int : v = Rounded(s.temperatureC, 10) /\ Between(v, -4000, 8500)
      BY <1>1, <1>4, RoundedIn DEF TOk
    <2>2. -32768 <= v /\ v <= 32767
      BY <2>1 DEF Between
    <2>3. v = IF Int16(v) >= 32768 THEN Int16(v) - 65536 ELSE Int16(v)
      BY <2>2, Signed
    <2>4. Abs(10 * v - s.temperatureC) <= 5
      BY <1>1, <1>3, <2>1
    <2>5. QED
      BY <2>1, <2>3, <2>4
  <1>5. HOk(s) => Abs(10 * Int16(Rounded(s.humidityPct, 10)) - s.humidityPct) <= 5
    <2>1. HOk(s) => Int16(Rounded(s.humidityPct, 10)) = Rounded(s.humidityPct, 10)
      BY <1>1, RoundedIn, Unsigned DEF HOk
    <2>2. QED
      BY <1>1, <1>3, <2>1
  <1>6. POk(s) => Abs(20 * Int16(Rounded(s.pressurePa, 20)) - s.pressurePa) <= 10
    <2>1. POk(s) => Int16(Rounded(s.pressurePa, 20)) = Rounded(s.pressurePa, 20)
      BY <1>1, RoundedIn, Unsigned DEF POk
    <2>2. QED
      BY <1>1, <1>3, <2>1
  <1>7. QOk(s) => /\ Abs(100 * Int16(Rounded(s.iaq, 100)) - s.iaq) <= 50
                  /\ Int16(Rounded(s.iaq, 100)) <= 5000
    <2>1. QOk(s) => Int16(Rounded(s.iaq, 100)) = Rounded(s.iaq, 100) /\ Rounded(s.iaq, 100) <= 5000
      BY <1>1, RoundedIn, Unsigned DEF QOk
    <2>2. QED
      BY <1>1, <1>3, <2>1
  <1>8. COk(s) => Abs(10 * Int16(Rounded(s.co2EquivalentPpm, 10)) - s.co2EquivalentPpm) <= 5
    <2>1. COk(s) => Int16(Rounded(s.co2EquivalentPpm, 10)) = Rounded(s.co2EquivalentPpm, 10)
      BY <1>1, RoundedIn, Unsigned DEF COk
    <2>2. QED
      BY <1>1, <1>3, <2>1
  <1>9. QED
    BY <1>4, <1>5, <1>6, <1>7, <1>8

(* The fields of a decoded packet. *)
LEMMA EnvironmentHas ==
  ASSUME NEW b
  PROVE  LET d   == Environment(b)
             raw == readU16(b, 2)
         IN  /\ DOMAIN d = {"format_version", "valid_mask", "temperature_c", "humidity_pct", "pressure_pa", "gas_ohms"}
             /\ d.temperature_c = Opt(Bit(b[1] % 16, 1), IF raw >= 32768 THEN raw - 65536 ELSE raw)
             /\ d.humidity_pct = Opt(Bit(b[1] % 16, 2), readU16(b, 4))
             /\ d.pressure_pa = Opt(Bit(b[1] % 16, 4), 2 * readU16(b, 6))
             /\ d.gas_ohms = Opt(Bit(b[1] % 16, 8), readU32(b, 8))
  BY DEF Environment

LEMMA AirQualityHas ==
  ASSUME NEW b
  PROVE  LET d == AirQuality(b)
         IN  /\ DOMAIN d = {"iaq", "co2_equivalent_ppm", "breath_voc_equivalent_ppm", "iaq_accuracy",
                            "sensor_stabilized", "sensor_run_in_complete", "air_quality_valid_mask",
                            "temperature_humidity_compensated", "sample_uptime_s"}
             /\ d.iaq = Opt(Bit(b[20], 16), readU16(b, 12))
             /\ d.co2_equivalent_ppm = Opt(Bit(b[20], 32), readU16(b, 14))
             /\ d.breath_voc_equivalent_ppm = IF Bit(b[20], 64) THEN decodeBinary32(b, 16) ELSE {}
             /\ d.air_quality_valid_mask = (b[20] \div 16) % 8
             /\ d.temperature_humidity_compensated = Bit(b[20], 128)
             /\ d.sample_uptime_s = readU32(b, 21)
  BY DEF AirQuality

LEMMA ExtendIs ==
  ASSUME NEW more, NEW base
  PROVE  /\ DOMAIN Extend(more, base) = DOMAIN more \cup DOMAIN base
         /\ \A f \in DOMAIN more : Extend(more, base)[f] = more[f]
         /\ \A f \in DOMAIN base \ DOMAIN more : Extend(more, base)[f] = base[f]
  BY DEF Extend

LEMMA EnvironmentUnderstood ==
  ASSUME NEW s \in SensorSnapshot, NEW b, EnvironmentBytes(b, s), NEW d,
         d.temperature_c = Environment(b).temperature_c, d.humidity_pct = Environment(b).humidity_pct,
         d.pressure_pa = Environment(b).pressure_pa, d.gas_ohms = Environment(b).gas_ohms
  PROVE  EnvironmentIsUnderstood(d, s)
PROOF
  <1>1. PICK raw : raw = readU16(b, 2)
    OBVIOUS
  <1>2. PICK t : t = IF raw >= 32768 THEN raw - 65536 ELSE raw
    OBVIOUS
  <1>3. PICK h, p, g : h = readU16(b, 4) /\ p = readU16(b, 6) /\ g = readU32(b, 8)
    OBVIOUS
  <1>4. /\ TOk(s) \in BOOLEAN /\ HOk(s) \in BOOLEAN /\ POk(s) \in BOOLEAN /\ GOk(s) \in BOOLEAN
    BY ValidIsBoolean
  <1>5. PICK f : f = b[1] % 16
    OBVIOUS
  <1>6. f = Measured(s) + 16 * 0
    <2>1. Measured(s) \in Nat
      BY ReadingsAre
    <2>2. f = Measured(s)
      BY <1>5 DEF EnvironmentBytes
    <2>3. QED
      BY <2>1, <2>2
  <1>7. (Bit(f, 1) <=> TOk(s)) /\ (Bit(f, 2) <=> HOk(s)) /\ (Bit(f, 4) <=> POk(s)) /\ (Bit(f, 8) <=> GOk(s))
    BY <1>6, ReadingsAre
  <1>8. /\ Bit(f, 1) \in BOOLEAN /\ Bit(f, 2) \in BOOLEAN /\ Bit(f, 4) \in BOOLEAN /\ Bit(f, 8) \in BOOLEAN
    BY DEF Bit
  <1>9. /\ d.temperature_c = Opt(Bit(f, 1), t) /\ d.humidity_pct = Opt(Bit(f, 2), h)
        /\ d.pressure_pa = Opt(Bit(f, 4), 2 * p) /\ d.gas_ohms = Opt(Bit(f, 8), g)
    BY <1>1, <1>2, <1>3, <1>5, EnvironmentHas
  <1>10. PICK mask : mask = sensorValidMask(s)
    OBVIOUS
  <1>11. /\ (Bit(mask, 1) <=> TOk(s)) /\ (Bit(mask, 2) <=> HOk(s)) /\ (Bit(mask, 4) <=> POk(s))
         /\ (Bit(mask, 8) <=> GOk(s))
         /\ Bit(mask, 1) \in BOOLEAN /\ Bit(mask, 2) \in BOOLEAN /\ Bit(mask, 4) \in BOOLEAN
         /\ Bit(mask, 8) \in BOOLEAN
    <2>1. /\ (Bit(mask, 1) <=> TOk(s)) /\ (Bit(mask, 2) <=> HOk(s)) /\ (Bit(mask, 4) <=> POk(s))
          /\ (Bit(mask, 8) <=> GOk(s))
      BY <1>10, SensorMask
    <2>2. QED
      BY <2>1 DEF Bit
  <1>12. Same(d.temperature_c, mask, 1) /\ Near({10 * x : x \in d.temperature_c}, {s.temperatureC}, 5)
    <2>1. TOk(s) => Abs(10 * t - s.temperatureC) <= 5
      BY <1>1, <1>2, ReadingsComeBack DEF EnvironmentBytes
    <2>2. Bit(f, 1) => Abs(10 * t - s.temperatureC) <= 5
      BY <1>7, <2>1
    <2>3. Near({10 * x : x \in Opt(Bit(f, 1), t)}, {s.temperatureC}, 5)
      BY <2>2 DEF Near, Opt
    <2>4. Same(Opt(Bit(f, 1), t), mask, 1)
      BY <1>7, <1>8, <1>11, SameOpt
    <2>5. QED
      BY <1>9, <2>3, <2>4
  <1>13. Same(d.humidity_pct, mask, 2) /\ Near({10 * x : x \in d.humidity_pct}, {s.humidityPct}, 5)
    <2>1. HOk(s) => Abs(10 * h - s.humidityPct) <= 5
      BY <1>3, ReadingsComeBack DEF EnvironmentBytes
    <2>2. Bit(f, 2) => Abs(10 * h - s.humidityPct) <= 5
      BY <1>7, <2>1
    <2>3. Near({10 * x : x \in Opt(Bit(f, 2), h)}, {s.humidityPct}, 5)
      BY <2>2 DEF Near, Opt
    <2>4. Same(Opt(Bit(f, 2), h), mask, 2)
      BY <1>7, <1>8, <1>11, SameOpt
    <2>5. QED
      BY <1>9, <2>3, <2>4
  <1>14. Same(d.pressure_pa, mask, 4) /\ Near({10 * x : x \in d.pressure_pa}, {s.pressurePa}, 10)
    <2>1. POk(s) => p \in Int /\ Abs(20 * p - s.pressurePa) <= 10
      <3>1. POk(s) => p = Int16(Rounded(s.pressurePa, 20)) /\ Abs(20 * p - s.pressurePa) <= 10
        BY <1>3, ReadingsComeBack DEF EnvironmentBytes
      <3>2. Int16(Rounded(s.pressurePa, 20)) \in UInt16
        BY RoundedIsInt, Int16In DEF SensorSnapshot
      <3>3. QED
        BY <3>1, <3>2, UInt16Is
    <2>2. p \in Int => 10 * (2 * p) = 20 * p
      OBVIOUS
    <2>3. Bit(f, 4) => Abs(10 * (2 * p) - s.pressurePa) <= 10
      BY <1>7, <2>1, <2>2
    <2>4. Near({10 * x : x \in Opt(Bit(f, 4), 2 * p)}, {s.pressurePa}, 10)
      BY <2>3 DEF Near, Opt
    <2>5. Same(Opt(Bit(f, 4), 2 * p), mask, 4)
      BY <1>7, <1>8, <1>11, SameOpt
    <2>6. QED
      BY <1>9, <2>4, <2>5
  <1>15. d.gas_ohms = Opt(Bit(mask, 8), s.gasOhms)
    <2>1. GOk(s) => g = s.gasOhms
      BY <1>3 DEF EnvironmentBytes
    <2>2. Bit(f, 8) <=> Bit(mask, 8)
      BY <1>7, <1>11
    <2>3. CASE GOk(s)
      BY <1>7, <1>9, <1>11, <2>1, <2>3 DEF Opt
    <2>4. CASE ~GOk(s)
      BY <1>7, <1>9, <1>11, <2>4 DEF Opt
    <2>5. QED
      BY <2>3, <2>4
  <1>16. QED
    BY <1>10, <1>12, <1>13, <1>14, <1>15 DEF EnvironmentIsUnderstood

(* The three fields of a binary32 that is finite and not below zero. *)
LEMMA FloatIs ==
  ASSUME NEW v \in UInt32, Finite(v), NotBelowZero(v), NEW b, readU32(b, 16) = v
  PROVE  \E x : /\ decodeBinary32(b, 16) = {x} /\ ~Negative(x)
                /\ 128 * x.exponent + x.fraction[1] = v[1] % 32768 /\ x.fraction[2] = v[2]
PROOF
  <1>1. v[1] \in Nat /\ v[2] \in Nat /\ v = <<v[1], v[2]>>
    BY UInt32Is
  <1>2. readU16(b, 16) = v[1] /\ readU16(b, 18) = v[2]
    BY DEF readU32
  <1>3. PICK hi \in Nat, lo \in Nat : hi = v[1] /\ lo = v[2]
    BY <1>1
  <1>4. PICK e \in Nat, m \in Nat : e = (hi \div 128) % 256 /\ m = hi % 128
    OBVIOUS
  <1>5. 128 * e + m = hi % 32768
    <2>1. PICK q \in Nat : q = hi \div 128
      OBVIOUS
    <2>2. hi = 128 * q + m /\ m < 128
      BY <1>4, <2>1
    <2>3. PICK n \in Nat : n = q \div 256
      BY <2>1
    <2>4. q = 256 * n + e /\ e < 256
      BY <1>4, <2>1, <2>3
    <2>5. hi = 32768 * n + (128 * e + m) /\ 128 * e + m < 32768 /\ 128 * e + m \in Nat
      BY <2>2, <2>4
    <2>6. QED
      BY <2>5
  <1> DEFINE x == [sign |-> IF hi >= 32768 THEN -1 ELSE 1, exponent |-> e, fraction |-> <<m, lo>>]
  <1>7. decodeBinary32(b, 16) = {x}
    <2>1. e # 255
      BY <1>3, <1>4 DEF Finite
    <2>2. decodeBinary32(b, 16) =
            Opt((hi \div 128) % 256 # 255, [sign |-> IF hi >= 32768 THEN -1 ELSE 1,
                exponent |-> (hi \div 128) % 256, fraction |-> <<hi % 128, lo>>])
      BY <1>2, <1>3 DEF decodeBinary32
    <2>3. QED
      BY <1>4, <2>1, <2>2 DEF Opt
  <1>8. x.exponent = e /\ x.fraction = <<m, lo>> /\ x.sign = IF hi >= 32768 THEN -1 ELSE 1
    OBVIOUS
  <1> HIDE DEF x
  <1>9. ~Negative(x)
    <2>1. CASE hi < 32768
      BY <1>8, <2>1 DEF Negative
    <2>2. CASE v = <<32768, 0>>
      <3>1. hi = 32768 /\ lo = 0
        BY <1>3, <2>2
      <3>2. e = 0 /\ m = 0
        BY <1>4, <3>1
      <3>3. QED
        BY <1>8, <3>1, <3>2 DEF Negative
    <2>3. QED
      BY <1>3, <2>1, <2>2 DEF NotBelowZero
  <1>10. 128 * x.exponent + x.fraction[1] = v[1] % 32768 /\ x.fraction[2] = v[2]
    <2>1. x.fraction[1] = m /\ x.fraction[2] = lo
      BY <1>8
    <2>2. QED
      BY <1>3, <1>5, <1>8, <2>1
  <1>11. QED
    BY <1>7, <1>9, <1>10

(* The flags of the air quality are those of the sample. *)
LEMMA AirFlags ==
  ASSUME NEW s \in SensorSnapshot, NEW q, q = AirByte(s)
  PROVE  /\ (Bit(q, 16) <=> QOk(s)) /\ (Bit(q, 32) <=> COk(s)) /\ (Bit(q, 64) <=> VOk(s))
         /\ Bit(q, 128) = s.temperatureHumidityCompensated /\ (q \div 16) % 8 = Outputs(s)
PROOF
  <1>1. PICK r \in 0..15 : AirByte(s) = r + 16 * Outputs(s) + 128 * Flag(s.temperatureHumidityCompensated, 1)
    BY AirByteIs
  <1>2. s.temperatureHumidityCompensated \in BOOLEAN
    BY DEF SensorSnapshot
  <1>3. PICK h \in 0..1 : h = Flag(s.temperatureHumidityCompensated, 1) /\ (h = 1 <=> s.temperatureHumidityCompensated)
    BY <1>2, FlagsAre
  <1>4. q = r + 16 * Outputs(s) + 128 * h /\ r \in Nat /\ r < 16
    BY <1>1, <1>3
  <1>5. /\ (q \div 16) % 8 = Outputs(s)
        /\ (Bit(q, 16) <=> QOk(s)) /\ (Bit(q, 32) <=> COk(s)) /\ (Bit(q, 64) <=> VOk(s)) /\ (Bit(q, 128) <=> h = 1)
    BY <1>4, OutputsAre
  <1>6. Bit(q, 128) = s.temperatureHumidityCompensated
    BY <1>2, <1>3, <1>5 DEF Bit
  <1>7. QED
    BY <1>5, <1>6

LEMMA QualityByteIs ==
  ASSUME NEW s \in SensorSnapshot
  PROVE  (sensorQualityByte(s) \div 16) % 8 = Outputs(s)
PROOF
  <1>1. /\ s.iaqAccuracy \in 0..255 /\ s.stabilized \in BOOLEAN /\ s.runIn \in BOOLEAN
        /\ s.temperatureHumidityCompensated \in BOOLEAN
    BY DEF SensorSnapshot
  <1>2. PICK a \in 0..3 : a = s.iaqAccuracy % 4
    BY <1>1
  <1>3. PICK b \in 0..1, c \in 0..1, h \in 0..1 :
          Flag(s.stabilized, 4) = 4 * b /\ Flag(s.runIn, 8) = 8 * c
          /\ Flag(s.temperatureHumidityCompensated, 128) = 128 * h
    BY <1>1, FlagsAre
  <1>4. Outputs(s) \in Nat /\ sensorValidMask(s) \div 16 = Outputs(s)
    BY ReadingsAre, SensorMask
  <1>5. sensorQualityByte(s) = a + 4 * b + 8 * c + 16 * Outputs(s) + 128 * h
    BY <1>2, <1>3, <1>4 DEF sensorQualityByte
  <1>6. PICK r \in Nat : r = a + 4 * b + 8 * c /\ r < 16
    OBVIOUS
  <1>7. PICK q : q = r + 16 * Outputs(s) + 128 * h
    OBVIOUS
  <1>8. sensorQualityByte(s) = q
    BY <1>4, <1>5, <1>6, <1>7
  <1>9. (q \div 16) % 8 = Outputs(s)
    BY <1>6, <1>7, OutputsAre
  <1>10. QED
    BY <1>8, <1>9

LEMMA AirUnderstood ==
  ASSUME NEW s \in SensorSnapshot, NEW b, AirBytes(b, s), NEW d,
         \A f \in DOMAIN AirQuality(b) : d[f] = AirQuality(b)[f]
  PROVE  AirQualityIsUnderstood(d, s)
PROOF
  <1>1. PICK q : q = b[20]
    OBVIOUS
  <1>2. PICK x, y, bits : x = readU16(b, 12) /\ y = readU16(b, 14) /\ bits = s.breathVocEquivalentPpm
    OBVIOUS
  <1>3. PICK voc : voc = decodeBinary32(b, 16)
    OBVIOUS
  <1>4. /\ d.iaq = Opt(Bit(q, 16), x) /\ d.co2_equivalent_ppm = Opt(Bit(q, 32), y)
        /\ d.breath_voc_equivalent_ppm = IF Bit(q, 64) THEN voc ELSE {}
        /\ d.air_quality_valid_mask = (q \div 16) % 8 /\ d.temperature_humidity_compensated = Bit(q, 128)
        /\ d.sample_uptime_s = readU32(b, 21)
    BY <1>1, <1>2, <1>3, AirQualityHas
  <1>5. /\ (Bit(q, 16) <=> QOk(s)) /\ (Bit(q, 32) <=> COk(s)) /\ (Bit(q, 64) <=> VOk(s))
        /\ Bit(q, 128) = s.temperatureHumidityCompensated /\ (q \div 16) % 8 = Outputs(s)
    BY <1>1, AirFlags DEF AirBytes
  <1>6. PICK mask : mask = sensorValidMask(s)
    OBVIOUS
  <1>7. (Bit(mask, 16) <=> QOk(s)) /\ (Bit(mask, 32) <=> COk(s)) /\ (Bit(mask, 64) <=> VOk(s))
    BY <1>6, SensorMask
  <1>8. /\ Bit(mask, 16) \in BOOLEAN /\ Bit(mask, 32) \in BOOLEAN /\ Bit(mask, 64) \in BOOLEAN
        /\ Bit(q, 16) \in BOOLEAN /\ Bit(q, 32) \in BOOLEAN /\ Bit(q, 64) \in BOOLEAN
    BY DEF Bit
  <1>9. Same(d.iaq, mask, 16) /\ Near({100 * t : t \in d.iaq}, {s.iaq}, 50)
    <2>1. QOk(s) => Abs(100 * x - s.iaq) <= 50
      BY <1>2, ReadingsComeBack DEF AirBytes
    <2>2. Bit(q, 16) => Abs(100 * x - s.iaq) <= 50
      BY <1>5, <2>1
    <2>3. Near({100 * t : t \in Opt(Bit(q, 16), x)}, {s.iaq}, 50)
      BY <2>2 DEF Near, Opt
    <2>4. Same(Opt(Bit(q, 16), x), mask, 16)
      BY <1>5, <1>7, <1>8, SameOpt
    <2>5. QED
      BY <1>4, <2>3, <2>4
  <1>10. /\ Same(d.co2_equivalent_ppm, mask, 32)
         /\ Near({10 * t : t \in d.co2_equivalent_ppm}, {s.co2EquivalentPpm}, 5)
    <2>1. COk(s) => Abs(10 * y - s.co2EquivalentPpm) <= 5
      BY <1>2, ReadingsComeBack DEF AirBytes
    <2>2. Bit(q, 32) => Abs(10 * y - s.co2EquivalentPpm) <= 5
      BY <1>5, <2>1
    <2>3. Near({10 * t : t \in Opt(Bit(q, 32), y)}, {s.co2EquivalentPpm}, 5)
      BY <2>2 DEF Near, Opt
    <2>4. Same(Opt(Bit(q, 32), y), mask, 32)
      BY <1>5, <1>7, <1>8, SameOpt
    <2>5. QED
      BY <1>4, <2>3, <2>4
  <1>11. /\ Same(d.breath_voc_equivalent_ppm, mask, 64)
         /\ \A t \in d.breath_voc_equivalent_ppm :
              128 * t.exponent + t.fraction[1] = bits[1] % 32768 /\ t.fraction[2] = bits[2]
    <2>1. CASE VOk(s)
      <3>1. bits \in UInt32 /\ Finite(bits) /\ NotBelowZero(bits) /\ readU32(b, 16) = bits
        BY <1>2, <2>1 DEF AirBytes, VOk, SensorSnapshot
      <3>2. PICK t : /\ voc = {t}
                     /\ 128 * t.exponent + t.fraction[1] = bits[1] % 32768 /\ t.fraction[2] = bits[2]
        BY <1>3, <3>1, FloatIs
      <3>3. d.breath_voc_equivalent_ppm = {t}
        BY <1>4, <1>5, <2>1, <3>2
      <3>4. Same({t}, mask, 64)
        BY <1>7, <1>8, <2>1 DEF Same
      <3>5. QED
        BY <3>2, <3>3, <3>4
    <2>2. CASE ~VOk(s)
      <3>1. d.breath_voc_equivalent_ppm = {}
        BY <1>4, <1>5, <2>2
      <3>2. Same({}, mask, 64)
        BY <1>7, <1>8, <2>2 DEF Same
      <3>3. QED
        BY <3>1, <3>2
    <2>3. QED
      BY <2>1, <2>2
  <1>12. d.sample_uptime_s = s.sampleUptimeSeconds
    BY <1>4 DEF AirBytes
  <1>13. d.air_quality_valid_mask = (sensorQualityByte(s) \div 16) % 8
    BY <1>4, <1>5, QualityByteIs
  <1>14. d.temperature_humidity_compensated = s.temperatureHumidityCompensated
    BY <1>4, <1>5
  <1>15. QED
    BY <1>2, <1>6, <1>9, <1>10, <1>11, <1>12, <1>13, <1>14 DEF AirQualityIsUnderstood

(* Neither of the two checks of Decoder rejects a packet of the node. *)
Sound(b) == /\ ~(Bit(b[20], 16) /\ readU16(b, 12) > 5000)
            /\ ~(Bit(b[20], 64) /\ \A x \in decodeBinary32(b, 16) : Negative(x))

LEMMA AirNotBad ==
  ASSUME NEW s \in SensorSnapshot, NEW b, AirBytes(b, s)
  PROVE  Sound(b)
PROOF
  <1>1. (Bit(b[20], 16) <=> QOk(s)) /\ (Bit(b[20], 64) <=> VOk(s))
    BY AirFlags DEF AirBytes
  <1>2. ASSUME QOk(s)
        PROVE  ~(readU16(b, 12) > 5000)
    <2>1. PICK x \in UInt16 : x = Int16(Rounded(s.iaq, 100))
      BY RoundedIsInt, Int16In DEF SensorSnapshot
    <2>2. readU16(b, 12) = x /\ x <= 5000 /\ x \in Nat
      BY <1>2, <2>1, ReadingsComeBack, UInt16Is DEF AirBytes
    <2>3. QED
      BY <2>2
  <1>3. ASSUME VOk(s)
        PROVE  \E x \in decodeBinary32(b, 16) : ~Negative(x)
    <2>1. PICK bits \in UInt32 : /\ bits = s.breathVocEquivalentPpm /\ readU32(b, 16) = bits
                                 /\ Finite(bits) /\ NotBelowZero(bits)
      BY <1>3 DEF AirBytes, VOk, SensorSnapshot
    <2>2. \E x : decodeBinary32(b, 16) = {x} /\ ~Negative(x)
      BY <2>1, FloatIs
    <2>3. QED
      BY <2>2
  <1>4. QED
    BY <1>1, <1>2, <1>3 DEF Sound

-----------------------------------------------------------------------------
(* The operator sees what the serial line shows.                             *)
LEMMA PreferencesAre ==
  ASSUME NEW prefs \in AppSettings, NEW p, p = settingsPreferenceByte(prefs)
  PROVE  /\ p \in Nat /\ p < 64 /\ (p \div 8) % 8 = prefs.pressure
         /\ (Bit(p, 1) <=> prefs.temperature = 1) /\ (Bit(p, 2) <=> prefs.gas = 1)
         /\ (Bit(p, 4) <=> prefs.voc = 1)
PROOF
  <1>1. PICK a \in 0..1, b \in 0..1, c \in 0..1, k \in 0..4 :
          a = prefs.temperature /\ b = prefs.gas /\ c = prefs.voc /\ k = prefs.pressure
    BY DEF AppSettings
  <1>2. p = a + 2 * b + 4 * c + 8 * k
    BY <1>1 DEF settingsPreferenceByte
  <1>3. p \in Nat /\ p < 64 /\ p \div 8 = k /\ k % 8 = k
    BY <1>2
  <1>4. p \div 1 = a + 2 * (b + 2 * c + 4 * k) /\ p \div 2 = b + 2 * (c + 2 * k) /\ p \div 4 = c + 2 * k
    BY <1>2
  <1>5. \A x \in 0..1, y \in Nat : (x + 2 * y) % 2 = x
    OBVIOUS
  <1>6. b + 2 * c + 4 * k \in Nat /\ c + 2 * k \in Nat
    OBVIOUS
  <1>7. (p \div 1) % 2 = a /\ (p \div 2) % 2 = b /\ (p \div 4) % 2 = c
    BY <1>4, <1>5, <1>6
  <1>8. QED
    BY <1>1, <1>3, <1>7 DEF Bit

(* Two roundings of one temperature, in thousandths of its unit. *)
LEMMA TemperaturesAgree ==
  ASSUME NEW x \in Int, NEW v \in Int, 10 * v - x <= 5, x - 10 * v <= 5
  PROVE  /\ Abs(10 * v - 10 * Rounded(x, 10)) <= 15
         /\ Abs((18 * v + 32000) - 10 * Rounded(18 * x + 320000, 100)) <= 15
PROOF
  <1>1. PICK z \in Int : z = 18 * x + 320000
    BY SMT
  <1>2. PICK u, w : u = Rounded(x, 10) /\ w = Rounded(z, 100)
    BY SMT
  <1>3. u \in Int /\ 2 * (10 * u - x) <= 10 /\ 2 * (x - 10 * u) <= 10
    BY <1>2, RoundedNear, SMT
  <1>4. w \in Int /\ 2 * (100 * w - z) <= 100 /\ 2 * (z - 100 * w) <= 100
    BY <1>2, RoundedNear, SMT
  <1>5. 10 * v - 10 * u \in Int /\ 10 * v - 10 * u <= 15 /\ -(10 * v - 10 * u) <= 15
    BY <1>3, SMT
  <1>6. /\ (18 * v + 32000) - 10 * w \in Int /\ (18 * v + 32000) - 10 * w <= 15
        /\ -((18 * v + 32000) - 10 * w) <= 15
    BY <1>1, <1>4, SMT
  <1>7. Abs(10 * v - 10 * u) <= 15 /\ Abs((18 * v + 32000) - 10 * w) <= 15
    BY <1>5, <1>6, AbsIs, SMT
  <1>8. QED
    BY <1>1, <1>2, <1>7, SMT

(* The divisors of the five units of pressure.  z is the whole part of a over *)
(* the unit, w the number nearest to y over it, and k the step of a display.  *)
Units == {10000, 338639, 100, 100000, 13332}
WholePart(z, a, unit) == z \in Int /\ unit * z <= a /\ a < unit * z + unit
Nearest(w, y, unit) == w \in Int /\ 2 * (unit * w - y) <= unit /\ 2 * (y - unit * w) <= unit
Within(z, w, k) == k \in Int /\ z - w <= k /\ -(z - w) <= k

LEMMA QuotientIs ==
  ASSUME NEW a \in Int, NEW unit \in Units
  PROVE  WholePart(a \div unit, a, unit)
PROOF
  <1>1. CASE unit = 10000
    <2>1. a \div 10000 \in Int /\ 10000 * (a \div 10000) <= a /\ a < 10000 * (a \div 10000) + 10000
      BY SMT
    <2>2. QED
      BY <1>1, <2>1, SMT DEF WholePart
  <1>2. CASE unit = 338639
    <2>1. a \div 338639 \in Int /\ 338639 * (a \div 338639) <= a /\ a < 338639 * (a \div 338639) + 338639
      BY SMT
    <2>2. QED
      BY <1>2, <2>1, SMT DEF WholePart
  <1>3. CASE unit = 100
    <2>1. a \div 100 \in Int /\ 100 * (a \div 100) <= a /\ a < 100 * (a \div 100) + 100
      BY SMT
    <2>2. QED
      BY <1>3, <2>1, SMT DEF WholePart
  <1>4. CASE unit = 100000
    <2>1. a \div 100000 \in Int /\ 100000 * (a \div 100000) <= a /\ a < 100000 * (a \div 100000) + 100000
      BY SMT
    <2>2. QED
      BY <1>4, <2>1, SMT DEF WholePart
  <1>5. CASE unit = 13332
    <2>1. a \div 13332 \in Int /\ 13332 * (a \div 13332) <= a /\ a < 13332 * (a \div 13332) + 13332
      BY SMT
    <2>2. QED
      BY <1>5, <2>1, SMT DEF WholePart
  <1>6. QED
    BY <1>1, <1>2, <1>3, <1>4, <1>5, SMT DEF Units

LEMMA NearestIs ==
  ASSUME NEW y \in Int, NEW unit \in Units
  PROVE  Nearest(Rounded(y, unit), y, unit)
PROOF
  <1>1. CASE unit = 10000
    <2>1. PICK r : r = Rounded(y, 10000)
      BY SMT
    <2>2. r \in Int /\ 2 * (10000 * r - y) <= 10000 /\ 2 * (y - 10000 * r) <= 10000
      BY <2>1, RoundedNear, SMT
    <2>3. QED
      BY <1>1, <2>1, <2>2, SMT DEF Nearest
  <1>2. CASE unit = 338639
    <2>1. PICK r : r = Rounded(y, 338639)
      BY SMT
    <2>2. r \in Int /\ 2 * (338639 * r - y) <= 338639 /\ 2 * (y - 338639 * r) <= 338639
      BY <2>1, RoundedNear, SMT
    <2>3. QED
      BY <1>2, <2>1, <2>2, SMT DEF Nearest
  <1>3. CASE unit = 100
    <2>1. PICK r : r = Rounded(y, 100)
      BY SMT
    <2>2. r \in Int /\ 2 * (100 * r - y) <= 100 /\ 2 * (y - 100 * r) <= 100
      BY <2>1, RoundedNear, SMT
    <2>3. QED
      BY <1>3, <2>1, <2>2, SMT DEF Nearest
  <1>4. CASE unit = 100000
    <2>1. PICK r : r = Rounded(y, 100000)
      BY SMT
    <2>2. r \in Int /\ 2 * (100000 * r - y) <= 100000 /\ 2 * (y - 100000 * r) <= 100000
      BY <2>1, RoundedNear, SMT
    <2>3. QED
      BY <1>4, <2>1, <2>2, SMT DEF Nearest
  <1>5. CASE unit = 13332
    <2>1. PICK r : r = Rounded(y, 13332)
      BY SMT
    <2>2. r \in Int /\ 2 * (13332 * r - y) <= 13332 /\ 2 * (y - 13332 * r) <= 13332
      BY <2>1, RoundedNear, SMT
    <2>3. QED
      BY <1>5, <2>1, <2>2, SMT DEF Nearest
  <1>6. QED
    BY <1>1, <1>2, <1>3, <1>4, <1>5, SMT DEF Units

LEMMA QuotientsNear ==
  ASSUME NEW unit \in Units, NEW a \in Int, NEW y \in Int, a - y <= 10000, y - a <= 10000,
         NEW z, NEW w, WholePart(z, a, unit), Nearest(w, y, unit)
  PROVE  Within(z, w, 2 + 10000 \div unit)
PROOF
  <1>1. CASE unit = 10000
    <2>1. /\ z \in Int /\ 10000 * z <= a /\ a < 10000 * z + 10000
          /\ w \in Int /\ 2 * (10000 * w - y) <= 10000 /\ 2 * (y - 10000 * w) <= 10000
      BY <1>1, SMT DEF WholePart, Nearest
    <2>2. z - w <= 3 /\ -(z - w) <= 3
      BY <2>1, SMT
    <2>3. 2 + 10000 \div 10000 = 3
      BY SMT
    <2>4. QED
      BY <1>1, <2>2, <2>3, SMT DEF Within
  <1>2. CASE unit = 338639
    <2>1. /\ z \in Int /\ 338639 * z <= a /\ a < 338639 * z + 338639
          /\ w \in Int /\ 2 * (338639 * w - y) <= 338639 /\ 2 * (y - 338639 * w) <= 338639
      BY <1>2, SMT DEF WholePart, Nearest
    <2>2. z - w <= 2 /\ -(z - w) <= 2
      BY <2>1, SMT
    <2>3. 2 + 10000 \div 338639 = 2
      BY SMT
    <2>4. QED
      BY <1>2, <2>2, <2>3, SMT DEF Within
  <1>3. CASE unit = 100
    <2>1. /\ z \in Int /\ 100 * z <= a /\ a < 100 * z + 100
          /\ w \in Int /\ 2 * (100 * w - y) <= 100 /\ 2 * (y - 100 * w) <= 100
      BY <1>3, SMT DEF WholePart, Nearest
    <2>2. z - w <= 102 /\ -(z - w) <= 102
      BY <2>1, SMT
    <2>3. 2 + 10000 \div 100 = 102
      BY SMT
    <2>4. QED
      BY <1>3, <2>2, <2>3, SMT DEF Within
  <1>4. CASE unit = 100000
    <2>1. /\ z \in Int /\ 100000 * z <= a /\ a < 100000 * z + 100000
          /\ w \in Int /\ 2 * (100000 * w - y) <= 100000 /\ 2 * (y - 100000 * w) <= 100000
      BY <1>4, SMT DEF WholePart, Nearest
    <2>2. z - w <= 2 /\ -(z - w) <= 2
      BY <2>1, SMT
    <2>3. 2 + 10000 \div 100000 = 2
      BY SMT
    <2>4. QED
      BY <1>4, <2>2, <2>3, SMT DEF Within
  <1>5. CASE unit = 13332
    <2>1. /\ z \in Int /\ 13332 * z <= a /\ a < 13332 * z + 13332
          /\ w \in Int /\ 2 * (13332 * w - y) <= 13332 /\ 2 * (y - 13332 * w) <= 13332
      BY <1>5, SMT DEF WholePart, Nearest
    <2>2. z - w <= 2 /\ -(z - w) <= 2
      BY <2>1, SMT
    <2>3. 2 + 10000 \div 13332 = 2
      BY SMT
    <2>4. QED
      BY <1>5, <2>2, <2>3, SMT DEF Within
  <1>6. QED
    BY <1>1, <1>2, <1>3, <1>4, <1>5, SMT DEF Units

(* Two roundings of one pressure, in hundredths of its unit. *)
LEMMA PressuresAgree ==
  ASSUME NEW x \in Int, NEW raw \in Int, 2 * (20 * raw - x) <= 20, 2 * (x - 20 * raw) <= 20, NEW unit \in Units
  PROVE  Abs(((10000 * (2 * raw)) \div unit) - Rounded(1000 * x, unit)) <= 2 + 10000 \div unit
PROOF
  <1>1. PICK y \in Int, a \in Int : y = 1000 * x /\ a = 10000 * (2 * raw)
    BY SMT
  <1>2. a - y <= 10000 /\ y - a <= 10000
    BY <1>1, SMT
  <1>3. PICK w, z, k : w = Rounded(y, unit) /\ z = a \div unit /\ k = 2 + 10000 \div unit
    BY SMT
  <1>4. Nearest(w, y, unit) /\ WholePart(z, a, unit)
    BY <1>3, NearestIs, QuotientIs, SMT
  <1>5. Within(z, w, k)
    BY <1>2, <1>3, <1>4, QuotientsNear, SMT
  <1>6. Abs(z - w) <= k
    BY <1>4, <1>5, AbsIs, SMT DEF Within, WholePart, Nearest
  <1>7. QED
    BY <1>1, <1>3, <1>6, SMT

LEMMA AbsBack ==
  ASSUME NEW x \in Int, NEW k \in Int, Abs(x) <= k
  PROVE  x <= k /\ -x <= k
  BY SMT DEF Abs

LEMMA DivisorsAre ==
  ASSUME NEW k \in 0..4
  PROVE  divisors[k + 1] \in Units
  BY SMT DEF divisors, Units

(* What the console shows under the settings. *)
PresentationIs(d, e, prefs) ==
  /\ d.temperature_unit = IF prefs.temperature = 1 THEN "F" ELSE "C"
  /\ \A z \in d.temperature : \E t \in e.temperature_c :
       z = IF prefs.temperature = 1 THEN 18 * t + 32000 ELSE 10 * t
  /\ d.pressure_unit = pressureUnits[prefs.pressure + 1]
  /\ \A z \in d.pressure : \E q \in e.pressure_pa : z = (10000 * q) \div divisors[prefs.pressure + 1]
  /\ d.gas_resistance_unit = IF prefs.gas = 1 THEN "kohm" ELSE "ohm"
  /\ \A g : e.gas_ohms = {g} => d.gas_resistance = {<<g, IF prefs.gas = 1 THEN 1000 ELSE 1>>}
  /\ d.breath_voc_equivalent_unit = IF prefs.voc = 1 THEN "ppb" ELSE "ppm"

LEMMA PresentationHas ==
  ASSUME NEW e, NEW prefs \in AppSettings, NEW p, p = settingsPreferenceByte(prefs),
         NEW d, \A f \in DOMAIN Presentation(e, p) : d[f] = Presentation(e, p)[f]
  PROVE  PresentationIs(d, e, prefs)
PROOF
  <1> DEFINE P == Presentation(e, p)
  <1>1. /\ (p \div 8) % 8 = prefs.pressure
        /\ (Bit(p, 1) <=> prefs.temperature = 1) /\ (Bit(p, 2) <=> prefs.gas = 1)
        /\ (Bit(p, 4) <=> prefs.voc = 1)
    BY PreferencesAre, SMT
  <1>2. DOMAIN P = {"packet_type", "temperature_unit", "temperature", "pressure_unit", "pressure",
                    "gas_resistance_unit", "gas_resistance", "breath_voc_equivalent_unit"}
    BY SMT DEF Presentation
  <1>3. /\ d.temperature_unit = P.temperature_unit /\ d.temperature = P.temperature
        /\ d.pressure_unit = P.pressure_unit /\ d.pressure = P.pressure
        /\ d.gas_resistance_unit = P.gas_resistance_unit /\ d.gas_resistance = P.gas_resistance
        /\ d.breath_voc_equivalent_unit = P.breath_voc_equivalent_unit
    BY <1>2, SMT
  <1>4. /\ P.temperature_unit = IF Bit(p, 1) THEN "F" ELSE "C"
        /\ P.pressure_unit = pressureUnits[((p \div 8) % 8) + 1]
        /\ P.gas_resistance_unit = IF Bit(p, 2) THEN "kohm" ELSE "ohm"
        /\ P.breath_voc_equivalent_unit = IF Bit(p, 4) THEN "ppb" ELSE "ppm"
    BY SMT DEF Presentation
  <1>5. P.temperature = {IF Bit(p, 1) THEN 18 * t + 32000 ELSE 10 * t : t \in e.temperature_c}
    BY SMT DEF Presentation
  <1>6. P.pressure = {(10000 * q) \div divisors[((p \div 8) % 8) + 1] : q \in e.pressure_pa}
    BY SMT DEF Presentation
  <1>7. P.gas_resistance = {<<g, IF Bit(p, 2) THEN 1000 ELSE 1>> : g \in e.gas_ohms}
    BY SMT DEF Presentation
  <1> HIDE DEF P
  <1>8. \A z \in P.temperature : \E t \in e.temperature_c :
          z = IF prefs.temperature = 1 THEN 18 * t + 32000 ELSE 10 * t
    BY <1>1, <1>5, SMT
  <1>9. \A z \in P.pressure : \E q \in e.pressure_pa : z = (10000 * q) \div divisors[prefs.pressure + 1]
    BY <1>1, <1>6, SMT
  <1>10. ASSUME NEW g, e.gas_ohms = {g}
         PROVE  P.gas_resistance = {<<g, IF prefs.gas = 1 THEN 1000 ELSE 1>>}
    BY <1>1, <1>7, <1>10, SMT
  <1>11. /\ P.temperature_unit = IF prefs.temperature = 1 THEN "F" ELSE "C"
         /\ P.pressure_unit = pressureUnits[prefs.pressure + 1]
         /\ P.gas_resistance_unit = IF prefs.gas = 1 THEN "kohm" ELSE "ohm"
         /\ P.breath_voc_equivalent_unit = IF prefs.voc = 1 THEN "ppb" ELSE "ppm"
    BY <1>1, <1>4, SMT
  <1>12. QED
    BY <1>3, <1>8, <1>9, <1>10, <1>11, SMT DEF PresentationIs

(* What the serial line shows under them. *)
LEMMA PrintReadingHas ==
  ASSUME NEW s \in SensorSnapshot, NEW prefs
  PROVE  LET p == printReading(s, prefs)
             x == s.temperatureC
         IN  /\ \A t \in p.temperature :
                  /\ TOk(s) /\ t.unit = IF prefs.temperature = 1 THEN "F" ELSE "C"
                  /\ t.value = IF prefs.temperature = 1 THEN Rounded(18 * x + 320000, 100) ELSE Rounded(x, 10)
             /\ \A q \in p.pressure :
                  /\ POk(s) /\ q.unit = pressureUnits[prefs.pressure + 1]
                  /\ q.value = Rounded(1000 * s.pressurePa, divisors[prefs.pressure + 1])
             /\ \A g \in p.gas :
                  /\ GOk(s) /\ g.unit = IF prefs.gas = 1 THEN "kohm" ELSE "ohm"
                  /\ g.value = <<s.gasOhms, IF prefs.gas = 1 THEN 1000 ELSE 1>>
             /\ p.vocUnit = IF prefs.voc = 1 THEN "ppb" ELSE "ppm"
PROOF
  <1> DEFINE p == printReading(s, prefs)
  <1>1. PICK mask : mask = sensorValidMask(s)
    BY SMT
  <1>2. (Bit(mask, 1) <=> TOk(s)) /\ (Bit(mask, 4) <=> POk(s)) /\ (Bit(mask, 8) <=> GOk(s))
    BY <1>1, SensorMask, SMT
  <1> DEFINE tv == IF prefs.temperature = 1 THEN Rounded(18 * s.temperatureC + 320000, 100)
                   ELSE Rounded(s.temperatureC, 10)
             tu == IF prefs.temperature = 1 THEN "F" ELSE "C"
             pv == Rounded(1000 * s.pressurePa, divisors[prefs.pressure + 1])
             pu == pressureUnits[prefs.pressure + 1]
             gv == <<s.gasOhms, IF prefs.gas = 1 THEN 1000 ELSE 1>>
             gu == IF prefs.gas = 1 THEN "kohm" ELSE "ohm"
  <1>4. /\ p.temperature = formatReading(Bit(mask, 1), tv, tu) /\ p.pressure = formatReading(Bit(mask, 4), pv, pu)
        /\ p.gas = formatReading(Bit(mask, 8), gv, gu)
        /\ p.vocUnit = IF prefs.voc = 1 THEN "ppb" ELSE "ppm"
    BY <1>1, SMT DEF printReading
  <1> HIDE DEF p, tv, tu, pv, pu, gv, gu
  <1>5. /\ \A t \in p.temperature : Bit(mask, 1) /\ t = [value |-> tv, unit |-> tu]
        /\ \A q \in p.pressure : Bit(mask, 4) /\ q = [value |-> pv, unit |-> pu]
        /\ \A g \in p.gas : Bit(mask, 8) /\ g = [value |-> gv, unit |-> gu]
    BY <1>4, SMT DEF formatReading, Opt
  <1>6. /\ \A t \in p.temperature : TOk(s) /\ t.unit = tu /\ t.value = tv
        /\ \A q \in p.pressure : POk(s) /\ q.unit = pu /\ q.value = pv
        /\ \A g \in p.gas : GOk(s) /\ g.unit = gu /\ g.value = gv
    BY <1>2, <1>5, SMT
  <1>7. QED
    BY <1>4, <1>6, SMT DEF p, tv, tu, pv, pu, gv, gu

(* What a packet leaves of the readings that the console converts. *)
Kept(e, s) ==
  /\ TOk(s) => \A v \in e.temperature_c :
                 v \in Int /\ 10 * v - s.temperatureC <= 5 /\ s.temperatureC - 10 * v <= 5
  /\ POk(s) => \A q \in e.pressure_pa : \E raw \in Int :
                 /\ q = 2 * raw
                 /\ 2 * (20 * raw - s.pressurePa) <= 20 /\ 2 * (s.pressurePa - 20 * raw) <= 20
  /\ GOk(s) => e.gas_ohms = {s.gasOhms}

LEMMA ReadingsAreKept ==
  ASSUME NEW s \in SensorSnapshot, NEW b, EnvironmentBytes(b, s)
  PROVE  Kept(Environment(b), s)
PROOF
  <1>1. PICK raw, p, g : raw = readU16(b, 2) /\ p = readU16(b, 6) /\ g = readU32(b, 8)
    BY SMT
  <1>2. PICK v : v = (IF raw >= 32768 THEN raw - 65536 ELSE raw)
    BY SMT
  <1>3. PICK m : m = b[1] % 16
    BY SMT
  <1>4. /\ Environment(b).temperature_c = Opt(Bit(m, 1), v) /\ Environment(b).pressure_pa = Opt(Bit(m, 4), 2 * p)
        /\ Environment(b).gas_ohms = Opt(Bit(m, 8), g)
    BY <1>1, <1>2, <1>3, EnvironmentHas, SMT
  <1>5. Bit(m, 8) <=> GOk(s)
    <2>1. Measured(s) \in Nat
      BY ReadingsAre, SMT
    <2>2. m = Measured(s) + 16 * 0
      BY <1>3, <2>1, SMT DEF EnvironmentBytes
    <2>3. QED
      BY <2>2, ReadingsAre
  <1>6. s.temperatureC \in Int /\ s.pressurePa \in Int
    BY SMT DEF SensorSnapshot
  <1>7. TOk(s) => v \in Int /\ 10 * v - s.temperatureC <= 5 /\ s.temperatureC - 10 * v <= 5
    <2>1. TOk(s) => v \in Int /\ Abs(10 * v - s.temperatureC) <= 5
      BY <1>1, <1>2, ReadingsComeBack, SMT DEF EnvironmentBytes
    <2>2. ASSUME v \in Int, Abs(10 * v - s.temperatureC) <= 5
          PROVE  10 * v - s.temperatureC <= 5 /\ s.temperatureC - 10 * v <= 5
      BY <1>6, <2>2, AbsBack, SMT
    <2>3. QED
      BY <2>1, <2>2, SMT
  <1>8. POk(s) => p \in Int /\ 2 * (20 * p - s.pressurePa) <= 20 /\ 2 * (s.pressurePa - 20 * p) <= 20
    <2>1. POk(s) => p = Int16(Rounded(s.pressurePa, 20)) /\ Abs(20 * p - s.pressurePa) <= 10
      BY <1>1, ReadingsComeBack, SMT DEF EnvironmentBytes
    <2>2. Int16(Rounded(s.pressurePa, 20)) \in Int
      BY <1>6, RoundedIsInt, Int16In, UInt16Is, SMT
    <2>3. ASSUME p \in Int, Abs(20 * p - s.pressurePa) <= 10
          PROVE  2 * (20 * p - s.pressurePa) <= 20 /\ 2 * (s.pressurePa - 20 * p) <= 20
      BY <1>6, <2>3, AbsBack, SMT
    <2>4. QED
      BY <2>1, <2>2, <2>3, SMT
  <1>9. GOk(s) => g = s.gasOhms
    BY <1>1, SMT DEF EnvironmentBytes
  <1>10. /\ \A z \in Opt(Bit(m, 1), v) : z = v
         /\ \A z \in Opt(Bit(m, 4), 2 * p) : z = 2 * p
         /\ GOk(s) => Opt(Bit(m, 8), g) = {g}
    BY <1>5, SMT DEF Opt
  <1>11. QED
    BY <1>4, <1>7, <1>8, <1>9, <1>10, SMT DEF Kept

LEMMA DisplaysUnderstood ==
  ASSUME NEW s \in SensorSnapshot, active \in AppSettings, NEW e, Kept(e, s),
         NEW d, PresentationIs(d, e, active)
  PROVE  DisplaysAgree(d, printReading(s, active))
PROOF
  <1> DEFINE F  == active.temperature = 1
             tv == IF F THEN Rounded(18 * s.temperatureC + 320000, 100) ELSE Rounded(s.temperatureC, 10)
  <1>1. PICK p : p = printReading(s, active)
    BY SMT
  <1>2. PICK k, unit : k = active.pressure /\ k \in 0..4 /\ unit = divisors[k + 1]
    BY SMT DEF AppSettings
  <1>3. unit \in Units
    BY <1>2, DivisorsAre, SMT
  <1>4. s.temperatureC \in Int /\ s.pressurePa \in Int
    BY SMT DEF SensorSnapshot
  <1>5. ASSUME NEW q \in p.temperature
        PROVE  d.temperature_unit = q.unit /\ Near(d.temperature, {10 * q.value}, 15)
    <2>1. TOk(s) /\ d.temperature_unit = q.unit /\ q.value = tv
      BY <1>1, <1>5, PrintReadingHas, SMT DEF PresentationIs
    <2>2. ASSUME NEW z \in d.temperature
          PROVE  Abs(z - 10 * q.value) <= 15
      <3>1. PICK v \in e.temperature_c : z = IF F THEN 18 * v + 32000 ELSE 10 * v
        BY <2>2, SMT DEF PresentationIs
      <3>2. v \in Int /\ 10 * v - s.temperatureC <= 5 /\ s.temperatureC - 10 * v <= 5
        BY <2>1, <3>1, SMT DEF Kept
      <3>3. /\ Abs(10 * v - 10 * Rounded(s.temperatureC, 10)) <= 15
            /\ Abs((18 * v + 32000) - 10 * Rounded(18 * s.temperatureC + 320000, 100)) <= 15
        BY <1>4, <3>2, TemperaturesAgree, SMT
      <3>4. QED
        BY <2>1, <3>1, <3>3, SMT
    <2>3. QED
      BY <2>1, <2>2, SMT DEF Near
  <1>6. ASSUME NEW q \in p.pressure
        PROVE  d.pressure_unit = q.unit /\ Near(d.pressure, {q.value}, 2 + 10000 \div unit)
    <2>1. POk(s) /\ d.pressure_unit = q.unit /\ q.value = Rounded(1000 * s.pressurePa, unit)
      BY <1>1, <1>2, <1>6, PrintReadingHas, SMT DEF PresentationIs
    <2>2. ASSUME NEW z \in d.pressure
          PROVE  Abs(z - q.value) <= 2 + 10000 \div unit
      <3>1. PICK v \in e.pressure_pa : z = (10000 * v) \div unit
        BY <1>2, <2>2, SMT DEF PresentationIs
      <3>2. PICK raw \in Int : /\ v = 2 * raw
                               /\ 2 * (20 * raw - s.pressurePa) <= 20 /\ 2 * (s.pressurePa - 20 * raw) <= 20
        BY <2>1, <3>1, SMT DEF Kept
      <3>3. Abs(((10000 * (2 * raw)) \div unit) - Rounded(1000 * s.pressurePa, unit)) <= 2 + 10000 \div unit
        BY <1>3, <1>4, <3>2, PressuresAgree, SMT
      <3>4. QED
        BY <2>1, <3>1, <3>2, <3>3, SMT
    <2>3. QED
      BY <2>1, <2>2, SMT DEF Near
  <1>7. ASSUME NEW q \in p.gas
        PROVE  d.gas_resistance_unit = q.unit /\ d.gas_resistance = {q.value}
    <2>1. /\ GOk(s) /\ q.unit = IF active.gas = 1 THEN "kohm" ELSE "ohm"
          /\ q.value = <<s.gasOhms, IF active.gas = 1 THEN 1000 ELSE 1>>
      BY <1>1, <1>7, PrintReadingHas, SMT
    <2>2. e.gas_ohms = {s.gasOhms}
      BY <2>1, SMT DEF Kept
    <2>3. /\ d.gas_resistance_unit = IF active.gas = 1 THEN "kohm" ELSE "ohm"
          /\ d.gas_resistance = {<<s.gasOhms, IF active.gas = 1 THEN 1000 ELSE 1>>}
      BY <2>2, SMT DEF PresentationIs
    <2>4. QED
      BY <2>1, <2>3, SMT
  <1>8. d.breath_voc_equivalent_unit = p.vocUnit
    BY <1>1, PrintReadingHas, SMT DEF PresentationIs
  <1>9. QED
    BY <1>1, <1>2, <1>5, <1>6, <1>7, <1>8, SMT DEF DisplaysAgree

(* Decoder takes each of the three packets apart. *)
AirDecoded(b) == Extend(AirQuality(b), Environment(b))
Preferred(b) == ~(b[25] >= 64) /\ ~((b[25] \div 8) % 8 > 4)
FullyDecoded(b) == Extend(Presentation(Environment(b), b[25]), AirDecoded(b))

LEMMA DecoderIs ==
  ASSUME NEW b \in Seq(Int), NEW r, NEW k \in {16, 32, 48}, r \in Nat, r < 16, b[1] = k + r
  PROVE  /\ k = 16 /\ Len(b) = 11 => Decoder(b, 1) = Environment(b)
         /\ k = 32 /\ Len(b) = 24 /\ Sound(b) => Decoder(b, 1) = AirDecoded(b)
         /\ k = 48 /\ Len(b) = 25 /\ Sound(b) /\ Preferred(b)
              => Decoder(b, 1) = FullyDecoded(b)
PROOF
  <1>1. PICK version : version = b[1] \div 16
    BY SMT
  <1>2. b[1] # 161
    BY SMT
  <1>3. Len(b) > 0 => b # <<>>
    BY SMT
  <1>4. CASE k = 16
    <2>1. version = 1
      BY <1>1, <1>4, SMT
    <2>2. Len(b) = 11 => Decoder(b, 1) = Environment(b)
      BY <1>1, <1>2, <1>3, <2>1, SMT DEF Decoder
    <2>3. QED
      BY <1>4, <2>2, SMT
  <1>5. CASE k = 32
    <2>1. version = 2
      BY <1>1, <1>5, SMT
    <2>2. Len(b) = 24 /\ Sound(b) => Decoder(b, 1) = AirDecoded(b)
      BY <1>1, <1>2, <1>3, <2>1, SMT DEF Decoder, Sound, AirDecoded
    <2>3. QED
      BY <1>5, <2>2, SMT
  <1>6. CASE k = 48
    <2>1. version = 3
      BY <1>1, <1>6, SMT
    <2>2. Len(b) = 25 /\ Sound(b) /\ Preferred(b)
            => Decoder(b, 1) = FullyDecoded(b)
      BY <1>1, <1>2, <1>3, <2>1, SMT DEF Decoder, Sound, AirDecoded, Preferred, FullyDecoded
    <2>3. QED
      BY <1>6, <2>2, SMT
  <1>7. QED
    BY <1>4, <1>5, <1>6, SMT

(* Their fields do not overwrite each other. *)
LEMMA AirDecodedHas ==
  ASSUME NEW b
  PROVE  LET d == AirDecoded(b)
         IN  /\ DOMAIN d = DOMAIN AirQuality(b) \cup DOMAIN Environment(b) /\ "error" \notin DOMAIN d
             /\ \A f \in DOMAIN AirQuality(b) : d[f] = AirQuality(b)[f]
             /\ \A f \in DOMAIN Environment(b) : d[f] = Environment(b)[f]
PROOF
  <1>1. PICK e, a : e = Environment(b) /\ a = AirQuality(b)
    BY SMT
  <1>2. /\ DOMAIN e = {"format_version", "valid_mask", "temperature_c", "humidity_pct", "pressure_pa", "gas_ohms"}
        /\ DOMAIN a = {"iaq", "co2_equivalent_ppm", "breath_voc_equivalent_ppm", "iaq_accuracy",
                       "sensor_stabilized", "sensor_run_in_complete", "air_quality_valid_mask",
                       "temperature_humidity_compensated", "sample_uptime_s"}
    BY <1>1, EnvironmentHas, AirQualityHas, SMT
  <1>3. DOMAIN e \ DOMAIN a = DOMAIN e /\ "error" \notin DOMAIN a \cup DOMAIN e
    BY <1>2, SMT
  <1>4. /\ DOMAIN Extend(a, e) = DOMAIN a \cup DOMAIN e
        /\ \A f \in DOMAIN a : Extend(a, e)[f] = a[f]
        /\ \A f \in DOMAIN e \ DOMAIN a : Extend(a, e)[f] = e[f]
    BY ExtendIs, Zenon
  <1>5. QED
    BY <1>1, <1>3, <1>4, SMT DEF AirDecoded

LEMMA FullyDecodedHas ==
  ASSUME NEW b
  PROVE  LET d == FullyDecoded(b)
             P == Presentation(Environment(b), b[25])
         IN  /\ "error" \notin DOMAIN d
             /\ \A f \in DOMAIN AirQuality(b) : d[f] = AirQuality(b)[f]
             /\ \A f \in DOMAIN Environment(b) : d[f] = Environment(b)[f]
             /\ \A f \in DOMAIN P : d[f] = P[f]
PROOF
  <1>1. PICK e, a, P, r : /\ e = Environment(b) /\ a = AirQuality(b) /\ r = AirDecoded(b)
                          /\ P = Presentation(Environment(b), b[25])
    BY SMT
  <1>2. /\ DOMAIN e = {"format_version", "valid_mask", "temperature_c", "humidity_pct", "pressure_pa", "gas_ohms"}
        /\ DOMAIN a = {"iaq", "co2_equivalent_ppm", "breath_voc_equivalent_ppm", "iaq_accuracy",
                       "sensor_stabilized", "sensor_run_in_complete", "air_quality_valid_mask",
                       "temperature_humidity_compensated", "sample_uptime_s"}
    BY <1>1, EnvironmentHas, AirQualityHas, SMT
  <1>3. DOMAIN P = {"packet_type", "temperature_unit", "temperature", "pressure_unit", "pressure",
                    "gas_resistance_unit", "gas_resistance", "breath_voc_equivalent_unit"}
    BY <1>1, SMT DEF Presentation
  <1>4. DOMAIN e \cap DOMAIN P = {} /\ DOMAIN a \cap DOMAIN P = {} /\ "error" \notin DOMAIN P
    BY <1>2, <1>3, SMT
  <1>5. /\ DOMAIN r = DOMAIN a \cup DOMAIN e /\ "error" \notin DOMAIN r
        /\ \A f \in DOMAIN a : r[f] = a[f]
        /\ \A f \in DOMAIN e : r[f] = e[f]
    BY <1>1, AirDecodedHas, Zenon
  <1>6. /\ DOMAIN Extend(P, r) = DOMAIN P \cup DOMAIN r
        /\ \A f \in DOMAIN P : Extend(P, r)[f] = P[f]
        /\ \A f \in DOMAIN r \ DOMAIN P : Extend(P, r)[f] = r[f]
    BY ExtendIs, Zenon
  <1>7. /\ "error" \notin DOMAIN Extend(P, r)
        /\ \A f \in DOMAIN a : Extend(P, r)[f] = a[f]
        /\ \A f \in DOMAIN e : Extend(P, r)[f] = e[f]
    BY <1>4, <1>5, <1>6, SMT
  <1>8. QED
    BY <1>1, <1>6, <1>7, SMT DEF FullyDecoded

(* So the operator understands what the node reports, in every version. *)
LEMMA EnvironmentReaches ==
  ASSUME NEW s \in SensorSnapshot
  PROVE  LET d == Decoder(payloadEncodeEnvironment(s), 1)
         IN  "error" \notin DOMAIN d /\ EnvironmentIsUnderstood(d, s)
PROOF
  <1>1. PICK b : b = payloadEncodeEnvironment(s)
    BY SMT
  <1>2. b \in Seq(Int) /\ Len(b) = 11 /\ b[1] = 16 + Measured(s) /\ EnvironmentBytes(b, s)
    BY <1>1, EnvironmentPacket, Zenon
  <1>3. Measured(s) \in Nat /\ Measured(s) < 16
    BY ReadingsAre, SMT
  <1>4. Decoder(b, 1) = Environment(b)
    BY <1>2, <1>3, DecoderIs, SMT
  <1>5. EnvironmentIsUnderstood(Environment(b), s)
    BY <1>2, EnvironmentUnderstood, Zenon
  <1>6. "error" \notin DOMAIN Environment(b)
    BY EnvironmentHas, SMT
  <1>7. QED
    BY <1>1, <1>4, <1>5, <1>6, Zenon

LEMMA ReportReaches ==
  ASSUME NEW s \in SensorSnapshot
  PROVE  LET d == Decoder(payloadEncodeReport(s), 1)
         IN  "error" \notin DOMAIN d /\ EnvironmentIsUnderstood(d, s) /\ AirQualityIsUnderstood(d, s)
PROOF
  <1>1. PICK b, d : b = payloadEncodeReport(s) /\ d = AirDecoded(b)
    BY SMT
  <1>2. /\ b \in Seq(Int) /\ Len(b) = 24 /\ b[1] = 32 + Measured(s)
        /\ EnvironmentBytes(b, s) /\ AirBytes(b, s)
    BY <1>1, ReportPacket, Zenon
  <1>3. Measured(s) \in Nat /\ Measured(s) < 16
    BY ReadingsAre, SMT
  <1>4. Sound(b)
    BY <1>2, AirNotBad, Zenon
  <1>5. Decoder(b, 1) = d
    BY <1>1, <1>2, <1>3, <1>4, DecoderIs, SMT
  <1>6. /\ "error" \notin DOMAIN d
        /\ \A f \in DOMAIN AirQuality(b) : d[f] = AirQuality(b)[f]
        /\ \A f \in DOMAIN Environment(b) : d[f] = Environment(b)[f]
    BY <1>1, AirDecodedHas, Zenon
  <1>7. /\ d.temperature_c = Environment(b).temperature_c /\ d.humidity_pct = Environment(b).humidity_pct
        /\ d.pressure_pa = Environment(b).pressure_pa /\ d.gas_ohms = Environment(b).gas_ohms
    BY <1>6, EnvironmentHas, SMT
  <1>8. EnvironmentIsUnderstood(d, s)
    BY <1>2, <1>7, EnvironmentUnderstood, Zenon
  <1>9. AirQualityIsUnderstood(d, s)
    BY <1>2, <1>6, AirUnderstood, Zenon
  <1>10. QED
    BY <1>1, <1>5, <1>6, <1>8, <1>9, Zenon

LEMMA SensorReaches ==
  ASSUME NEW s \in SensorSnapshot, active \in AppSettings
  PROVE  LET d == Decoder(encoderSensorPacket(s, active), 1)
         IN  /\ "error" \notin DOMAIN d /\ EnvironmentIsUnderstood(d, s) /\ AirQualityIsUnderstood(d, s)
             /\ DisplaysAgree(d, printReading(s, active))
PROOF
  <1>1. PICK b, d, p : b = encoderSensorPacket(s, active) /\ d = FullyDecoded(b) /\ p = settingsPreferenceByte(active)
    BY SMT
  <1>2. /\ b \in Seq(Int) /\ Len(b) = 25 /\ b[1] = 48 + Measured(s)
        /\ EnvironmentBytes(b, s) /\ AirBytes(b, s) /\ b[25] = p
    BY <1>1, SensorPacket, Zenon
  <1>3. Measured(s) \in Nat /\ Measured(s) < 16
    BY ReadingsAre, SMT
  <1>4. Sound(b)
    BY <1>2, AirNotBad, Zenon
  <1>5. Preferred(b)
    BY <1>1, <1>2, PreferencesAre, SMT DEF AppSettings, Preferred
  <1>6. Decoder(b, 1) = d
    <2>1. Decoder(b, 1) = FullyDecoded(b)
      BY <1>2, <1>3, <1>4, <1>5, DecoderIs, SMT
    <2>2. QED
      BY <1>1, <2>1, Zenon
  <1>7. /\ "error" \notin DOMAIN d
        /\ \A f \in DOMAIN AirQuality(b) : d[f] = AirQuality(b)[f]
        /\ \A f \in DOMAIN Environment(b) : d[f] = Environment(b)[f]
        /\ \A f \in DOMAIN Presentation(Environment(b), p) : d[f] = Presentation(Environment(b), p)[f]
    <2>1. /\ "error" \notin DOMAIN d
          /\ \A f \in DOMAIN AirQuality(b) : d[f] = AirQuality(b)[f]
          /\ \A f \in DOMAIN Environment(b) : d[f] = Environment(b)[f]
          /\ \A f \in DOMAIN Presentation(Environment(b), b[25]) : d[f] = Presentation(Environment(b), b[25])[f]
      BY <1>1, FullyDecodedHas, Zenon
    <2>2. b[25] = p
      BY <1>2, Zenon
    <2>3. QED
      BY <2>1, <2>2, Zenon
  <1>8. /\ d.temperature_c = Environment(b).temperature_c /\ d.humidity_pct = Environment(b).humidity_pct
        /\ d.pressure_pa = Environment(b).pressure_pa /\ d.gas_ohms = Environment(b).gas_ohms
    BY <1>7, EnvironmentHas, SMT
  <1>9. EnvironmentIsUnderstood(d, s)
    BY <1>2, <1>8, EnvironmentUnderstood, Zenon
  <1>10. AirQualityIsUnderstood(d, s)
    BY <1>2, <1>7, AirUnderstood, Zenon
  <1>11. Kept(Environment(b), s)
    BY <1>2, ReadingsAreKept, Zenon
  <1>12. PresentationIs(d, Environment(b), active)
    <2>1. p = settingsPreferenceByte(active)
      BY <1>1, Zenon
    <2>2. \A f \in DOMAIN Presentation(Environment(b), p) : d[f] = Presentation(Environment(b), p)[f]
      BY <1>7, Zenon
    <2>3. QED
      BY <2>1, <2>2, PresentationHas, Zenon
  <1>13. DisplaysAgree(d, printReading(s, active))
    BY <1>11, <1>12, DisplaysUnderstood, Zenon
  <1>14. QED
    BY <1>1, <1>6, <1>7, <1>9, <1>10, <1>13, Zenon

-----------------------------------------------------------------------------
(* Replies.  A request's id and command may be anything: they came by radio.  *)
ReplyOk(r) ==
  /\ r.kind \in 0..4 /\ r.result \in 0..6 /\ r.value \in UInt32
  /\ r.kind = 1 => r.settings \in AppSettings
  /\ r.kind = 2 => r.status \in NodeStatus
  /\ r.kind = 3 => r.command = 5 /\ SixDigits(r.value)
  /\ r.kind = 4 => r.command = 7 /\ SixDigits(r.value)
ReplyTail(r) ==
  IF r.kind = ReplyKind.Configuration
  THEN LET s == r.settings
       IN  <<s.mode, s.intervalMinutes, s.temperature, s.pressure, s.gas, s.voc, s.serialLevel>>
  ELSE IF r.kind = ReplyKind.Status
  THEN LET s == r.status
       IN  U32(s.uptimeSeconds) \o U16(s.ringCount) \o U16(s.reportIntervalSeconds)
           \o <<s.validMask, s.quality, s.radioState, s.managerState>>
           \o U16(Int16(s.radioError)) \o U16(s.sampleAgeSeconds)
  ELSE <<>>
ReplyIs(b, r, tail, n) ==
  /\ Len(b) = 10 + n /\ b # <<>>
  /\ b[1] = 161 /\ b[2] = r.kind /\ b[5] = r.command /\ b[6] = r.result /\ readU32(b, 7) = r.value
  /\ \A i \in 1..n : b[10 + i] = tail[i]

LEMMA ReplyParts ==
  ASSUME NEW r, ReplyOk(r), NEW n \in Nat, ReplyTail(r) \in Seq(Int), Len(ReplyTail(r)) = n
  PROVE  ReplyIs(encoderControlPacket(r), r, ReplyTail(r), n)
PROOF
  <1>1. PICK hi, lo : hi = r.requestId \div 256 /\ lo = r.requestId % 256
    OBVIOUS
  <1>2. PICK S : S = Int \cup {hi, lo, r.command}
    OBVIOUS
  <1>3. PICK A, B, C, D, T : /\ A = <<161, r.kind>> /\ B = <<hi, lo>> /\ C = <<r.command, r.result>>
                             /\ D = U32(r.value) /\ T = ReplyTail(r)
    OBVIOUS
  <1>4. r.value \in UInt32 /\ r.kind \in Int /\ r.result \in Int
    BY DEF ReplyOk
  <1>5. PICK v1, v2 : v1 = r.value[1] /\ v2 = r.value[2]
    OBVIOUS
  <1>6. v1 \in Nat /\ v2 \in Nat
    BY <1>4, <1>5, UInt32Is
  <1>7. D = <<v1 \div 256, v1 % 256, v2 \div 256, v2 % 256>>
    BY <1>3, <1>5, U32Is
  <1>8. A \in Seq(S) /\ Len(A) = 2 /\ B \in Seq(S) /\ Len(B) = 2 /\ C \in Seq(S) /\ Len(C) = 2
    BY <1>2, <1>3, <1>4
  <1>9. D \in Seq(S) /\ Len(D) = 4
    BY <1>2, <1>6, <1>7
  <1>10. T \in Seq(S) /\ Len(T) = n
    BY <1>2, <1>3, SeqMonotonic
  <1>11. PICK w1 : w1 = A \o B
    OBVIOUS
  <1>12. Follows(w1, S, A, 2, B, 2)
    BY <1>8, <1>11, FollowsIs
  <1>13. w1 \in Seq(S) /\ Len(w1) = 4
    BY <1>12 DEF Follows
  <1>14. PICK w2 : w2 = w1 \o C
    OBVIOUS
  <1>15. Follows(w2, S, w1, 4, C, 2)
    BY <1>8, <1>13, <1>14, FollowsIs
  <1>16. w2 \in Seq(S) /\ Len(w2) = 6
    BY <1>15 DEF Follows
  <1>17. PICK w3 : w3 = w2 \o D
    OBVIOUS
  <1>18. Follows(w3, S, w2, 6, D, 4)
    BY <1>9, <1>16, <1>17, FollowsIs
  <1>19. w3 \in Seq(S) /\ Len(w3) = 10
    BY <1>18 DEF Follows
  <1>20. PICK b : b = w3 \o T
    OBVIOUS
  <1>21. Follows(b, S, w3, 10, T, n)
    BY <1>10, <1>19, <1>20, FollowsIs
  <1>22. encoderControlPacket(r) = b
    <2>1. encoderControlPacket(r) = <<161, r.kind>> \o U16(r.requestId) \o <<r.command, r.result>> \o U32(r.value)
                                    \o ReplyTail(r)
      BY DEF encoderControlPacket, ReplyTail
    <2>2. U16(r.requestId) = B
      BY <1>1, <1>3 DEF U16
    <2>3. encoderControlPacket(r) = A \o B \o C \o D \o T
      BY <1>3, <2>1, <2>2, Zenon
    <2>4. QED
      BY <1>11, <1>14, <1>17, <1>20, <2>3, Zenon
  <1>23. /\ Len(b) = 10 + n /\ \A i \in 1..n : b[10 + i] = T[i]
         /\ b[1] = w3[1] /\ b[2] = w3[2] /\ b[5] = w3[5] /\ b[6] = w3[6]
         /\ b[7] = w3[7] /\ b[8] = w3[8] /\ b[9] = w3[9] /\ b[10] = w3[10]
    <2>1. Len(b) = 10 + n /\ (\A i \in 1..n : b[10 + i] = T[i]) /\ (\A i \in 1..10 : b[i] = w3[i])
      BY <1>21, Zenon DEF Follows
    <2>2. \A i \in {1, 2, 5, 6, 7, 8, 9, 10} : i \in 1..10
      OBVIOUS
    <2>3. QED
      BY <2>1, <2>2, Zenon
  <1>24. /\ w3[1] = w2[1] /\ w3[2] = w2[2] /\ w3[5] = w2[5] /\ w3[6] = w2[6]
         /\ w3[7] = D[1] /\ w3[8] = D[2] /\ w3[9] = D[3] /\ w3[10] = D[4]
    <2>1. /\ \A i \in 1..6 : w3[i] = w2[i]
          /\ \A i \in 1..4 : w3[6 + i] = D[i]
      BY <1>18 DEF Follows
    <2>2. 7 = 6 + 1 /\ 8 = 6 + 2 /\ 9 = 6 + 3 /\ 10 = 6 + 4
      OBVIOUS
    <2>3. QED
      BY <2>1, <2>2
  <1>25. w2[1] = w1[1] /\ w2[2] = w1[2] /\ w2[5] = C[1] /\ w2[6] = C[2]
    <2>1. /\ \A i \in 1..4 : w2[i] = w1[i]
          /\ \A i \in 1..2 : w2[4 + i] = C[i]
      BY <1>15 DEF Follows
    <2>2. 5 = 4 + 1 /\ 6 = 4 + 2
      OBVIOUS
    <2>3. QED
      BY <2>1, <2>2
  <1>26. w1[1] = A[1] /\ w1[2] = A[2]
    BY <1>12 DEF Follows
  <1>27. b[1] = 161 /\ b[2] = r.kind /\ b[5] = r.command /\ b[6] = r.result
    BY <1>3, <1>23, <1>24, <1>25, <1>26
  <1>28. Holds32(b, 7, r.value)
    <2>1. D[1] = v1 \div 256 /\ D[2] = v1 % 256 /\ D[3] = v2 \div 256 /\ D[4] = v2 % 256
      BY <1>7
    <2>2. b[7] = v1 \div 256 /\ b[8] = v1 % 256 /\ b[9] = v2 \div 256 /\ b[10] = v2 % 256
      BY <1>23, <1>24, <2>1
    <2>3. QED
      BY <1>5, <2>2 DEF Holds32, Holds16
  <1>29. readU32(b, 7) = r.value
    BY <1>4, <1>28, Reads32
  <1>30. b # <<>>
    BY <1>23
  <1>31. QED
    BY <1>3, <1>22, <1>23, <1>27, <1>29, <1>30 DEF ReplyIs

(* What follows the ten bytes of a reply. *)
LEMMA SettingsTail ==
  ASSUME NEW r, r.kind = 1, r.settings \in AppSettings
  PROVE  LET s == r.settings
             t == ReplyTail(r)
         IN  /\ t \in Seq(Int) /\ Len(t) = 7
             /\ t[1] = s.mode /\ t[2] = s.intervalMinutes /\ t[3] = s.temperature /\ t[4] = s.pressure
             /\ t[5] = s.gas /\ t[6] = s.voc /\ t[7] = s.serialLevel
PROOF
  <1>1. PICK s : s = r.settings
    OBVIOUS
  <1>2. /\ s.mode \in Int /\ s.intervalMinutes \in Int /\ s.temperature \in Int /\ s.pressure \in Int
        /\ s.gas \in Int /\ s.voc \in Int /\ s.serialLevel \in Int
    BY <1>1 DEF AppSettings
  <1>3. PICK a, b, c, d : a = s.mode /\ b = s.intervalMinutes /\ c = s.temperature /\ d = s.pressure
    OBVIOUS
  <1>4. PICK e, f, g : e = s.gas /\ f = s.voc /\ g = s.serialLevel
    OBVIOUS
  <1>5. ReplyTail(r) = <<a, b, c, d, e, f, g>>
    BY <1>1, <1>3, <1>4 DEF ReplyTail, ReplyKind
  <1>6. a \in Int /\ b \in Int /\ c \in Int /\ d \in Int /\ e \in Int /\ f \in Int /\ g \in Int
    BY <1>2, <1>3, <1>4
  <1>7. PICK t : t = <<a, b, c, d, e, f, g>>
    OBVIOUS
  <1>8. t \in Seq(Int) /\ Len(t) = 7
    BY <1>6, <1>7
  <1>9. t[1] = a /\ t[2] = b /\ t[3] = c /\ t[4] = d /\ t[5] = e /\ t[6] = f /\ t[7] = g
    BY <1>7
  <1>10. QED
    BY <1>1, <1>3, <1>4, <1>5, <1>7, <1>8, <1>9

Bytes(u, n) == u \in Seq(Int) /\ Len(u) = n

LEMMA BytesGrow ==
  ASSUME NEW u, NEW v, NEW n \in Nat, NEW k \in Nat, NEW m, m = n + k, Bytes(u, n), Bytes(v, k)
  PROVE  Bytes(u \o v, m)
  BY ConcatProperties DEF Bytes

LEMMA NodeStatusIs ==
  ASSUME NEW s \in NodeStatus
  PROVE  /\ s.uptimeSeconds \in UInt32 /\ s.ringCount \in UInt16 /\ s.reportIntervalSeconds \in UInt16
         /\ s.validMask \in Int /\ s.quality \in Int /\ s.radioState \in Int /\ s.managerState \in Int
         /\ s.radioError \in Int /\ s.sampleAgeSeconds \in UInt16
PROOF
  <1>1. /\ s.uptimeSeconds \in UInt32 /\ s.ringCount \in UInt16 /\ s.reportIntervalSeconds \in UInt16
        /\ s.sampleAgeSeconds \in UInt16
    BY SMT DEF NodeStatus
  <1>2. s.validMask \in 0..127 /\ s.quality \in 0..255 /\ s.radioState \in 0..6 /\ s.managerState \in 0..255
    BY SMT DEF NodeStatus
  <1>3. s.radioError \in SInt16
    BY SMT DEF NodeStatus
  <1>4. s.radioError \in Int
    BY <1>3, SMT DEF SInt16
  <1>5. QED
    BY <1>1, <1>2, <1>4, SMT

LEMMA StatusTail ==
  ASSUME NEW r, r.kind = 2, r.status \in NodeStatus
  PROVE  ReplyTail(r) \in Seq(Int) /\ Len(ReplyTail(r)) = 16
PROOF
  <1>1. PICK s : s = r.status
    BY SMT
  <1>2. /\ s.uptimeSeconds \in UInt32 /\ s.ringCount \in UInt16 /\ s.reportIntervalSeconds \in UInt16
        /\ s.validMask \in Int /\ s.quality \in Int /\ s.radioState \in Int /\ s.managerState \in Int
        /\ s.radioError \in Int /\ s.sampleAgeSeconds \in UInt16
    BY <1>1, NodeStatusIs, SMT
  <1>3. ASSUME NEW x \in Int
        PROVE  Bytes(U16(x), 2)
    BY DEF U16, Bytes
  <1>4. ASSUME NEW v \in UInt32
        PROVE  Bytes(U32(v), 4)
    <2>1. PICK hi, lo : hi = v[1] /\ lo = v[2]
      OBVIOUS
    <2>2. hi \in Int /\ lo \in Int
      BY <2>1, UInt32Is
    <2>3. U32(v) = <<hi \div 256, hi % 256, lo \div 256, lo % 256>>
      BY <2>1, U32Is
    <2>4. QED
      BY <2>2, <2>3 DEF Bytes
  <1>5. s.ringCount \in Int /\ s.reportIntervalSeconds \in Int /\ s.sampleAgeSeconds \in Int
    BY <1>2, UInt16Is
  <1>6. Int16(s.radioError) \in Int
    BY <1>2 DEF Int16
  <1>7. PICK A, B, C, D, E, F :
          /\ A = U32(s.uptimeSeconds) /\ B = U16(s.ringCount) /\ C = U16(s.reportIntervalSeconds)
          /\ D = <<s.validMask, s.quality, s.radioState, s.managerState>>
          /\ E = U16(Int16(s.radioError)) /\ F = U16(s.sampleAgeSeconds)
    OBVIOUS
  <1>8. Bytes(A, 4) /\ Bytes(B, 2) /\ Bytes(C, 2) /\ Bytes(E, 2) /\ Bytes(F, 2)
    BY <1>2, <1>3, <1>4, <1>5, <1>6, <1>7
  <1>9. Bytes(D, 4)
    <2>1. PICK w, x, y, z : w = s.validMask /\ x = s.quality /\ y = s.radioState /\ z = s.managerState
      OBVIOUS
    <2>2. w \in Int /\ x \in Int /\ y \in Int /\ z \in Int /\ D = <<w, x, y, z>>
      BY <1>2, <1>7, <2>1
    <2>3. QED
      BY <2>2 DEF Bytes
  <1>10. PICK AB, AC, AD, AE, AF : AB = A \o B /\ AC = AB \o C /\ AD = AC \o D /\ AE = AD \o E /\ AF = AE \o F
    OBVIOUS
  <1>11. Bytes(AB, 6)
    BY <1>8, <1>10, BytesGrow
  <1>12. Bytes(AC, 8)
    BY <1>8, <1>10, <1>11, BytesGrow
  <1>13. Bytes(AD, 12)
    BY <1>9, <1>10, <1>12, BytesGrow
  <1>14. Bytes(AE, 14)
    BY <1>8, <1>10, <1>13, BytesGrow
  <1>15. Bytes(AF, 16)
    BY <1>8, <1>10, <1>14, BytesGrow
  <1>16. ReplyTail(r) = AF
    <2>1. r.kind = ReplyKind.Status /\ r.kind # ReplyKind.Configuration
      BY SMT DEF ReplyKind
    <2>2. ReplyTail(r) = U32(s.uptimeSeconds) \o U16(s.ringCount) \o U16(s.reportIntervalSeconds)
                         \o <<s.validMask, s.quality, s.radioState, s.managerState>>
                         \o U16(Int16(s.radioError)) \o U16(s.sampleAgeSeconds)
      BY <1>1, <2>1, Zenon DEF ReplyTail
    <2>3. QED
      BY <1>7, <1>10, <2>2, Zenon
  <1>17. QED
    BY <1>15, <1>16 DEF Bytes

LEMMA EmptyTail ==
  ASSUME NEW r, r.kind \in {0, 3, 4}
  PROVE  ReplyTail(r) \in Seq(Int) /\ Len(ReplyTail(r)) = 0
PROOF
  <1>1. ReplyTail(r) = <<>>
    BY DEF ReplyTail, ReplyKind
  <1>2. QED
    BY <1>1

(* Decoder accepts every reply that the node makes. *)
LEMMA ReplyReaches ==
  ASSUME NEW r, ReplyOk(r)
  PROVE  "error" \notin DOMAIN Decoder(encoderControlPacket(r), 1)
PROOF
  <1>1. PICK b : b = encoderControlPacket(r)
    BY SMT
  <1> DEFINE reply == [packet_type |-> IF b[2] = 2 /\ b[5] = 0 THEN "health" ELSE "control",
                       reply_type |-> b[2], request_id |-> readU16(b, 3), command |-> b[5],
                       result |-> b[6], value |-> readU32(b, 7)]
  <1>2. ASSUME NEW n \in Nat, ReplyTail(r) \in Seq(Int), Len(ReplyTail(r)) = n
        PROVE  ReplyIs(b, r, ReplyTail(r), n)
    BY <1>1, <1>2, ReplyParts, Zenon
  <1>3. "error" \notin DOMAIN reply
    BY SMT
  <1> HIDE DEF reply
  <1>4. ASSUME NEW more, "error" \notin DOMAIN more
        PROVE  "error" \notin DOMAIN Extend(more, reply)
    <2>1. DOMAIN Extend(more, reply) = DOMAIN more \cup DOMAIN reply
      BY ExtendIs, Zenon
    <2>2. QED
      BY <1>3, <1>4, <2>1, SMT
  <1>5. r.result \in 0..6 /\ r.kind \in 0..4
    BY SMT DEF ReplyOk
  <1>6. ASSUME b # <<>>, b[1] = 161
        PROVE  Decoder(b, 1) = decodeControl(b)
    BY <1>6, SMT DEF Decoder
  <1>7. CASE r.kind = 1
    <2>1. PICK s : s = r.settings
      BY SMT
    <2>2. s \in AppSettings
      BY <1>7, <2>1, SMT DEF ReplyOk
    <2>3. PICK t : t = ReplyTail(r)
      BY SMT
    <2>4. /\ t \in Seq(Int) /\ Len(t) = 7
          /\ t[1] = s.mode /\ t[2] = s.intervalMinutes /\ t[3] = s.temperature /\ t[4] = s.pressure
          /\ t[5] = s.gas /\ t[6] = s.voc /\ t[7] = s.serialLevel
      BY <1>7, <2>1, <2>2, <2>3, SettingsTail, Zenon
    <2>5. ReplyIs(b, r, t, 7)
      BY <1>2, <2>3, <2>4, SMT
    <2>6. /\ Len(b) = 17 /\ b # <<>> /\ b[1] = 161 /\ b[2] = 1 /\ b[6] \in 0..6
          /\ b[11] = s.mode /\ b[12] = s.intervalMinutes /\ b[13] = s.temperature /\ b[14] = s.pressure
          /\ b[15] = s.gas /\ b[16] = s.voc /\ b[17] = s.serialLevel
      <3>1. \A i \in 1..7 : b[10 + i] = t[i]
        BY <2>5, SMT DEF ReplyIs
      <3>2. /\ 11 = 10 + 1 /\ 12 = 10 + 2 /\ 13 = 10 + 3 /\ 14 = 10 + 4 /\ 15 = 10 + 5 /\ 16 = 10 + 6
            /\ 17 = 10 + 7
        BY SMT
      <3>3. /\ b[11] = t[1] /\ b[12] = t[2] /\ b[13] = t[3] /\ b[14] = t[4] /\ b[15] = t[5] /\ b[16] = t[6]
            /\ b[17] = t[7]
        BY <3>1, <3>2, SMT
      <3>4. QED
        BY <1>5, <1>7, <2>4, <2>5, <3>3, SMT DEF ReplyIs
    <2>7. /\ b[11] <= 1 /\ b[12] \in 1..60 /\ b[13] <= 1 /\ b[14] <= 4 /\ b[15] <= 1 /\ b[16] <= 1 /\ b[17] <= 5
      BY <2>2, <2>6, SMT DEF AppSettings
    <2>8. decodeControl(b) = Extend([settings |-> Configuration(b)], reply)
      BY <2>6, <2>7, SMT DEF decodeControl, reply
    <2>9. "error" \notin DOMAIN [settings |-> Configuration(b)]
      BY SMT
    <2>10. QED
      BY <1>1, <1>4, <1>6, <2>6, <2>8, <2>9, SMT
  <1>8. CASE r.kind = 2
    <2>1. ReplyTail(r) \in Seq(Int) /\ Len(ReplyTail(r)) = 16
      BY <1>8, StatusTail, SMT DEF ReplyOk
    <2>2. ReplyIs(b, r, ReplyTail(r), 16)
      BY <1>2, <2>1, SMT
    <2>3. Len(b) = 26 /\ b # <<>> /\ b[1] = 161 /\ b[2] = 2 /\ b[6] \in 0..6
      BY <1>5, <1>8, <2>2, SMT DEF ReplyIs
    <2>4. decodeControl(b) = Extend([status |-> Status(b)], reply)
      BY <2>3, SMT DEF decodeControl, reply
    <2>5. "error" \notin DOMAIN [status |-> Status(b)]
      BY SMT
    <2>6. QED
      BY <1>1, <1>4, <1>6, <2>3, <2>4, <2>5, SMT
  <1>9. CASE r.kind \in {0, 3, 4}
    <2>1. ReplyTail(r) \in Seq(Int) /\ Len(ReplyTail(r)) = 0
      BY <1>9, EmptyTail, SMT
    <2>2. ReplyIs(b, r, ReplyTail(r), 0)
      BY <1>2, <2>1, SMT
    <2>3. /\ Len(b) = 10 /\ b # <<>> /\ b[1] = 161 /\ b[2] = r.kind /\ b[6] \in 0..6
          /\ b[5] = r.command /\ readU32(b, 7) = r.value
      BY <1>5, <2>2, SMT DEF ReplyIs
    <2>4. r.kind = 0 \/ (r.kind = 3 /\ b[5] = 5) \/ (r.kind = 4 /\ b[5] = 7)
      BY <1>9, <2>3, SMT DEF ReplyOk
    <2>5. r.kind # 0 => SixDigits(readU32(b, 7))
      BY <1>9, <2>3, SMT DEF ReplyOk
    <2>6. decodeControl(b) = reply
      BY <2>3, <2>4, <2>5, SMT DEF decodeControl, reply
    <2>7. QED
      BY <1>1, <1>3, <1>6, <2>3, <2>6, SMT
  <1>10. QED
    BY <1>5, <1>7, <1>8, <1>9, SMT

-----------------------------------------------------------------------------
(* The replies of the node are such replies. *)
LEMMA ResultOk ==
  ASSUME NEW id, NEW command, NEW result \in 0..6
  PROVE  ReplyOk(Result(id, command, result))
PROOF
  <1>1. <<0, 0>> \in UInt32
    BY UInt16Is DEF UInt32
  <1>2. QED
    BY <1>1 DEF ReplyOk, Result, ReplyKind

(* A result over which other parts are laid. *)
Answer(more, id, command, sort) ==
  Extend(more, [Result(id, command, CommandResult.Accepted) EXCEPT !.kind = sort])

LEMMA AnswerHas ==
  ASSUME NEW more, NEW id, NEW command, NEW sort, "kind" \notin DOMAIN more, "result" \notin DOMAIN more,
         "command" \notin DOMAIN more, NEW r, r = Answer(more, id, command, sort)
  PROVE  /\ r.kind = sort /\ r.result = 0 /\ r.command = command
         /\ \A f \in DOMAIN more : r[f] = more[f]
         /\ "value" \notin DOMAIN more => r.value = <<0, 0>>
PROOF
  <1> DEFINE base == [Result(id, command, CommandResult.Accepted) EXCEPT !.kind = sort]
  <1>1. /\ DOMAIN base = {"kind", "requestId", "command", "result", "value"}
        /\ base.kind = sort /\ base.result = 0 /\ base.command = command /\ base.value = <<0, 0>>
    BY SMT DEF Result, CommandResult
  <1> HIDE DEF base
  <1>2. /\ \A f \in DOMAIN more : Extend(more, base)[f] = more[f]
        /\ \A f \in DOMAIN base \ DOMAIN more : Extend(more, base)[f] = base[f]
    BY ExtendIs, Zenon
  <1>3. r = Extend(more, base)
    BY Zenon DEF Answer, base
  <1>4. /\ r.kind = sort /\ r.result = 0 /\ r.command = command
        /\ "value" \notin DOMAIN more => r.value = <<0, 0>>
    BY <1>1, <1>2, <1>3, SMT
  <1>5. QED
    BY <1>2, <1>3, <1>4, Zenon

LEMMA SettingsAnswer ==
  ASSUME NEW id, NEW command, NEW s \in AppSettings
  PROVE  ReplyOk(Answer([settings |-> s], id, command, 1))
PROOF
  <1> DEFINE more == [settings |-> s]
  <1>2. DOMAIN more = {"settings"} /\ more.settings = s
    BY SMT
  <1> HIDE DEF more
  <1>3. PICK r : r = Answer(more, id, command, 1)
    BY SMT
  <1>4. /\ "kind" \notin DOMAIN more /\ "result" \notin DOMAIN more /\ "command" \notin DOMAIN more
        /\ "value" \notin DOMAIN more /\ "settings" \in DOMAIN more
    BY <1>2, SMT
  <1>5. r.kind = 1 /\ r.result = 0 /\ r.value = <<0, 0>> /\ r["settings"] = more["settings"]
    BY <1>3, <1>4, AnswerHas, SMT
  <1>6. <<0, 0>> \in UInt32
    BY UInt16Is DEF UInt32
  <1>7. ReplyOk(r)
    BY <1>2, <1>5, <1>6, SMT DEF ReplyOk
  <1>8. QED
    BY <1>3, <1>7, Zenon DEF more

LEMMA StatusAnswer ==
  ASSUME NEW id, NEW command, NEW s \in NodeStatus
  PROVE  ReplyOk(Answer([status |-> s], id, command, 2))
PROOF
  <1> DEFINE more == [status |-> s]
  <1>2. DOMAIN more = {"status"} /\ more.status = s
    BY SMT
  <1> HIDE DEF more
  <1>3. PICK r : r = Answer(more, id, command, 2)
    BY SMT
  <1>4. /\ "kind" \notin DOMAIN more /\ "result" \notin DOMAIN more /\ "command" \notin DOMAIN more
        /\ "value" \notin DOMAIN more /\ "status" \in DOMAIN more
    BY <1>2, SMT
  <1>5. r.kind = 2 /\ r.result = 0 /\ r.value = <<0, 0>> /\ r["status"] = more["status"]
    BY <1>3, <1>4, AnswerHas, SMT
  <1>6. <<0, 0>> \in UInt32
    BY UInt16Is DEF UInt32
  <1>7. ReplyOk(r)
    BY <1>2, <1>5, <1>6, SMT DEF ReplyOk
  <1>8. QED
    BY <1>3, <1>7, Zenon DEF more

(* The code of a challenge has six digits. *)
LEMMA CodeIs ==
  ASSUME NEW entropy \in Nat
  PROVE  LET v == Halves(lwGenerateResetCode(entropy))
         IN  v \in UInt32 /\ SixDigits(v)
PROOF
  <1>1. PICK n : n = lwGenerateResetCode(entropy)
    BY SMT
  <1>2. n \in Nat /\ 100000 <= n /\ n <= 999999
    BY <1>1, SMT DEF lwGenerateResetCode
  <1>3. PICK hi, lo : hi = n \div 65536 /\ lo = n % 65536
    BY SMT
  <1>4. hi \in Nat /\ hi < 16 /\ lo \in Nat /\ lo <= 65535 /\ 65536 * hi + lo = n
    BY <1>2, <1>3, SMT
  <1>5. Halves(n) = <<hi, lo>>
    BY <1>3, SMT DEF Halves
  <1>6. <<hi, lo>> \in UInt32
    BY <1>4, UInt16Is, SMT DEF UInt32
  <1>7. SixDigits(<<hi, lo>>)
    BY <1>2, <1>4, SMT DEF SixDigits, Between
  <1>8. QED
    BY <1>1, <1>5, <1>6, <1>7, SMT

LEMMA ChallengeAnswer ==
  ASSUME NEW id, NEW command, NEW sort, NEW v \in UInt32, SixDigits(v),
         (sort = 3 /\ command = 5) \/ (sort = 4 /\ command = 7)
  PROVE  ReplyOk(Answer([value |-> v], id, command, sort))
PROOF
  <1> DEFINE more == [value |-> v]
  <1>2. DOMAIN more = {"value"} /\ more.value = v
    BY SMT
  <1> HIDE DEF more
  <1>3. PICK r : r = Answer(more, id, command, sort)
    BY SMT
  <1>4. /\ "kind" \notin DOMAIN more /\ "result" \notin DOMAIN more /\ "command" \notin DOMAIN more
        /\ "value" \in DOMAIN more
    BY <1>2, SMT
  <1>5. r.kind = sort /\ r.result = 0 /\ r.command = command /\ r["value"] = more["value"]
    BY <1>3, <1>4, AnswerHas, SMT
  <1>6. ReplyOk(r)
    BY <1>2, <1>5, SMT DEF ReplyOk
  <1>7. QED
    BY <1>3, <1>6, Zenon DEF more

LEMMA HealthOk ==
  ASSUME NEW s \in NodeStatus
  PROVE  ReplyOk(Extend([kind |-> ReplyKind.Status, status |-> s], Result(0, 0, CommandResult.Accepted)))
PROOF
  <1> DEFINE more == [kind |-> ReplyKind.Status, status |-> s]
             base == Result(0, 0, CommandResult.Accepted)
  <1>2. DOMAIN more = {"kind", "status"} /\ more.kind = 2 /\ more.status = s
    BY SMT DEF ReplyKind
  <1>3. /\ DOMAIN base = {"kind", "requestId", "command", "result", "value"}
        /\ base.result = 0 /\ base.value = <<0, 0>>
    BY SMT DEF Result, CommandResult
  <1> HIDE DEF more, base
  <1>4. /\ \A f \in DOMAIN more : Extend(more, base)[f] = more[f]
        /\ \A f \in DOMAIN base \ DOMAIN more : Extend(more, base)[f] = base[f]
    BY ExtendIs, Zenon
  <1>5. PICK r : r = Extend(more, base)
    BY SMT
  <1>6. r.kind = 2 /\ r.status = s /\ r.result = 0 /\ r.value = <<0, 0>>
    BY <1>2, <1>3, <1>4, <1>5, SMT
  <1>7. <<0, 0>> \in UInt32
    BY UInt16Is DEF UInt32
  <1>8. ReplyOk(r)
    BY <1>6, <1>7, SMT DEF ReplyOk
  <1>9. QED
    BY <1>5, <1>8, Zenon DEF more, base

-----------------------------------------------------------------------------
(* The invariant: the settings are valid, so is every byte of an older        *)
(* record, and what is on its way up was packed from a valid sample or reply.  *)
Packed(item, b, prefs) ==
  \/ item.type = "reply" /\ ReplyOk(item.reply) /\ b = encoderControlPacket(item.reply)
  \/ /\ item.type = "sensor" /\ item.sample \in SensorSnapshot
     /\ \/ item.version = 1 /\ b = payloadEncodeEnvironment(item.sample)
        \/ item.version = 2 /\ b = payloadEncodeReport(item.sample)
        \/ item.version = 3 /\ b = encoderSensorPacket(item.sample, prefs)
ConsoleInv ==
  /\ active \in AppSettings
  /\ RecordOk(record)
  /\ \A item \in sent : Packed(item, uplink, active)

(* The numbers of the enums. *)
LEMMA CommandTypes ==
  /\ CommandType.SetBatch = 1 /\ CommandType.GetConfiguration = 2 /\ CommandType.GetStatus = 3
  /\ CommandType.ResetSettings = 4 /\ CommandType.RequestReset = 5 /\ CommandType.RequestReboot = 7
  BY SMT DEF CommandType
LEMMA ReplyKinds ==
  /\ ReplyKind.Configuration = 1 /\ ReplyKind.Status = 2
  /\ ReplyKind.ResetChallenge = 3 /\ ReplyKind.RebootChallenge = 4
  BY SMT DEF ReplyKind
LEMMA CommandResults ==
  /\ CommandResult.Invalid \in 0..6 /\ CommandResult.SaveFailed \in 0..6 /\ CommandResult.Busy \in 0..6
  /\ CommandResult.Expired \in 0..6 /\ CommandResult.WrongCode \in 0..6 /\ CommandResult.Conflict \in 0..6
  BY SMT DEF CommandResult

LEMMA DefaultsAreValid == settingsDefaults \in AppSettings
  BY SMT DEF settingsDefaults, AppSettings

LEMMA OverlaidIsValid ==
  ASSUME NEW d \in AppSettings, NEW a \in 0..1, NEW b \in 0..4, NEW c \in 1..60
  PROVE  [d EXCEPT !.temperature = a, !.pressure = b, !.intervalMinutes = c] \in AppSettings
PROOF
  <1>1. ASSUME NEW s \in AppSettings
        PROVE  /\ [s EXCEPT !.temperature = a] \in AppSettings
               /\ [s EXCEPT !.pressure = b] \in AppSettings
               /\ [s EXCEPT !.intervalMinutes = c] \in AppSettings
    <2>1. [s EXCEPT !.temperature = a] \in AppSettings
      BY SMT DEF AppSettings
    <2>2. [s EXCEPT !.pressure = b] \in AppSettings
      BY SMT DEF AppSettings
    <2>3. [s EXCEPT !.intervalMinutes = c] \in AppSettings
      BY SMT DEF AppSettings
    <2>4. QED
      BY <2>1, <2>2, <2>3, Zenon
  <1>2. [d EXCEPT !.temperature = a, !.pressure = b, !.intervalMinutes = c]
        = [[[d EXCEPT !.temperature = a] EXCEPT !.pressure = b] EXCEPT !.intervalMinutes = c]
    OBVIOUS
  <1>3. QED
    BY <1>1, <1>2, Zenon

LEMMA StartedIsValid ==
  ASSUME NEW r, RecordOk(r)
  PROVE  Started(r) \in AppSettings
PROOF
  <1>1. ASSUME NEW s \in LoadSettings(r)
        PROVE  s \in AppSettings
    <2>1. CASE r.tag = "v3" /\ r.intact
      BY <1>1, <2>1, SMT DEF LoadSettings, Opt, settingsValid
    <2>2. CASE r.tag # "v3" /\ r.tag = "v2" /\ r.intact /\ V2Valid(r.fields)
      <3>1. PICK a, b, c : a = r.fields[9] /\ b = r.fields[10] /\ c = r.fields[12]
        BY SMT
      <3>2. a \in 0..1 /\ b \in 0..4 /\ c \in 1..60
        <4>1. r.fields \in [5..12 -> UInt8]
          BY <2>2, Zenon DEF RecordOk
        <4>2. a \in UInt8 /\ b \in UInt8 /\ c \in UInt8
          BY <3>1, <4>1, SMT
        <4>3. (\A i \in 5..9 : r.fields[i] <= 1) /\ r.fields[10] <= 2 /\ r.fields[12] \in 1..60
          BY <2>2, Zenon DEF V2Valid
        <4>4. a <= 1 /\ b <= 2 /\ c \in 1..60
          BY <3>1, <4>3, SMT
        <4>5. QED
          BY <4>2, <4>4, SMT DEF UInt8
      <3>3. s = [settingsDefaults EXCEPT !.temperature = a, !.pressure = b, !.intervalMinutes = c]
        BY <1>1, <2>2, <3>1, SMT DEF LoadSettings
      <3>4. QED
        BY <3>2, <3>3, DefaultsAreValid, OverlaidIsValid, Zenon
    <2>3. QED
      BY <1>1, <2>1, <2>2, SMT DEF LoadSettings
  <1>2. CASE LoadSettings(r) = {}
    BY <1>2, DefaultsAreValid, SMT DEF Started
  <1>3. CASE LoadSettings(r) # {}
    <2>1. (CHOOSE s \in LoadSettings(r) : TRUE) \in LoadSettings(r)
      BY <1>3, Zenon
    <2>2. QED
      BY <1>1, <1>3, <2>1, Zenon DEF Started
  <1>4. QED
    BY <1>2, <1>3, Zenon

(* An uplink replaces whatever was sent. *)
LEMMA ReplySent ==
  ASSUME NEW r, ReplyOk(r), Replies(r)
  PROVE  \A item \in sent' : Packed(item, uplink', active')
PROOF
  <1>1. PICK item : item = [type |-> "reply", reply |-> r]
    BY Zenon
  <1>2. item.type = "reply" /\ item.reply = r
    BY <1>1, SMT
  <1>3. sent' = {item} /\ uplink' = encoderControlPacket(r)
    BY <1>1, Zenon DEF Replies, Sends
  <1>4. QED
    BY <1>2, <1>3, SMT DEF Packed

LEMMA NothingSent ==
  ASSUME Silent
  PROVE  \A item \in sent' : Packed(item, uplink', active')
  BY SMT DEF Silent

LEMMA NothingSaved ==
  ASSUME ConsoleInv, UNCHANGED <<active, record>>
  PROVE  active' = active /\ active' \in AppSettings /\ RecordOk(record')
PROOF
  <1>1. active' = active /\ record' = record
    BY SMT
  <1>2. QED
    BY <1>1, Zenon DEF ConsoleInv

LEMMA Refused ==
  ASSUME ConsoleInv, NEW c, NEW result \in 0..6, Refuses(c, result)
  PROVE  ConsoleInv'
PROOF
  <1>1. PICK r : r = Result(c.requestId, c.type, result)
    BY Zenon
  <1>2. ReplyOk(r) /\ Replies(r)
    BY <1>1, ResultOk, Zenon DEF Refuses
  <1>3. \A item \in sent' : Packed(item, uplink', active')
    BY <1>2, ReplySent, Zenon
  <1>4. QED
    BY <1>3, NothingSaved, Zenon DEF ConsoleInv, Refuses

LEMMA Answered ==
  ASSUME ConsoleInv, NEW c, NEW sort, NEW more, Answers(c, sort, more),
         ReplyOk(Answer(more, c.requestId, c.type, sort)), active' \in AppSettings, RecordOk(record')
  PROVE  ConsoleInv'
PROOF
  <1>1. Replies(Answer(more, c.requestId, c.type, sort))
    BY Zenon DEF Answers, Answer
  <1>2. \A item \in sent' : Packed(item, uplink', active')
    BY <1>1, ReplySent, Zenon
  <1>3. QED
    BY <1>2, Zenon DEF ConsoleInv

LEMMA SettingsAccepted ==
  ASSUME ConsoleInv, NEW c, NEW proposed, acceptSettings(c, proposed)
  PROVE  ConsoleInv'
PROOF
  <1>1. CASE ~settingsValid(proposed)
    BY <1>1, CommandResults, Refused, Zenon DEF acceptSettings
  <1>2. CASE settingsValid(proposed)
    <2>1. proposed \in AppSettings
      BY <1>2, Zenon DEF settingsValid
    <2>2. CASE /\ Replies(Result(c.requestId, c.type, CommandResult.SaveFailed))
               /\ record' = [tag |-> "none", fields |-> <<>>, intact |-> FALSE]
               /\ active' = active
      <3>1. PICK r : r = Result(c.requestId, c.type, CommandResult.SaveFailed)
        BY Zenon
      <3>2. CommandResult.SaveFailed \in 0..6
        BY CommandResults, Zenon
      <3>3. ReplyOk(r) /\ Replies(r)
        BY <2>2, <3>1, <3>2, ResultOk, Zenon
      <3>4. \A item \in sent' : Packed(item, uplink', active')
        BY <3>3, ReplySent, Zenon
      <3>5. RecordOk(record')
        BY <2>2, SMT DEF RecordOk
      <3>6. QED
        BY <2>2, <3>4, <3>5, Zenon DEF ConsoleInv
    <2>3. CASE /\ record' = SaveSettings(proposed) /\ active' = proposed
               /\ Answers(c, ReplyKind.Configuration, [settings |-> proposed])
      <3>1. RecordOk(record')
        BY <2>3, SMT DEF RecordOk, SaveSettings
      <3>2. ReplyKind.Configuration = 1
        BY ReplyKinds, Zenon
      <3>3. Answers(c, 1, [settings |-> proposed])
        BY <2>3, <3>2, Zenon
      <3>4. ReplyOk(Answer([settings |-> proposed], c.requestId, c.type, 1))
        BY <2>1, SettingsAnswer, Zenon
      <3>5. QED
        BY <2>1, <2>3, <3>1, <3>3, <3>4, Answered, Zenon
    <2>4. QED
      BY <1>2, <2>2, <2>3, Zenon DEF acceptSettings
  <1>3. QED
    BY <1>1, <1>2, Zenon

LEMMA ValueAnswered ==
  ASSUME ConsoleInv, NEW c, NEW sort, (sort = 3 /\ c.type = 5) \/ (sort = 4 /\ c.type = 7),
         NEW v \in UInt32, SixDigits(v), Answers(c, sort, [value |-> v]), UNCHANGED <<active, record>>
  PROVE  ConsoleInv'
PROOF
  <1>1. ReplyOk(Answer([value |-> v], c.requestId, c.type, sort))
    BY ChallengeAnswer, Zenon
  <1>2. QED
    BY <1>1, NothingSaved, Answered, Zenon

LEMMA Challenged ==
  ASSUME ConsoleInv, NEW c, NEW sort, (sort = 3 /\ c.type = 5) \/ (sort = 4 /\ c.type = 7), Challenges(c, sort)
  PROVE  ConsoleInv'
PROOF
  <1>1. CASE Refuses(c, CommandResult.Busy)
    BY <1>1, CommandResults, Refused, Zenon
  <1>2. CASE /\ \E entropy \in {0, 899999, 2000000000} :
                  Answers(c, sort, [value |-> Halves(lwGenerateResetCode(entropy))])
             /\ UNCHANGED <<active, record>>
    <2>1. PICK entropy \in {0, 899999, 2000000000} :
            Answers(c, sort, [value |-> Halves(lwGenerateResetCode(entropy))])
      BY <1>2, SMT
    <2>2. PICK v : v = Halves(lwGenerateResetCode(entropy))
      BY SMT
    <2>3. v \in UInt32 /\ SixDigits(v)
      BY <2>1, <2>2, CodeIs, SMT
    <2>4. Answers(c, sort, [value |-> v])
      BY <2>1, <2>2, SMT
    <2>5. QED
      BY <1>2, <2>3, <2>4, ValueAnswered, SMT
  <1>3. QED
    BY <1>1, <1>2, SMT DEF Challenges

LEMMA Commanded ==
  ASSUME ConsoleInv, ConsoleAssumption, NEW c, Command(c)
  PROVE  ConsoleInv'
PROOF
  <1>1. CASE c.type = 1
    <2>1. acceptSettings(c, proposedSettings(active, c.changed))
      BY <1>1, CommandTypes, SMT DEF Command
    <2>2. QED
      BY <2>1, SettingsAccepted, Zenon
  <1>2. CASE c.type = 4
    <2>1. acceptSettings(c, settingsDefaults)
      BY <1>2, CommandTypes, SMT DEF Command
    <2>2. QED
      BY <2>1, SettingsAccepted, Zenon
  <1>3. CASE c.type = 2
    <2>1. Answers(c, ReplyKind.Configuration, [settings |-> active]) /\ UNCHANGED <<active, record>>
      BY <1>3, CommandTypes, SMT DEF Command
    <2>2. Answers(c, 1, [settings |-> active])
      BY <2>1, ReplyKinds, Zenon
    <2>3. ReplyOk(Answer([settings |-> active], c.requestId, c.type, 1))
      BY SettingsAnswer, Zenon DEF ConsoleInv
    <2>4. QED
      BY <2>1, <2>2, <2>3, NothingSaved, Answered, Zenon
  <1>4. CASE c.type = 3
    <2>1. \E s \in Statuses : Answers(c, ReplyKind.Status, [status |-> s]) /\ UNCHANGED <<active, record>>
      BY <1>4, CommandTypes, SMT DEF Command
    <2>2. PICK s \in Statuses : Answers(c, ReplyKind.Status, [status |-> s]) /\ UNCHANGED <<active, record>>
      BY <2>1, Zenon
    <2>3. s \in NodeStatus
      BY Zenon DEF ConsoleAssumption
    <2>4. Answers(c, 2, [status |-> s])
      BY <2>2, ReplyKinds, Zenon
    <2>5. ReplyOk(Answer([status |-> s], c.requestId, c.type, 2))
      BY <2>3, StatusAnswer, Zenon
    <2>6. QED
      BY <2>2, <2>4, <2>5, NothingSaved, Answered, Zenon
  <1>5. CASE c.type = 5
    <2>1. Challenges(c, ReplyKind.ResetChallenge)
      BY <1>5, CommandTypes, SMT DEF Command
    <2>2. QED
      BY <1>5, <2>1, ReplyKinds, Challenged, Zenon
  <1>6. CASE c.type = 7
    <2>1. Challenges(c, ReplyKind.RebootChallenge)
      BY <1>6, CommandTypes, SMT DEF Command
    <2>2. QED
      BY <1>6, <2>1, ReplyKinds, Challenged, Zenon
  <1>7. CASE c.type \notin {1, 2, 3, 4, 5, 7}
    <2>1. \/ \E result \in {CommandResult.Expired, CommandResult.WrongCode, CommandResult.Conflict} :
               Refuses(c, result)
          \/ Silent /\ UNCHANGED <<active, record>>
      BY <1>7, CommandTypes, SMT DEF Command
    <2>2. ASSUME NEW result \in {CommandResult.Expired, CommandResult.WrongCode, CommandResult.Conflict},
                 Refuses(c, result)
          PROVE  ConsoleInv'
      <3>1. result \in 0..6
        BY CommandResults, Zenon
      <3>2. QED
        BY <2>2, <3>1, Refused, Zenon
    <2>3. ASSUME Silent, UNCHANGED <<active, record>>
          PROVE  ConsoleInv'
      BY <2>3, NothingSent, NothingSaved, Zenon DEF ConsoleInv
    <2>4. QED
      BY <2>1, <2>2, <2>3, Zenon
  <1>8. QED
    BY <1>1, <1>2, <1>3, <1>4, <1>5, <1>6, <1>7, Zenon

LEMMA ReceivedKeeps ==
  ASSUME ConsoleInv, ConsoleAssumption, NEW b, Received(b)
  PROVE  ConsoleInv'
PROOF
  <1>1. ASSUME NEW c, Command(c)
        PROVE  ConsoleInv'
    BY <1>1, Commanded, Zenon
  <1>2. ASSUME UNCHANGED <<active, record>>,
               Replies(Result(readU16(b, 3), b[2], CommandResult.Invalid)) \/ Silent
        PROVE  ConsoleInv'
    <2>1. PICK r : r = Result(readU16(b, 3), b[2], CommandResult.Invalid)
      BY Zenon
    <2>2. ReplyOk(r)
      BY <2>1, CommandResults, ResultOk, Zenon
    <2>3. Replies(r) \/ Silent
      BY <1>2, <2>1, Zenon
    <2>4. \A item \in sent' : Packed(item, uplink', active')
      BY <2>2, <2>3, ReplySent, NothingSent, Zenon
    <2>5. QED
      BY <1>2, <2>4, NothingSaved, Zenon DEF ConsoleInv
  <1>3. QED
    BY <1>1, <1>2, Zenon DEF Received

(* A packet is on its way with the settings it was packed with. *)
LEMMA SampleSent ==
  ASSUME ConsoleInv, NEW s \in SensorSnapshot, NEW version, NEW b, UNCHANGED <<active, record>>,
         Sends([type |-> "sensor", sample |-> s, version |-> version], b),
         \/ version = 1 /\ b = payloadEncodeEnvironment(s)
         \/ version = 2 /\ b = payloadEncodeReport(s)
         \/ version = 3 /\ b = encoderSensorPacket(s, active)
  PROVE  ConsoleInv'
PROOF
  <1> DEFINE item == [type |-> "sensor", sample |-> s, version |-> version]
  <1>1. item.type = "sensor" /\ item.sample = s /\ item.version = version
    BY SMT
  <1> HIDE DEF item
  <1>2. sent' = {item} /\ uplink' = b
    BY Zenon DEF Sends, item
  <1>3. Packed(item, b, active)
    BY <1>1, Zenon DEF Packed
  <1>4. \A other \in sent' : other = item
    BY <1>2, Zenon
  <1>5. \A other \in sent' : Packed(other, uplink', active')
    BY <1>2, <1>3, <1>4, NothingSaved, Zenon
  <1>6. QED
    BY <1>5, NothingSaved, Zenon DEF ConsoleInv

LEMMA UplinkKeeps ==
  ASSUME ConsoleInv, ConsoleAssumption, Uplink
  PROVE  ConsoleInv'
PROOF
  <1>1. UNCHANGED <<active, record>> /\ (Report \/ Legacy \/ Health)
    BY Zenon DEF Uplink
  <1>2. Samples \subseteq SensorSnapshot /\ Statuses \subseteq NodeStatus
    BY Zenon DEF ConsoleAssumption
  <1>3. ASSUME Report
        PROVE  ConsoleInv'
    <2>1. PICK s \in Samples :
            Sends([type |-> "sensor", sample |-> s, version |-> 3], encoderSensorPacket(s, active))
      BY <1>3, Zenon DEF Report
    <2>2. QED
      BY <1>1, <1>2, <2>1, SampleSent, Zenon
  <1>4. ASSUME Legacy
        PROVE  ConsoleInv'
    <2>1. PICK s \in Samples :
            \/ Sends([type |-> "sensor", sample |-> s, version |-> 1], payloadEncodeEnvironment(s))
            \/ Sends([type |-> "sensor", sample |-> s, version |-> 2], payloadEncodeReport(s))
      BY <1>4, Zenon DEF Legacy
    <2>2. QED
      BY <1>1, <1>2, <2>1, SampleSent, Zenon
  <1>5. ASSUME Health
        PROVE  ConsoleInv'
    <2>1. PICK s \in Statuses :
            Replies(Extend([kind |-> ReplyKind.Status, status |-> s], Result(0, 0, CommandResult.Accepted)))
      BY <1>5, Zenon DEF Health
    <2>2. PICK r : r = Extend([kind |-> ReplyKind.Status, status |-> s], Result(0, 0, CommandResult.Accepted))
      BY Zenon
    <2>3. s \in NodeStatus
      BY <1>2, Zenon
    <2>4. ReplyOk(r) /\ Replies(r)
      BY <2>1, <2>2, <2>3, HealthOk, Zenon
    <2>5. \A item \in sent' : Packed(item, uplink', active')
      BY <2>4, ReplySent, Zenon
    <2>6. QED
      BY <1>1, <2>5, NothingSaved, Zenon DEF ConsoleInv
  <1>6. QED
    BY <1>1, <1>3, <1>4, <1>5, Zenon

LEMMA ConsoleInit_Inv == ASSUME ConsoleAssumption, ConsoleInit PROVE ConsoleInv
PROOF
  <1>1. record \in Records /\ active = Started(record) /\ sent = {}
    BY Zenon DEF ConsoleInit
  <1>2. RecordOk(record)
    BY <1>1, Zenon DEF ConsoleAssumption
  <1>3. QED
    BY <1>1, <1>2, StartedIsValid, Zenon DEF ConsoleInv

LEMMA ConsoleNext_Inv == ASSUME ConsoleAssumption, ConsoleInv, [ConsoleNext]_console PROVE ConsoleInv'
PROOF
  <1>1. ASSUME Request
        PROVE  ConsoleInv'
    <2>1. \E b : Received(b)
      BY <1>1, Zenon DEF Request
    <2>2. QED
      BY <2>1, ReceivedKeeps, Zenon
  <1>2. ASSUME Garbled
        PROVE  ConsoleInv'
    <2>1. \E b : Received(b)
      BY <1>2, Zenon DEF Garbled
    <2>2. QED
      BY <2>1, ReceivedKeeps, Zenon
  <1>3. ASSUME Listen
        PROVE  ConsoleInv'
    <2>1. Silent /\ UNCHANGED <<active, record>>
      BY <1>3, Zenon DEF Listen
    <2>2. QED
      BY <2>1, NothingSent, NothingSaved, Zenon DEF ConsoleInv
  <1>4. ASSUME Reboot
        PROVE  ConsoleInv'
    <2>1. active' = Started(record) /\ record' = record /\ Silent
      BY <1>4, Zenon DEF Reboot
    <2>2. Started(record) \in AppSettings /\ RecordOk(record)
      BY StartedIsValid, Zenon DEF ConsoleInv
    <2>3. \A item \in sent' : Packed(item, uplink', active')
      BY <2>1, NothingSent, Zenon
    <2>4. QED
      BY <2>1, <2>2, <2>3, Zenon DEF ConsoleInv
  <1>5. ASSUME UNCHANGED console
        PROVE  ConsoleInv'
    <2>1. active' = active /\ record' = record /\ sent' = sent /\ uplink' = uplink
      BY <1>5, SMT DEF console
    <2>2. QED
      BY <2>1, Zenon DEF ConsoleInv
  <1>6. QED
    BY <1>1, <1>2, <1>3, <1>4, <1>5, UplinkKeeps, Zenon DEF ConsoleNext

(* Whatever is on its way up is understood. *)
LEMMA Inv_Understood == ASSUME ConsoleInv PROVE UplinksAreUnderstood
PROOF
  <1>1. ASSUME NEW item \in sent
        PROVE  /\ "error" \notin DOMAIN Decoder(uplink, 1)
               /\ item.type = "sensor" =>
                    LET d == Decoder(uplink, 1)
                        s == item.sample
                    IN  /\ EnvironmentIsUnderstood(d, s)
                        /\ item.version >= 2 => AirQualityIsUnderstood(d, s)
                        /\ item.version = 3 => DisplaysAgree(d, printReading(s, active))
    <2>1. Packed(item, uplink, active) /\ active \in AppSettings
      BY <1>1, Zenon DEF ConsoleInv
    <2>2. CASE item.type = "reply" /\ ReplyOk(item.reply) /\ uplink = encoderControlPacket(item.reply)
      <3>1. "error" \notin DOMAIN Decoder(uplink, 1)
        BY <2>2, ReplyReaches, Zenon
      <3>2. item.type # "sensor"
        BY <2>2, SMT
      <3>3. QED
        BY <3>1, <3>2, Zenon
    <2>3. ASSUME item.sample \in SensorSnapshot, item.version = 1, uplink = payloadEncodeEnvironment(item.sample)
          PROVE  "error" \notin DOMAIN Decoder(uplink, 1) /\ EnvironmentIsUnderstood(Decoder(uplink, 1), item.sample)
      BY <2>3, EnvironmentReaches, Zenon
    <2>4. ASSUME item.sample \in SensorSnapshot, item.version = 2, uplink = payloadEncodeReport(item.sample)
          PROVE  /\ "error" \notin DOMAIN Decoder(uplink, 1) /\ EnvironmentIsUnderstood(Decoder(uplink, 1), item.sample)
                 /\ AirQualityIsUnderstood(Decoder(uplink, 1), item.sample)
      BY <2>4, ReportReaches, Zenon
    <2>5. ASSUME item.sample \in SensorSnapshot, item.version = 3, uplink = encoderSensorPacket(item.sample, active)
          PROVE  /\ "error" \notin DOMAIN Decoder(uplink, 1) /\ EnvironmentIsUnderstood(Decoder(uplink, 1), item.sample)
                 /\ AirQualityIsUnderstood(Decoder(uplink, 1), item.sample)
                 /\ DisplaysAgree(Decoder(uplink, 1), printReading(item.sample, active))
      BY <2>1, <2>5, SensorReaches, Zenon
    <2>6. (item.version = 1 => ~(item.version >= 2) /\ item.version # 3) /\ (item.version = 2 => item.version # 3)
      BY SMT
    <2>7. QED
      BY <2>1, <2>2, <2>3, <2>4, <2>5, <2>6, Zenon DEF Packed
  <1>2. QED
    BY <1>1, Zenon DEF UplinksAreUnderstood

(* Every sensor packet that the node sends, in whichever version, for any      *)
(* reading and under any settings it can come to have, decodes to that reading: *)
(* null exactly where it is not valid, else within half a step of the packet,   *)
(* shown with the unit and, up to that step, the value of the serial line; and  *)
(* Decoder rejects no reply and no health report.                              *)
THEOREM UplinksUnderstood == ConsoleSpec => []UplinksAreUnderstood
PROOF
  <1>1. ConsoleAssumption /\ ConsoleInit => ConsoleInv
    BY ConsoleInit_Inv
  <1>2. ConsoleAssumption /\ ConsoleInv /\ [ConsoleNext]_console => ConsoleInv'
    BY ConsoleNext_Inv
  <1>3. ConsoleInv => UplinksAreUnderstood
    BY Inv_Understood
  <1>4. ConsoleAssumption
    BY ConsoleAssumption
  <1>5. QED
    BY <1>1, <1>2, <1>3, <1>4, PTL DEF ConsoleSpec

(* The settings in force are valid: after a start from whatever record the     *)
(* EEPROM holds, and after every batch, default reset and failed save.         *)
THEOREM SettingsValid == ConsoleSpec => []settingsValid(active)
PROOF
  <1>1. ConsoleAssumption /\ ConsoleInit => ConsoleInv
    BY ConsoleInit_Inv
  <1>2. ConsoleAssumption /\ ConsoleInv /\ [ConsoleNext]_console => ConsoleInv'
    BY ConsoleNext_Inv
  <1>3. ConsoleInv => settingsValid(active)
    BY Zenon DEF ConsoleInv, settingsValid
  <1>4. ConsoleAssumption
    BY ConsoleAssumption
  <1>5. QED
    BY <1>1, <1>2, <1>3, <1>4, PTL DEF ConsoleSpec
=============================================================================
