----------------------------- MODULE RawSensor ------------------------------
(***************************************************************************)
(* The sensor without BSEC: sensorPoll of the main thread drives a cycle of   *)
(* begin, trigger, fetch and cooldown (sensor_service.cpp, raw backend).  A   *)
(* blocking radio call can keep it away, so a reading is collected late and    *)
(* must still carry the time at which it was measured, by millis(), which      *)
(* wraps, and by an uptime that is summed from poll to poll.                   *)
(*                                                                         *)
(* True time runs in a circle of two wraps, in which no two times that are     *)
(* compared are further apart than one.                                       *)
(***************************************************************************)
EXTENDS Integers

CONSTANTS Wrap,                \* of millis()
          Interval,            \* SAMPLE_INTERVAL_MS
          Conversion, Grace,   \* gMeasurementWaitMs, DATA_READY_GRACE_MS
          Rest,                \* 60 s after a failure
          MaxPause             \* bound: between two polls

ASSUME RawAssumption ==
  /\ Conversion \in Nat /\ Interval \in Nat /\ Grace \in Nat /\ MaxPause \in Nat
  /\ Rest \in Nat /\ Wrap \in Nat /\ Wrap > Rest + MaxPause /\ Wrap > Conversion + Grace + MaxPause

VARIABLES
  sensorState,                 \* gSensorState: Stopped, Start, Wait, Cooldown
  present, measuring,          \* gSensorPresent, gMeasurementPending
  measurementStarted,          \* gMeasurementStartedMs
  latest,                      \* gLatestSample: its millis and uptime, and in truth; or NoSample
  cycleStarted, cycleWait,     \* gCycleStartedMs, gCycleWaitMs
  uptimeTick, uptime,          \* gUptimeTick, gUptimeMs
  now, sincePoll,              \* true time, and since the last poll
  measured, sinceFailure,      \* history: when the measurement is complete; age of the last failure
  hurried                      \* history: a cycle began before the rest was over

raw == <<sensorState, present, measuring, measurementStarted, latest, cycleStarted, cycleWait,
         uptimeTick, uptime, now, sincePoll, measured, sinceFailure, hurried>>

NoReading == [ms |-> 0, uptime |-> 0, measured |-> 0, have |-> FALSE]
Circle(t) == t % (2 * Wrap)
millis == now % Wrap
Elapsed(since) == (millis - since) % Wrap

(* sensorStart at a boot.                                                     *)
RawInit ==
  /\ sensorState = "Start" /\ present = FALSE /\ measuring = FALSE /\ measurementStarted = 0
  /\ latest = NoReading /\ cycleStarted = 0 /\ cycleWait = Interval /\ uptimeTick = 0 /\ uptime = 0
  /\ now = 0 /\ sincePoll = 0 /\ measured = 0 /\ sinceFailure = Rest /\ hurried = FALSE
RawBoot ==
  /\ sensorState' = "Start" /\ present' = FALSE /\ measuring' = FALSE /\ measurementStarted' = 0
  /\ latest' = NoReading /\ cycleStarted' = 0 /\ cycleWait' = Interval /\ uptimeTick' = 0 /\ uptime' = 0
  /\ now' = 0 /\ sincePoll' = 0 /\ measured' = 0 /\ sinceFailure' = Rest /\ hurried' = FALSE

RawTick ==
  /\ sincePoll < MaxPause /\ sincePoll' = sincePoll + 1 /\ now' = Circle(now + 1)
  /\ sinceFailure' = IF sinceFailure < Rest THEN sinceFailure + 1 ELSE Rest
  /\ UNCHANGED <<sensorState, present, measuring, measurementStarted, latest, cycleStarted, cycleWait,
                 uptimeTick, uptime, measured, hurried>>

-----------------------------------------------------------------------------
(* sensorBackendPoll: one action for each way through it.                    *)
sensorUptimeMs == Circle(uptime + Elapsed(uptimeTick))
Polled == /\ sensorState # "Stopped" /\ uptime' = sensorUptimeMs /\ uptimeTick' = millis
          /\ sincePoll' = 0 /\ now' = now
RestFrom == millis
Fails(next) ==         \* sensorFailure and its equals, then a minute's cooldown
  /\ present' = FALSE /\ measuring' = FALSE /\ latest' = NoReading
  /\ cycleStarted' = RestFrom /\ cycleWait' = Rest /\ sensorState' = next /\ sinceFailure' = 0
  /\ UNCHANGED <<measurementStarted, measured>>

Rests == /\ Polled /\ sensorState = "Cooldown" /\ Elapsed(cycleStarted) < cycleWait
         /\ UNCHANGED <<sensorState, present, measuring, measurementStarted, latest, cycleStarted,
                        cycleWait, measured, sinceFailure, hurried>>
CycleDue == \/ sensorState = "Start"
            \/ sensorState = "Cooldown" /\ Elapsed(cycleStarted) >= cycleWait
StartCycle ==          \* sensorBegin unless present, then sensorTrigger
  /\ Polled /\ CycleDue /\ hurried' = (hurried \/ sinceFailure < Rest)
  /\ \/ /\ sensorState' = "Wait" /\ present' = TRUE /\ measuring' = TRUE
        /\ measurementStarted' = millis /\ measured' = Circle(now + Conversion)
        /\ cycleStarted' = millis /\ latest' = IF present THEN latest ELSE NoReading
        /\ UNCHANGED <<cycleWait, sinceFailure>>
     \/ Fails("Cooldown")
AwaitData ==           \* sensorFetch returns false and leaves the measurement pending
  /\ Polled /\ sensorState = "Wait" /\ (present => Elapsed(measurementStarted) < Conversion + Grace)
  /\ UNCHANGED <<sensorState, present, measuring, measurementStarted, latest, cycleStarted, cycleWait,
                 measured, sinceFailure, hurried>>
AfterFetch_Waits == "Wait"                                              \* mutant
AfterFetch == "Cooldown"
Collects == Polled /\ sensorState = "Wait" /\ present /\ Elapsed(measurementStarted) >= Conversion
FetchFailed ==         \* the bus, or no fresh data within the grace
  Collects /\ Fails(AfterFetch) /\ hurried' = hurried

(* sensorFetch: from the two clocks of now to those of the measurement; then   *)
(* storageAppend.  The cycle is paced from its start.                          *)
CompletedAt_Collected == Circle(sensorUptimeMs)                         \* mutant
CompletedAt == Circle(sensorUptimeMs - Elapsed(measurementStarted) + Conversion)
Collect ==
  /\ Collects /\ measuring' = FALSE /\ sensorState' = "Cooldown" /\ cycleWait' = Interval
  /\ latest' = [ms |-> (measurementStarted + Conversion) % Wrap, uptime |-> CompletedAt,
                measured |-> measured, have |-> TRUE]
  /\ UNCHANGED <<present, measurementStarted, cycleStarted, measured, sinceFailure, hurried>>

RawPoll == Rests \/ StartCycle \/ AwaitData \/ FetchFailed
RawStop ==             \* sensorStop
  /\ sensorState' = "Stopped" /\ measuring' = FALSE
  /\ UNCHANGED <<present, measurementStarted, latest, cycleStarted, cycleWait, uptimeTick, uptime, now,
                 sincePoll, measured, sinceFailure, hurried>>

-----------------------------------------------------------------------------
(* However late it is collected and whatever wraps in between, a reading is     *)
(* published with the time at which its measurement was complete, by both       *)
(* clocks; and after a failure the bus is left alone for the whole rest.        *)
RawReadingsAreTimely ==
  /\ latest.have => latest.ms = latest.measured % Wrap /\ latest.uptime = latest.measured
  /\ ~hurried
=============================================================================
