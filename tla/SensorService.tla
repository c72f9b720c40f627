--------------------------- MODULE SensorService ----------------------------
(***************************************************************************)
(* The sensor facade of sensor_service.cpp over its two backends, of which a   *)
(* build has one: sensorStart at a boot, sensorPoll while the manager runs,    *)
(* sensorStop before a reset, for a worker thread that must first leave its    *)
(* step and for a raw cycle that the main thread itself drives.  A build       *)
(* without a sensor behaves as a worker that could not be started.            *)
(***************************************************************************)
EXTENDS SensorWorker, RawSensor

VARIABLE build                 \* Bsec or Raw
service == <<vars, raw, build>>

ServiceInit == /\ Init /\ RawInit /\ build \in {"Bsec", "Raw"}
               /\ build = "Raw" => ~started

(* What the two share: the manager, the EEPROM, the ring.                     *)
InBsec == build = "Bsec" /\ UNCHANGED <<raw, build>>
WorkerSteps == InBsec /\ (Tick \/ Worker \/ Take \/ Save \/ SaveFails \/ Retry)
RawPolls == /\ mpc = "poll"
            /\ \/ RawPoll /\ UNCHANGED ring
               \/ Collect /\ ring' = TRUE
InRaw == /\ build = "Raw"
         /\ UNCHANGED <<worker, savePending, save, main, started, stopRequested, stored, exported, build>>
RawSteps == InRaw /\ (RawPolls \/ (RawTick /\ UNCHANGED ring))
SensorStops == /\ SensorStop /\ UNCHANGED build
               /\ IF build = "Raw" THEN RawStop ELSE UNCHANGED raw
Resets == (Confirm \/ Erase \/ EraseFails) /\ UNCHANGED <<raw, build>>
BootsRaw == RawBoot /\ (build = "Raw" => ~started') /\ UNCHANGED build
Boots == (Reboot \/ Restart \/ PowerLoss) /\ BootsRaw
ServiceNext == WorkerSteps \/ RawSteps \/ SensorStops \/ Resets \/ Boots

(* Both threads are scheduled, the manager steps a reset that is pending, and time *)
(* passes; an EEPROM that is written again and again does not fail forever.     *)
ServiceSpec ==
  /\ ServiceInit /\ [][ServiceNext]_service
  /\ WF_service(InBsec /\ Tick) /\ WF_service(InBsec /\ Worker)
  /\ WF_service(InBsec /\ Take) /\ WF_service(InBsec /\ (Save \/ SaveFails))
  /\ SF_service(InBsec /\ Save) /\ WF_service(InBsec /\ Retry)
  /\ WF_service(InRaw /\ RawPolls) /\ WF_service(InRaw /\ RawTick /\ UNCHANGED ring)
  /\ WF_service(SensorStops) /\ WF_service(Reboot /\ BootsRaw)

-----------------------------------------------------------------------------
(* The raw cycle never hangs: a measurement that fails in any way is given up,  *)
(* and a rest ends in another attempt, for as long as the sensor is not stopped. *)
AcquisitionGoesOn ==
  /\ sensorState = "Wait" ~> sensorState # "Wait"
  /\ sensorState = "Cooldown" ~> sensorState # "Cooldown" \/ sinceFailure = 0
=============================================================================
