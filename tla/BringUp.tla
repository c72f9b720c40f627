------------------------------ MODULE BringUp ------------------------------
(***************************************************************************)
(* Bring-up as appSetup orders it: no radio call before the clock has been    *)
(* verified, and a clock that fails its check leaves the node in a fault with  *)
(* the radio stopped.  Storage, sensor and scheduler, started in between, are  *)
(* modelled elsewhere; storage can refuse.                                    *)
(***************************************************************************)
EXTENDS ClockCheck, RadioPin

VARIABLE state                 \* the manager's: Starting, Running, Fault
vars == <<clock, pin, state>>

Init == ClockInit /\ PinInit /\ state = "Starting"

ManagerFault ==
  /\ state = "Starting" /\ cpc = "done" /\ ~verified /\ state' = "Fault"
  /\ UNCHANGED <<clock, pin>>
(* From here on the counters of the check are not followed any further.       *)
LwServiceStart ==
  /\ state = "Starting" /\ cpc = "done" /\ verified /\ state' = "Running" /\ rpc' = "init"
  /\ rtc' = 0 /\ phase' = 0 /\ stimer' = 0 /\ start' = NoSample /\ reads' = 0 /\ polls' = 0
  /\ waited' = 0 /\ attempt' = 1 /\ disturbed' = {} /\ pauses' = 0
  /\ UNCHANGED <<cpc, rate, registers, rtcSpeed, verified, irq, edge, pad, handler, created, healthy,
                 failed, stale, attempts, reported>>

(* A fault of either kind is only logged from then on.                        *)
Faulted == /\ state = "Fault" \/ rpc = "fault"
           /\ UNCHANGED vars

Next ==
  \/ ClockNext /\ UNCHANGED <<pin, state>>
  \/ ManagerFault \/ LwServiceStart
  \/ PinNext /\ UNCHANGED <<clock, state>>
  \/ Faulted

(* The main thread goes on; RadioLib's calls are bounded, so windows close.    *)
FairSpec ==
  /\ Init /\ [][Next]_vars
  /\ WF_vars(ClockStep /\ UNCHANGED <<pin, state>>) /\ WF_vars(ManagerFault \/ LwServiceStart)
  /\ WF_vars(PinStep /\ UNCHANGED <<clock, state>>)

-----------------------------------------------------------------------------
(* However the RTC, STIMER, a preemption, the radio or its pin behave, the     *)
(* start comes to an end: the radio is initialized, or a fault is reported.    *)
BringUpEnds == <>(state = "Fault" \/ rpc \in {"ready", "fault"})
=============================================================================
