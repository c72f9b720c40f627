-------------------------- MODULE MCSensorService ---------------------------
(* Calibration states up to four: stored, in the save, pending, to come.  The  *)
(* raw backend's clock of nine ticks is just longer than a rest and a pause.   *)
EXTENDS SensorService
=============================================================================
