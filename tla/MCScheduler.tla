---------------------------- MODULE MCScheduler ----------------------------
(* Minutes of one or three, a base interval of two and a longest of three.   *)
EXTENDS Scheduler
=============================================================================
