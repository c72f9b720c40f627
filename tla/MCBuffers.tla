----------------------------- MODULE MCBuffers -----------------------------
(* The two bounded buffers of the main loop.  They share nothing: a behaviour  *)
(* explores one of them, as buffer says, while the other is at rest.  Four     *)
(* lines, one slot reserved, of ERROR, WARN, INFO and DEBUG; and a ring of two *)
(* records that live three ticks, on a clock of six.                          *)
EXTENDS LogQueue, HistoryRing

VARIABLE buffer

LogAtRest == /\ queue = <<>> /\ level = 3 /\ ready = TRUE /\ noticePending = FALSE
             /\ backpressured = FALSE /\ state = "Idle" /\ writes = 0 /\ open = FALSE /\ cut = FALSE

BuffersInit == /\ buffer \in {"log", "ring"} /\ RingInit
               /\ IF buffer = "log" THEN Init ELSE LogAtRest
OfLog(A)  == buffer = "log" /\ A /\ UNCHANGED <<buffer, ringVars>>
OfRing(A) == buffer = "ring" /\ A /\ UNCHANGED <<buffer, vars>>
BuffersNext == OfLog(Next) \/ OfRing(RingNext)

(* The fairness of FairSpec and of FairRingSpec. *)
allVars == <<buffer, vars, ringVars>>
BuffersSpec ==
  /\ BuffersInit /\ [][BuffersNext]_allVars
  /\ WF_allVars(OfLog(Begin)) /\ WF_allVars(OfLog(Notice)) /\ WF_allVars(OfLog(Byte))
  /\ WF_allVars(OfRing(Admit \/ Commit \/ Notify))
  /\ WF_allVars(OfRing(Exchange \/ ReadGeneration \/ ReadClock \/ Count \/ Read \/ Judge))
=============================================================================
