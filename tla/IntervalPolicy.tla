--------------------------- MODULE IntervalPolicy ---------------------------
(***************************************************************************)
(* intervalFromHistory of scheduler_service.cpp: the report interval that    *)
(* the last hour of readings asks for, and which measurements it takes to be *)
(* available.  Readings come one per tick, newest first in past with their    *)
(* age in ticks; the notification of a reading leads to an evaluation.        *)
(*                                                                         *)
(* Values are integers on a grid fine enough that every half and quotient    *)
(* the medians form is exact; noise is compared in ten-thousandths of it.     *)
(* Scheduler takes what this module computes as any interval in range.       *)
(***************************************************************************)
EXTENDS Integers, Sequences, TLC
LOCAL INSTANCE FiniteSets
LOCAL INSTANCE FiniteSetsExt
LOCAL INSTANCE SequencesExt

CONSTANTS
  Metrics, Floors,            \* the measurements, and floors[] for each
  BinCount, BinMs,            \* BIN_COUNT bins of BIN_MS ticks
  BinSamples, Learn,          \* BIN_SAMPLES; the differences needed to judge noise
  FreshMs, AvailabilitySamples, AvailabilitySpan, AvailabilityWindow,
  Shift,                      \* the size of a lasting change, and of a spike
  Studies                     \* bounds: [kinds, events, horizon, rate, prompt], see Tick

Least(a, b)    == IF a < b THEN a ELSE b
Greatest(a, b) == IF a > b THEN a ELSE b
Magnitude(x)   == IF x < 0 THEN -x ELSE x

-----------------------------------------------------------------------------
(* The statistics.  h is a history: records [age, mask, value], newest first. *)
median_Unsorted(s) == s[Len(s) \div 2 + 1]                                \* mutant
median(s) ==
  LET v == SortSeq(s, LAMBDA x, y : x < y)
      n == Len(v)
  IN  IF n % 2 = 1 THEN v[n \div 2 + 1] ELSE (v[n \div 2] + v[n \div 2 + 1]) \div 2
Group(h, b, m) ==
  LET in == SelectSeq(h, LAMBDA r : r.age \div BinMs = b /\ m \in r.mask)
  IN  SubSeq([i \in DOMAIN in |-> in[i].value[m]], 1, Least(Len(in), BinSamples))
valid(h, b, m) == Len(Group(h, b, m)) >= 3
Upto(n) == [i \in 1..n |-> i - 1]

(* What metric m asks for, in seconds; nothing while it has not learned.      *)
Seconds(h, m) ==
  LET ok     == [b \in 0..BinCount - 1 |-> valid(h, b, m)]
      bins   == [b \in 0..BinCount - 1 |-> IF ok[b] THEN median(Group(h, b, m)) ELSE 0]
      recent == SelectSeq(Upto(3), LAMBDA b : ok[b])
      pairs  == SelectSeq(Upto(BinCount - 1), LAMBDA b : b >= 4 /\ ok[b] /\ ok[b + 1])
      deltas == [i \in DOMAIN pairs |-> bins[pairs[i]] - bins[pairs[i] + 1]]
      slope  == median(deltas)
      noise  == Greatest(10000 * Floors[m],
                         14826 * median([i \in DOMAIN deltas |-> Magnitude(deltas[i] - slope)]))
      changes == [i \in 1..Len(recent) - 1 |->
                    Magnitude(bins[recent[i]] - bins[recent[i + 1]]) \div (recent[i + 1] - recent[i])]
      based   == {b \in 3..BinCount - 1 : ok[b]}
      residuals == [i \in DOMAIN recent |->
                      LET base == Min(based)
                      IN  Magnitude(bins[recent[i]] - (bins[base] + slope * (base - recent[i])))]
      score   == Greatest(median(changes), IF based = {} THEN 0 ELSE median(residuals))
  IN  IF Len(recent) < 2 \/ Len(pairs) < Learn THEN {}
      ELSE IF 100000 * score <= noise THEN {3600}
      ELSE {Greatest(60, Least(3600, (360 * noise) \div (10000 * score)))}

(* Which measurements have been there, or away, for several fresh readings in *)
(* a row: the loop over the ring as a fold.                                   *)
Qualify_AnyGap(a, r, newest) == [a EXCEPT !.qualified = a.consistent]    \* mutant
Qualify(a, r, newest) ==
  LET span == r.age - newest.age
      same == {m \in Metrics : (m \in r.mask) = (m \in newest.mask)}
      consistent == IF r.age - a.previous > FreshMs THEN {} ELSE a.consistent \cap same
      count == [m \in Metrics |-> IF m \in consistent THEN Least(a.count[m] + 1, AvailabilitySamples)
                                  ELSE a.count[m]]
  IN  IF span > AvailabilityWindow THEN a
      ELSE [consistent |-> consistent, count |-> count, previous |-> r.age,
            qualified |-> a.qualified \cup {m \in consistent : /\ count[m] >= AvailabilitySamples
                                                               /\ span >= AvailabilitySpan}]
Qualified(h) ==
  FoldLeft(LAMBDA a, r : Qualify(a, r, h[1]),
           [consistent |-> Metrics, count |-> [m \in Metrics |-> 0], previous |-> h[1].age,
            qualified |-> {}], h).qualified

-----------------------------------------------------------------------------
VARIABLES
  study,                   \* the bounds of this behaviour
  past,                    \* the ring; the values are relative to the present level
  sinceShift,              \* history: ticks since the level shifted, or -1
  recordPending, firstSensor, availabilityMask, availabilityPending,
  target                   \* what the last evaluation returned
policy == <<study, past, sinceShift, recordPending, firstSensor, availabilityMask,
            availabilityPending, target>>

PolicyInit ==
  /\ study \in Studies
  /\ past = <<>> /\ sinceShift = -1
  /\ recordPending = FALSE /\ firstSensor = FALSE
  /\ availabilityMask = {} /\ availabilityPending = FALSE /\ target = 360

(* The level rises by study.rate in a tick.  At most study.events readings of  *)
(* the past are lost or odd, study.horizon ticks are remembered, and a prompt   *)
(* study evaluates every reading.  Time passes, and with it, or not, comes a    *)
(* reading: complete, partial (only the first metric), a spike, or the first    *)
(* at a new level.                                                            *)
Moved(by) == SelectSeq([i \in DOMAIN past |-> [past[i] EXCEPT !.age = @ + 1, !.value[1] = @ - by]],
                       LAMBDA r : r.age < study.horizon)
Reading(kind) == [age |-> 0, mask |-> IF kind = "partial" THEN {1} ELSE Metrics, spike |-> kind = "spike",
                  value |-> [m \in Metrics |-> IF m = 1 /\ kind = "spike" THEN Shift ELSE 0]]
Lost   == IF past = <<>> THEN 0 ELSE past[Len(past)].age + 1 - Len(past)
Spikes == {i \in DOMAIN past : past[i].spike}
Odd    == Lost + Cardinality(Spikes) + (IF sinceShift = -1 THEN 0 ELSE 1)
Tick ==
  \E kind \in study.kinds \cup {"full"} :
    /\ ~recordPending \/ ~study.prompt
    /\ kind \notin {"full", "partial"} => Odd < study.events
    /\ kind = "shift" => sinceShift = -1
    /\ sinceShift' = IF kind = "shift" THEN 0
                     ELSE IF sinceShift = -1 \/ sinceShift = study.horizon THEN -1 ELSE sinceShift + 1
    /\ LET moved == Moved(study.rate + (IF kind = "shift" THEN Shift ELSE 0))
       IN  IF kind = "lost" THEN past' = moved /\ recordPending' = recordPending
           ELSE past' = <<Reading(kind)>> \o moved /\ recordPending' = TRUE
    /\ UNCHANGED <<study, firstSensor, availabilityMask, availabilityPending, target>>

Evaluate ==
  /\ recordPending /\ past # <<>>
  /\ LET newest    == past[1].mask
         qualified == IF firstSensor THEN Qualified(past) ELSE {}
         after     == (availabilityMask \ qualified) \cup (newest \cap qualified)
         changed   == after # availabilityMask
         asked     == UNION {Seconds(past, m) : m \in Metrics}
     IN  /\ availabilityMask' = after
         /\ availabilityPending' = (availabilityPending \/ changed)
         /\ target' = IF asked = {} THEN 360 ELSE IF changed THEN Least(Min(asked), 360) ELSE Min(asked)
  /\ recordPending' = FALSE
  /\ UNCHANGED <<study, past, sinceShift, firstSensor>>

(* A sensor report was sent; the first says that everything is available.     *)
ReportSent ==
  /\ past # <<>> /\ (~firstSensor => past[1].mask = Metrics)
  /\ availabilityMask' = IF firstSensor THEN availabilityMask ELSE Metrics
  /\ firstSensor' = TRUE /\ availabilityPending' = FALSE
  /\ UNCHANGED <<study, past, sinceShift, recordPending, target>>

PolicyNext == Tick \/ Evaluate \/ ReportSent

-----------------------------------------------------------------------------
(* A measurement counts as gone, or as back, when enough consecutive readings *)
(* agree over enough time with no stale gap between them, and then always;    *)
(* a single odd reading or a pause changes nothing.                          *)
Settled(m) ==
  \E k \in AvailabilitySamples..Len(past) :
    /\ past[k].age - past[1].age \in AvailabilitySpan..AvailabilityWindow
    /\ \A i \in 1..k : (m \in past[i].mask) = (m \in past[1].mask)
    /\ \A i \in 2..k : past[i].age - past[i - 1].age <= FreshMs
ReadinessIsDebounced ==
  [][ recordPending /\ ~recordPending' /\ firstSensor =>
        /\ availabilityMask' = {m \in Metrics : IF Settled(m) THEN m \in past[1].mask
                                                ELSE m \in availabilityMask}
        /\ availabilityMask' # availabilityMask => availabilityPending' /\ target' <= 360 ]_policy

(* Isolated spikes, on a level or on a steady rise, never ask for reports more *)
(* often than every six minutes; a change that lasts two bins asks for the    *)
(* shortest interval as long as the history before it is there to compare.    *)
Isolated  == \A i, j \in Spikes : i < j => past[j].age - past[i].age >= BinMs
Evaluated == ~recordPending /\ past # <<>>
OnlySustainedChangesCount ==
  Evaluated /\ Isolated =>
    /\ sinceShift = -1 => target >= 360
    /\ (sinceShift \in 2 * BinMs..3 * BinMs - 1 /\ Len(past) = BinCount * BinMs) => target = 60
=============================================================================
