----------------------------- MODULE Scheduler -----------------------------
(***************************************************************************)
(* schedulerPoll of scheduler_service.cpp and encoderTransmit: which report *)
(* is sent when.  Time counts in units of SCHEDULER_MIN_MS, and deadlines   *)
(* are kept as ages (now - anchor), capped where they stop to matter.       *)
(*                                                                         *)
(* The worker may replace the latest reading between the choice of a       *)
(* report and its encoding; the radio comes and goes; a transaction lasts  *)
(* and may fail, be MAC-only, or bring a downlink.  What the history makes *)
(* of the interval (intervalFromHistory) is any value in its range.        *)
(***************************************************************************)
EXTENDS Integers

CONSTANTS Base, Longest,    \* SCHEDULER_BASE_MS, SCHEDULER_MAX_MS; SCHEDULER_MIN_MS is 1
          RetryMax,         \* 300000: the longest retry delay
          Minutes,          \* values of intervalMinutes
          Long,             \* bound on the time a transaction takes
          MaxReplies        \* bound on the control replies that wait

ASSUME SchedulerAssumption ==
  /\ Base \in Nat \ {0} /\ Longest \in Nat /\ Base <= Longest /\ RetryMax \in Nat \ {0}
  /\ Minutes \subseteq 1..Longest /\ Minutes # {} /\ Long \in Nat /\ MaxReplies \in Nat

VARIABLES
  pc,              \* poll, encode (a kind is chosen), receive (a downlink has come)
  kind,            \* the chosen ReportKind
  ready,           \* lwServiceReady()
  latest,          \* storageLatestSnapshot: none, partial or full (mask 0x7F)
  recordPending,
  replies,         \* control replies that wait in the manager's queue
  settings,        \* [mode, minutes]
  learned, firstSensor, attempted, retryPending, freshInterval, haveEvaluation,
  availabilityPending,
  interval, blockedFor, retryFor,
  sinceFirst,      \* age of firstReading, up to Base; -1 without one
  sinceAttempt, sinceReport, sinceHealth, sinceBlocked, sinceEvaluation,  \* ages of the anchors
  sinceReset,      \* history: age of the last interval set outright, up to Longest - Base
  sinceSent,       \* history: age of the last sensor or health report that was sent
  slotGap,         \* history: what sinceSent was at that moment
  firstMask        \* history: what the first sensor report held, or none

flags   == <<learned, firstSensor, attempted, retryPending, freshInterval, haveEvaluation,
             availabilityPending>>
timing  == <<interval, blockedFor, retryFor>>
ages    == <<sinceFirst, sinceAttempt, sinceReport, sinceHealth, sinceBlocked, sinceEvaluation>>
history == <<sinceReset, sinceSent, slotGap, firstMask>>
world   == <<ready, latest, recordPending, replies>>
vars    == <<pc, kind, ready, latest, recordPending, replies, settings, learned, firstSensor,
             attempted, retryPending, freshInterval, haveEvaluation, availabilityPending, interval,
             blockedFor, retryFor, sinceFirst, sinceAttempt, sinceReport, sinceHealth, sinceBlocked,
             sinceEvaluation, sinceReset, sinceSent, slotGap, firstMask>>

Least(a, b)    == IF a < b THEN a ELSE b
Greatest(a, b) == IF a > b THEN a ELSE b
Older(age, k, bound) == Least(age + k, bound)
Dynamic == settings.mode = "Dynamic"

(* schedulerStart. *)
Init ==
  /\ pc = "poll" /\ kind = "Health"
  /\ ready = FALSE /\ latest = "none" /\ recordPending = FALSE /\ replies = 0
  /\ settings \in [mode : {"Dynamic", "Fixed"}, minutes : Minutes]
  /\ learned = FALSE /\ firstSensor = FALSE /\ attempted = FALSE /\ retryPending = FALSE
  /\ freshInterval = FALSE /\ haveEvaluation = FALSE /\ availabilityPending = FALSE
  /\ interval = Base /\ blockedFor = 0 /\ retryFor = 1
  /\ sinceFirst = -1 /\ sinceAttempt = 1 /\ sinceReport = 0 /\ sinceHealth = 0
  /\ sinceBlocked = 0 /\ sinceEvaluation = 0
  /\ sinceReset = 0 /\ sinceSent = Longest /\ slotGap = Longest /\ firstMask = "none"

-----------------------------------------------------------------------------
(* The worker commits a reading and notifies, or readings stop to be fresh.  *)
Sense == /\ latest' \in {"none", "partial", "full"} \ {latest}
         /\ recordPending' = (recordPending \/ latest' # "none")
         /\ sinceFirst' = IF sinceFirst = -1 /\ latest' # "none" THEN 0 ELSE sinceFirst
         /\ UNCHANGED <<pc, kind, ready, replies, settings, flags, timing, sinceAttempt,
                        sinceReport, sinceHealth, sinceBlocked, sinceEvaluation, history>>

(* A join succeeds, or a session is lost. *)
Radio == /\ pc = "poll"
         /\ ready' = ~ready
         /\ UNCHANGED <<pc, kind, latest, recordPending, replies, settings, flags, timing, ages,
                        sinceReset, sinceSent, slotGap, firstMask>>

Elapse(k) == /\ sinceFirst' = IF sinceFirst = -1 THEN -1 ELSE Older(sinceFirst, k, Base)
             /\ sinceEvaluation' = Older(sinceEvaluation, k, Longest)
             /\ sinceReset' = Older(sinceReset, k, Longest - Base)
Tick == /\ pc = "poll"
        /\ Elapse(1)
        /\ sinceAttempt' = Older(sinceAttempt, 1, 1)
        /\ sinceReport' = Older(sinceReport, 1, Longest) /\ sinceHealth' = Older(sinceHealth, 1, Longest)
        /\ sinceBlocked' = Older(sinceBlocked, 1, RetryMax)
        /\ sinceSent' = Older(sinceSent, 1, Longest)
        /\ UNCHANGED <<pc, kind, world, settings, flags, timing, slotGap, firstMask>>

-----------------------------------------------------------------------------
(* schedulerPoll up to the handoff: first what it learns from the history.   *)
Lower(elapsed) == interval \div (2 ^ elapsed)
Upper_Notified(elapsed) == Least(Longest, interval + 1)                 \* mutant
Upper(elapsed) == Least(Longest, interval + elapsed)
Learn == learned' = (learned \/ sinceFirst = Base)
Evaluate ==
  /\ recordPending' = FALSE
  /\ \/ /\ ~Dynamic
        /\ interval' = settings.minutes
        /\ UNCHANGED <<haveEvaluation, availabilityPending, sinceEvaluation>>
     \/ /\ Dynamic /\ ~recordPending
        /\ UNCHANGED <<interval, haveEvaluation, availabilityPending, sinceEvaluation>>
     \/ /\ Dynamic /\ recordPending
        /\ LET elapsed == IF haveEvaluation THEN sinceEvaluation ELSE 0
           IN \E policy \in 1..Upper(elapsed), changed \in {FALSE, firstSensor} :
                 /\ policy >= Lower(elapsed)
                 /\ availabilityPending' = (availabilityPending \/ changed)
                 /\ interval' = IF ~firstSensor THEN interval
                                ELSE IF availabilityPending' THEN Least(policy, Base) ELSE policy
        /\ sinceEvaluation' = 0 /\ haveEvaluation' = TRUE

(* Then whether a report is due, and which one.                              *)
MayAttempt == /\ ready
              /\ ~attempted \/ sinceAttempt >= 1
              /\ blockedFor = 0 \/ sinceBlocked >= blockedFor
FirstSensorDue == /\ ~firstSensor /\ learned' /\ latest = "full"
                  /\ (~freshInterval /\ Dynamic) \/ sinceReport >= interval'
HealthDue == sinceHealth >= (IF Dynamic THEN Base ELSE interval')
SensorDue_RetryOnly == retryPending                                     \* mutant
SensorDue == retryPending \/ sinceReport >= interval'
Due(k) ==
  /\ MayAttempt
  /\ CASE k = "Control" -> replies > 0
       [] k = "Health"  -> /\ replies = 0 /\ ~FirstSensorDue
                           /\ ~firstSensor \/ latest = "none"
                           /\ HealthDue
       [] k = "Sensor"  -> /\ replies = 0
                           /\ \/ FirstSensorDue
                              \/ firstSensor /\ latest # "none" /\ SensorDue

Kinds == {"Sensor", "Health", "Control"}
Poll ==
  /\ pc = "poll"
  /\ Learn /\ Evaluate
  /\ \/ /\ \A k \in Kinds : ~Due(k)
        /\ UNCHANGED <<pc, kind, ready, blockedFor, sinceBlocked>>
     \/ \E k \in Kinds :
          /\ Due(k)
          /\ \/ pc' = "encode" /\ kind' = k /\ UNCHANGED <<ready, blockedFor, sinceBlocked>>
             \/ \* lwServiceWait: not yet, or the radio cools down instead
                /\ blockedFor' = 1 /\ sinceBlocked' = 0 /\ ready' \in BOOLEAN
                /\ UNCHANGED <<pc, kind>>
  /\ UNCHANGED <<latest, replies, settings, firstSensor, attempted, retryPending, freshInterval,
                 retryFor, sinceFirst, sinceAttempt, sinceReport, sinceHealth, history>>

-----------------------------------------------------------------------------
(* encoderTransmit reads the latest sample again; what it cannot encode is    *)
(* an error without a transmission.                                          *)
Encodable_AnyMask == kind # "Sensor" \/ latest # "none"                 \* mutant
Encodable == kind # "Sensor" \/ (latest # "none" /\ (firstSensor \/ latest = "full"))

Attempt(k) == /\ pc = "encode"
              /\ attempted' = TRUE /\ sinceAttempt' = Least(k, 1)
              /\ Elapse(k)
              /\ UNCHANGED <<settings, learned, haveEvaluation, interval, recordPending, latest, kind>>

(* The report was sent; the anchors are set to the start of the poll.        *)
HealthTakesSlot_Never == FALSE                                          \* mutant
HealthTakesSlot == ~Dynamic
Delivered ==
  \E k \in 0..Long :
    /\ Attempt(k) /\ Encodable
    /\ retryFor' = 1 /\ retryPending' = FALSE /\ blockedFor' = 0
    /\ sinceBlocked' = Older(sinceBlocked, k, RetryMax)
    /\ firstSensor' = (firstSensor \/ kind = "Sensor")
    /\ firstMask' = IF ~firstSensor /\ kind = "Sensor" THEN latest ELSE firstMask
    /\ freshInterval' = (freshInterval /\ kind # "Sensor")
    /\ availabilityPending' = (availabilityPending /\ kind # "Sensor")
    /\ sinceHealth' = IF kind # "Control" THEN Least(k, Longest) ELSE Older(sinceHealth, k, Longest)
    /\ sinceReport' = IF kind = "Sensor" \/ (kind = "Health" /\ HealthTakesSlot)
                      THEN Least(k, Longest) ELSE Older(sinceReport, k, Longest)
    /\ IF kind = "Control" THEN UNCHANGED slotGap /\ sinceSent' = Older(sinceSent, k, Longest)
       ELSE slotGap' = sinceSent /\ sinceSent' = Least(k, Longest)
    /\ replies' = IF kind = "Control" THEN replies - 1 ELSE replies
    /\ pc' \in {"poll", "receive"}
    /\ ready' = ready

(* It was not: not encoded, MAC commands alone (macOnly), or an error.        *)
Doubled == Least(RetryMax, 2 * retryFor)
Undelivered ==
  \E k \in 0..Long :
    /\ Attempt(k)
    /\ \/ /\ ~Encodable /\ k = 0
          /\ blockedFor' = retryFor /\ retryFor' = Doubled
          /\ pc' = "poll" /\ ready' = ready
       \/ /\ Encodable                              \* an error
          /\ blockedFor' = retryFor /\ retryFor' = Doubled
          /\ pc' = "poll" /\ ready' \in BOOLEAN
       \/ /\ Encodable                              \* MAC commands only
          /\ blockedFor' = 1 /\ retryFor' = retryFor
          /\ pc' \in {"poll", "receive"} /\ ready' = ready
    /\ sinceBlocked' = 0
    /\ retryPending' = (retryPending \/ kind = "Sensor")
    /\ sinceReport' = Older(sinceReport, k, Longest) /\ sinceHealth' = Older(sinceHealth, k, Longest)
    /\ sinceSent' = Older(sinceSent, k, Longest)
    /\ UNCHANGED <<replies, firstSensor, firstMask, freshInterval, availabilityPending, slotGap>>

(* receiveCommand: a reply may be queued, and settings may change on the way  *)
(* (schedulerSettingsChanged).                                               *)
SettingsChanged(new) ==
  /\ settings' = new
  /\ IF new = settings
     THEN UNCHANGED <<interval, sinceReport, sinceHealth, retryPending, freshInterval, blockedFor,
                      recordPending, haveEvaluation, sinceReset, slotGap, sinceSent>>
     ELSE /\ interval' = IF new.mode = "Fixed" THEN new.minutes ELSE Base
          /\ sinceReport' = 0 /\ sinceHealth' = 0
          /\ retryPending' = FALSE /\ freshInterval' = TRUE /\ blockedFor' = 0
          /\ recordPending' = TRUE /\ haveEvaluation' = FALSE
          /\ sinceReset' = 0 /\ slotGap' = Longest /\ sinceSent' = Longest
Receive ==
  /\ pc = "receive" /\ pc' = "poll"
  /\ \E new \in [mode : {"Dynamic", "Fixed"}, minutes : Minutes] :
       /\ SettingsChanged(new)
       /\ replies' \in {replies, replies + 1}
       /\ replies' <= MaxReplies /\ (new # settings => replies' > replies)
  /\ UNCHANGED <<kind, ready, latest, learned, firstSensor, attempted, availabilityPending, retryFor,
                 sinceFirst, sinceAttempt, sinceBlocked, sinceEvaluation, firstMask>>

Next == Sense \/ Radio \/ Tick \/ Poll \/ Delivered \/ Undelivered \/ Receive
Spec == Init /\ [][Next]_vars

(* The main loop runs forever, and time with it; lwServiceWait does not put   *)
(* an attempt off forever, as the airtime it waits for becomes available.     *)
Handoff  == Poll /\ pc' = "encode"
FairSpec == /\ Spec
            /\ WF_vars(Tick) /\ SF_vars(Handoff)
            /\ WF_vars(Delivered \/ Undelivered) /\ WF_vars(Receive)

-----------------------------------------------------------------------------
(* The first sensor report establishes that all seven fields are available:   *)
(* it is sent after six minutes of readings and holds a complete one, even    *)
(* when the worker replaces the reading between the choice and the encoding.  *)
FirstReportIsComplete == firstSensor => firstMask = "full" /\ sinceFirst = Base

(* In Fixed mode two reports that were sent are an interval apart at least,   *)
(* across retries, lost readings, health reports and the first sensor report. *)
FixedSlotsAreKept == ~Dynamic => slotGap >= interval

(* In Dynamic mode the interval grows no faster than time since it was last   *)
(* set outright, however often the worker notifies, and neither it nor the    *)
(* backoff of a retry leaves its limits.                                      *)
IntervalFollowsTime == /\ Dynamic => interval <= Base + sinceReset /\ interval <= Longest
                       /\ interval >= 1 /\ retryFor <= RetryMax

(* With the radio there, a complete reading and no control traffic, sensor    *)
(* reports are attempted again and again.                                    *)
ReportsAreAttempted ==
  <>[](ready /\ latest = "full" /\ replies = 0) => []<>(pc = "encode" /\ kind = "Sensor")
=============================================================================
