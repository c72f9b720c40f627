---------------------------- MODULE HistoryRing ----------------------------
(***************************************************************************)
(* The one-hour ring of storage_service.cpp between its two threads: the   *)
(* acquisition worker appends readings and notifies the scheduler, and     *)
(* schedulerPoll on the main thread walks the ring record by record        *)
(* (intervalFromHistory) while the worker goes on.  Only single calls of   *)
(* the storage interface hold the mutex: the generation tells the walk     *)
(* that a record was committed meanwhile.                                  *)
(***************************************************************************)
EXTENDS Integers, Sequences

CONSTANTS Wrap,        \* 2^32: millis() counts modulo Wrap
          Capacity,    \* STORAGE_CAPACITY
          HistoryMs,   \* STORAGE_HISTORY_MS, the span of the bins as well
          FreshMs,     \* STORAGE_FRESH_MS
          MaxPause,    \* bound on the time between two calls that prune
          MaxHold,     \* bound on the age of a reading when storageAppend takes the mutex
          MaxAppends   \* bound on the records committed

ASSUME RingAssumption ==
  /\ Capacity \in Nat \ {0} /\ HistoryMs \in Nat \ {0} /\ FreshMs \in Nat
  /\ MaxPause \in Nat \ {0} /\ MaxHold \in 0 .. HistoryMs - 1
  /\ Wrap \in Nat /\ HistoryMs + MaxPause < Wrap /\ MaxAppends \in Nat

VARIABLES
  now,            \* millis()
  idle,           \* ticks since the last prune
  history, nextRecord, recordCount, generation,
  recordPending,
  writer,         \* the worker: idle, measured, admitted, committed
  acquired,       \* acquiredMs of the sample it holds
  reader,         \* schedulerPoll: idle, exchanged, timed, counted, walking, judging
  readGeneration, started, count,  \* generation, now and count of intervalFromHistory
  seen,           \* the records it has read, newest first
  live,           \* history: acquiredMs of the last Capacity records, unexpired, newest first
  covered         \* history: the generation of the last walk that was used

ring     == <<history, nextRecord, recordCount, generation>>
walk     == <<reader, readGeneration, started, count, seen>>
ringVars == <<now, idle, history, nextRecord, recordCount, generation, recordPending, writer,
              acquired, reader, readGeneration, started, count, seen, live, covered>>

RingInit ==
  /\ now = 0 /\ idle = 0
  /\ history = [i \in 0 .. Capacity - 1 |-> 0] /\ nextRecord = 0 /\ recordCount = 0
  /\ generation = 0 /\ recordPending = FALSE
  /\ writer = "idle" /\ acquired = 0
  /\ reader = "idle" /\ readGeneration = 0 /\ started = 0 /\ count = 0 /\ seen = <<>>
  /\ live = <<>> /\ covered = 0

-----------------------------------------------------------------------------
Age(t, at) == (t - at) % Wrap
Slot(offset) == (nextRecord + Capacity - 1 - offset) % Capacity

(* prune: the oldest records are dropped until one is young enough.          *)
Expired_Signed(t, at) == t - at >= HistoryMs                           \* mutant
Expired(t, at) == Age(t, at) >= HistoryMs
Young == {n \in 1..recordCount : ~Expired(now, history[Slot(n - 1)])}
Pruned == IF Young = {} THEN 0 ELSE CHOOSE n \in Young : \A k \in Young : k <= n
Prunes == recordCount' = Pruned /\ idle' = 0

(* Time passes: no pause of the loop and no append takes too long.           *)
Tick == /\ idle < MaxPause
        /\ writer \in {"measured", "admitted"} => Age(now, acquired) < MaxHold
        /\ now' = (now + 1) % Wrap /\ idle' = idle + 1
        /\ live' = [n \in {k \in DOMAIN live : ~Expired(now', live[k])} |-> live[n]]
        /\ UNCHANGED <<ring, recordPending, writer, acquired, walk, covered>>

-----------------------------------------------------------------------------
(* The worker. *)
Measure == /\ writer = "idle" /\ generation < MaxAppends
           /\ acquired' = now /\ writer' = "measured"
           /\ UNCHANGED <<now, idle, ring, recordPending, walk, live, covered>>

(* storageAppend checks the age before it takes the mutex... *)
Admit == /\ writer = "measured"
         /\ IF Age(now, acquired) > FreshMs THEN writer' = "idle" /\ acquired' = 0
            ELSE writer' = "admitted" /\ UNCHANGED acquired
         /\ UNCHANGED <<now, idle, ring, recordPending, walk, live, covered>>

(* ...and commits the record and its generation under it.                    *)
Duplicate == Pruned > 0 /\ history[Slot(0)] = acquired
Fill == IF Pruned < Capacity THEN Pruned + 1 ELSE Pruned
Commit ==
  /\ writer = "admitted"
  /\ idle' = 0
  /\ IF Duplicate
     THEN /\ writer' = "idle" /\ recordCount' = Pruned
          /\ UNCHANGED <<history, nextRecord, generation, live>>
     ELSE /\ writer' = "committed"
          /\ history' = [history EXCEPT ![nextRecord] = acquired]
          /\ nextRecord' = (nextRecord + 1) % Capacity
          /\ recordCount' = Fill
          /\ generation' = generation + 1
          /\ live' = SubSeq(<<acquired>> \o live, 1,
                            IF Len(live) < Capacity THEN Len(live) + 1 ELSE Capacity)
  /\ acquired' = 0
  /\ UNCHANGED <<now, recordPending, walk, covered>>

(* schedulerNotifyRecord, once the mutex is free again. *)
Notify == /\ writer = "committed"
          /\ writer' = "idle" /\ recordPending' = TRUE
          /\ UNCHANGED <<now, idle, ring, acquired, walk, live, covered>>

-----------------------------------------------------------------------------
(* nodeStatus, in every turn of the main loop: storageCount and storageRead. *)
Status == /\ reader = "idle"
          /\ Prunes
          /\ UNCHANGED <<now, history, nextRecord, generation, recordPending, writer, acquired,
                         walk, live, covered>>

(* schedulerPoll takes the notification... *)
Exchange == /\ reader = "idle" /\ recordPending
            /\ recordPending' = FALSE /\ reader' = "exchanged"
            /\ UNCHANGED <<now, idle, ring, writer, acquired, readGeneration, started, count, seen,
                           live, covered>>

(* ...and intervalFromHistory reads the generation and then the clock.       *)
ReadGeneration == /\ reader = "exchanged"
                  /\ readGeneration' = generation /\ reader' = "timed"
                  /\ UNCHANGED <<now, idle, ring, recordPending, writer, acquired, started, count,
                                 seen, live, covered>>
ReadClock == /\ reader = "timed"
             /\ started' = now /\ reader' = "counted"
             /\ UNCHANGED <<now, idle, ring, recordPending, writer, acquired, readGeneration, count,
                            seen, live, covered>>
Count == /\ reader = "counted"
         /\ Prunes
         /\ count' = Pruned /\ seen' = <<>> /\ reader' = "walking"
         /\ UNCHANGED <<now, history, nextRecord, generation, recordPending, writer, acquired,
                        readGeneration, started, live, covered>>

(* storageRead of the next record; the walk ends at one that is gone or too   *)
(* old for a bin, which a record newer than the walk also looks to be.       *)
TooOld(at) == Expired(started, at)
Ends == LET offset == Len(seen)
        IN  offset >= count \/ offset >= Pruned \/ TooOld(history[Slot(offset)])
Read == /\ reader = "walking"
        /\ IF Len(seen) < count THEN Prunes ELSE UNCHANGED <<recordCount, idle>>
        /\ IF Ends THEN reader' = "judging" /\ UNCHANGED seen
           ELSE seen' = Append(seen, history[Slot(Len(seen))]) /\ UNCHANGED reader
        /\ UNCHANGED <<now, history, nextRecord, generation, recordPending, writer, acquired,
                       readGeneration, started, count, live, covered>>

(* A walk that a commit overtook is given up, and asked for again.           *)
Superseded_Never == FALSE                                               \* mutant
Superseded == readGeneration # generation
AskAgain_Cleared == FALSE                                               \* mutant
AskAgain == TRUE
Judge == /\ reader = "judging"
         /\ IF Superseded THEN recordPending' = AskAgain /\ UNCHANGED covered
            ELSE covered' = readGeneration /\ UNCHANGED recordPending
         /\ reader' = "idle" /\ seen' = <<>> /\ readGeneration' = 0 /\ started' = 0 /\ count' = 0
         /\ UNCHANGED <<now, idle, ring, writer, acquired, live>>

Worker   == Measure \/ Admit \/ Commit \/ Notify
Main     == Status \/ Exchange \/ ReadGeneration \/ ReadClock \/ Count \/ Read \/ Judge
RingNext == Tick \/ Worker \/ Main

RingSpec == RingInit /\ [][RingNext]_ringVars

(* Both threads are scheduled; a measurement is up to the sensor.            *)
FairRingSpec ==
  /\ RingSpec /\ WF_ringVars(Admit \/ Commit \/ Notify)
  /\ WF_ringVars(Exchange \/ ReadGeneration \/ ReadClock \/ Count \/ Read \/ Judge)

-----------------------------------------------------------------------------
(* What a reader would find now, newest first, is the last Capacity readings  *)
(* of the past hour and nothing else, across full rings and timer wraps.     *)
Readable == [n \in 1..Pruned |-> history[Slot(n - 1)]]
RingHoldsTheLastHour == Readable = live

(* The statistics never come from a mixture: a walk that no commit has         *)
(* overtaken has read the newest readings in order, without a gap or a repeat, *)
(* up to those that expired on the way.                                        *)
WalksAreConsistent ==
  reader = "judging" /\ ~Superseded =>
    /\ Len(live) <= Len(seen) /\ live = SubSeq(seen, 1, Len(live))
    /\ \A i, j \in DOMAIN seen : i < j => Age(started, seen[i]) < Age(started, seen[j])

(* No reading waits unnoticed: one that no walk has covered is still going to *)
(* be notified, is being walked, or its notification is pending; and in the    *)
(* end each one is taken into account.                                        *)
ReadingsAreCovered ==
  /\ [](covered # generation => recordPending \/ writer = "committed" \/ reader # "idle")
  /\ covered # generation ~> covered = generation
=============================================================================
