---------------------------- MODULE SensorWorker ----------------------------
(***************************************************************************)
(* The BSEC worker thread of sensor_service.cpp beside the main thread:     *)
(* acquisition, recovery, the hand-over of calibration under gBsecMutex,    *)
(* its record in the EEPROM, and the stop that precedes a reset.            *)
(*                                                                         *)
(* Time counts in units of 60 s, the retry and save spacing; a measurement  *)
(* is far shorter.  A calibration state is a number, later ones greater.    *)
(* The published snapshot and the diagnostic code only feed the serial log  *)
(* and are left out.                                                        *)
(***************************************************************************)
EXTENDS Integers

CONSTANTS SaveEvery,      \* SAVE_INTERVAL_MS, in units
          MaxExports      \* bound on the calibration states of a history

ASSUME SensorAssumption == SaveEvery \in Nat \ {0} /\ MaxExports \in Nat \ {0}

Corrupt == -1             \* a record that its checks refuse
None    == 0              \* an erased record, no state

VARIABLES
  wpc,             \* worker: loop, step, append (a reading is published), export, stopped
  ready, pending,  \* gReady, gPending
  sinceRetry,      \* age of gRetryStartedMs, up to 1
  canSave,         \* local of workerFetch
  everSaved, sinceExport,   \* gEverSaved, age of gLastSaveMs
  restore,         \* gRestore, None when gRestoreSize is 0
  savePending, save,        \* gSavePending, gSave
  mpc,             \* main: poll, save, putback, stopping, erasing, erased, fault
  taken,           \* main's local copy of gSave
  sinceAttempt,    \* age of lastSaveAttempt, up to 1
  action,          \* resetAction of the manager
  started, stopRequested,   \* gStarted, gStopRequested
  stored,          \* the calibration record of the EEPROM
  ring,            \* the RAM history holds readings
  exported         \* history: the newest state of this boot

worker == <<wpc, ready, pending, sinceRetry, canSave, everSaved, sinceExport, restore>>
main   == <<mpc, taken, sinceAttempt, action>>
vars   == <<wpc, ready, pending, sinceRetry, canSave, everSaved, sinceExport, restore, savePending,
            save, mpc, taken, sinceAttempt, action, started, stopRequested, stored, ring, exported>>

(* bsecStateLoad checks tag, size, profile and CRC.                         *)
Loaded(record) == IF record = Corrupt THEN None ELSE record

(* bsecStart on what the EEPROM holds; the thread may not start, and nothing *)
(* starts it again before the next boot.                                     *)
Boot(record) ==
  /\ restore' = Loaded(record) /\ everSaved' = (restore' # None) /\ exported' = restore'
  /\ started' \in BOOLEAN /\ wpc' = IF started' THEN "loop" ELSE "stopped"
  /\ ready' = FALSE /\ pending' = FALSE /\ sinceRetry' = 1 /\ canSave' = FALSE /\ sinceExport' = 0
  /\ savePending' = FALSE /\ save' = None /\ stopRequested' = FALSE /\ ring' = FALSE
  /\ mpc' = "poll" /\ taken' = None /\ sinceAttempt' = 1 /\ action' = "None"
  /\ stored' = record
Init ==
  /\ stored \in {Corrupt, None, 1}
  /\ restore = Loaded(stored) /\ everSaved = (restore # None) /\ exported = restore
  /\ started \in BOOLEAN /\ wpc = IF started THEN "loop" ELSE "stopped"
  /\ ready = FALSE /\ pending = FALSE /\ sinceRetry = 1 /\ canSave = FALSE /\ sinceExport = 0
  /\ savePending = FALSE /\ save = None /\ stopRequested = FALSE /\ ring = FALSE
  /\ mpc = "poll" /\ taken = None /\ sinceAttempt = 1 /\ action = "None"

Grown(age, bound) == IF age < bound THEN age + 1 ELSE bound
Tick == /\ sinceRetry' = Grown(sinceRetry, 1) /\ sinceAttempt' = Grown(sinceAttempt, 1)
        /\ sinceExport' = Grown(sinceExport, SaveEvery)
        /\ UNCHANGED <<wpc, ready, pending, canSave, everSaved, restore, savePending, save, mpc, taken,
                       action, started, stopRequested, stored, ring, exported>>

-----------------------------------------------------------------------------
(* The worker: one action for each part of workerStep that shares nothing.   *)
Failure == ready' = FALSE /\ pending' = FALSE /\ sinceRetry' = 0         \* workerFailure
shared == <<savePending, save, main, started, stopRequested, stored>>

(* workerLoop asks for the stop between two steps only; a step may find       *)
(* nothing due.                                                              *)
Enter == /\ wpc = "loop" /\ wpc' = IF stopRequested THEN "stopped" ELSE "step"
         /\ UNCHANGED <<ready, pending, sinceRetry, canSave, everSaved, sinceExport, restore, shared, ring, exported>>
Leave == /\ wpc = "step" /\ wpc' = "loop"
         /\ UNCHANGED <<ready, pending, sinceRetry, canSave, everSaved, sinceExport, restore, shared, ring, exported>>

(* workerBegin: the bus, then BSEC, which may refuse the restored state.     *)
Begin ==
  /\ wpc = "step" /\ ~ready /\ sinceRetry = 1
  /\ restore' \in {restore, None}
  /\ everSaved' = (everSaved /\ restore' = restore)
  /\ \/ ready' = TRUE /\ pending' = FALSE /\ UNCHANGED <<wpc, sinceRetry>>
     \/ Failure /\ wpc' = "loop"
  /\ UNCHANGED <<canSave, sinceExport, shared, ring, exported>>

(* bsec_sensor_control asks for a measurement, or something fails.           *)
Trigger ==
  /\ wpc = "step" /\ wpc' = "loop" /\ ready /\ ~pending
  /\ \/ pending' = TRUE /\ UNCHANGED <<ready, sinceRetry>>
     \/ Failure
  /\ UNCHANGED <<canSave, everSaved, sinceExport, restore, shared, ring, exported>>

(* workerFetch: too late or refused, or the reading is published under the    *)
(* mutex, where canSave is read.                                             *)
FetchFails ==
  /\ wpc = "step" /\ wpc' = "loop" /\ ready /\ pending
  /\ Failure
  /\ UNCHANGED <<canSave, everSaved, sinceExport, restore, shared, ring, exported>>
Fetch ==
  /\ wpc = "step" /\ wpc' = "append" /\ ready /\ pending
  /\ pending' = FALSE /\ canSave' = ~savePending
  /\ UNCHANGED <<ready, sinceRetry, everSaved, sinceExport, restore, shared, ring, exported>>

(* storageAppend, then whether this reading's state is worth an export.      *)
ExportDue == canSave /\ (~everSaved \/ sinceExport = SaveEvery)
Append ==
  /\ wpc = "append" /\ ring' = TRUE
  /\ \/ wpc' = "loop"
     \/ ExportDue /\ wpc' = "export"
  /\ UNCHANGED <<ready, pending, sinceRetry, canSave, everSaved, sinceExport, restore, shared, exported>>
Export ==
  /\ wpc = "export" /\ wpc' = "loop" /\ exported < MaxExports
  /\ exported' = exported + 1 /\ restore' = exported' /\ save' = exported' /\ savePending' = TRUE
  /\ everSaved' = TRUE /\ sinceExport' = 0
  /\ UNCHANGED <<ready, pending, sinceRetry, canSave, main, started, stopRequested, stored, ring>>
ExportFails ==                                                  \* bsec_get_state
  /\ wpc = "export" /\ wpc' = "loop"
  /\ UNCHANGED <<ready, pending, sinceRetry, canSave, everSaved, sinceExport, restore, shared, ring, exported>>

Worker == Enter \/ Leave \/ Begin \/ Trigger \/ FetchFails \/ Fetch \/ Append \/ Export \/ ExportFails

-----------------------------------------------------------------------------
(* bsecPoll: take the pending state, save it outside the mutex, and put it    *)
(* back when that failed.                                                    *)
Take ==
  /\ mpc = "poll" /\ savePending /\ sinceAttempt = 1
  /\ taken' = save /\ savePending' = FALSE /\ sinceAttempt' = 0 /\ mpc' = "save"
  /\ UNCHANGED <<worker, save, action, started, stopRequested, stored, ring, exported>>
Save ==                                                         \* bsecStateSave
  /\ mpc = "save" /\ mpc' = "poll" /\ stored' = taken
  /\ UNCHANGED <<worker, savePending, save, taken, sinceAttempt, action, started, stopRequested, ring, exported>>
SaveFails ==
  /\ mpc = "save" /\ mpc' = "putback" /\ stored' \in {stored, Corrupt, taken}
  /\ UNCHANGED <<worker, savePending, save, taken, sinceAttempt, action, started, stopRequested, ring, exported>>
PutBack_Overwrites == savePending' = TRUE /\ save' = taken              \* mutant
PutBack_Never == UNCHANGED <<savePending, save>>                        \* mutant
PutBack == IF savePending THEN UNCHANGED <<savePending, save>>
           ELSE savePending' = TRUE /\ save' = taken
Retry ==
  /\ mpc = "putback" /\ mpc' = "poll" /\ PutBack
  /\ UNCHANGED <<worker, taken, sinceAttempt, action, started, stopRequested, stored, ring, exported>>

(* A confirmed reset or reboot (receiveCommand, resetStep): the manager stops *)
(* to poll the sensor and asks it to stop.                                    *)
Confirm ==
  /\ mpc = "poll" /\ mpc' = "stopping" /\ action' \in {"Reboot", "Erase"}
  /\ UNCHANGED <<worker, savePending, save, taken, sinceAttempt, started, stopRequested, stored, ring, exported>>
StopDone_AtOnce == TRUE                                                 \* mutant
StopDone == ~started \/ wpc = "stopped"
SensorStop ==
  /\ mpc = "stopping" /\ stopRequested' = TRUE
  /\ IF StopDone THEN action = "Erase" /\ mpc' = "erasing" ELSE mpc' \in {"stopping", "fault"}
  /\ UNCHANGED <<worker, savePending, save, taken, sinceAttempt, action, started, stored, ring, exported>>
Reboot == mpc = "stopping" /\ StopDone /\ action = "Reboot" /\ Boot(stored)

(* storageFactoryErase: the EEPROM, the nonce pages, then the RAM history.   *)
Erase ==
  /\ mpc = "erasing" /\ mpc' = "erased" /\ stored' = None /\ ring' = FALSE
  /\ UNCHANGED <<worker, savePending, save, taken, sinceAttempt, action, started, stopRequested, exported>>
EraseFails ==
  /\ mpc = "erasing" /\ mpc' \in {"erasing", "fault"} /\ stored' \in {stored, Corrupt, None}
  /\ UNCHANGED <<worker, savePending, save, taken, sinceAttempt, action, started, stopRequested, ring, exported>>
Restart == mpc = "erased" /\ Boot(stored)

(* Power is lost at any time, within an EEPROM write included.               *)
PowerLoss ==
  \E record \in {stored} \cup (IF mpc = "save" THEN {Corrupt, taken} ELSE {})
                         \cup (IF mpc = "erasing" THEN {Corrupt, None} ELSE {}) : Boot(record)

Main == Take \/ Save \/ SaveFails \/ Retry \/ Confirm \/ SensorStop \/ Reboot \/ Erase \/ EraseFails \/ Restart
Next == Tick \/ Worker \/ Main \/ PowerLoss
Spec == Init /\ [][Next]_vars           \* SensorService adds the fairness

-----------------------------------------------------------------------------
(* The newest calibration state that BSEC exported in this boot is in the     *)
(* EEPROM, waits for its save, or is in the main thread's hands: a failed     *)
(* save neither loses it nor replaces a newer export by itself.               *)
NewestExportIsKept ==
  mpc \notin {"erasing", "erased", "fault"} =>
    \/ exported = Loaded(stored) \/ (savePending /\ save = exported)
    \/ (mpc \in {"save", "putback"} /\ taken = exported)

(* When a factory erase is done no reading and no calibration comes back      *)
(* before the restart: the worker has left its loop.                          *)
ErasedIsEmpty == mpc = "erased" => stored = None /\ ~ring

(* While the node runs on, the newest export reaches the EEPROM, whatever     *)
(* saves fail and however exports and saves interleave.                       *)
Running == mpc \in {"poll", "save", "putback"}
CalibrationIsSaved == []<>(exported = Loaded(stored) \/ ~Running)
=============================================================================
