------------------------------ MODULE Manager ------------------------------
(***************************************************************************)
(* core_service.cpp: the main loop, the remote commands, their bounded     *)
(* reply queue and request cache, and the two-step factory reset and       *)
(* reboot.                                                                 *)
(*                                                                         *)
(* The network may send any command in any downlink, repeat it, or send    *)
(* bytes that do not decode; an uplink may carry a reply or not, and may   *)
(* fail.  A transaction blocks the loop for seconds, so that a deadline    *)
(* can pass between the two calls of expireReset in one turn of the loop.  *)
(***************************************************************************)
EXTENDS Integers, Sequences

CONSTANTS Commands,      \* records [id, type, arg]: the downlinks that decode
          BadRequests,   \* request ids of downlinks with a header that do not decode
          Codes,         \* what lwGenerateResetCode may return
          Settings,      \* AppSettings: functions of the fields
          Valid(_),      \* settingsValid
          Default,       \* settingsDefaults()
          QueueSize, CacheSize,
          Window,        \* RESET_WINDOW_MS, in ticks of the clock
          StopTimeout,   \* ten seconds, in the same ticks
          EraseLimit,    \* 3
          None

ASSUME ManagerAssumption ==
  /\ QueueSize \in Nat \ {0} /\ CacheSize \in Nat \ {0}
  /\ Window \in Nat \ {0} /\ StopTimeout \in Nat \ {0} /\ EraseLimit \in Nat \ {0}
  /\ Default \in Settings /\ Valid(Default)

(* The fields a SetBatch names replace those in force. *)
Merged(settings, change) ==
  [k \in DOMAIN settings |-> IF k \in DOMAIN change THEN change[k] ELSE settings[k]]
ASSUME ChangeAssumption ==
  \A c \in Commands, s \in Settings : c.type = "SetBatch" => Merged(s, c.arg) \in Settings

Types     == {"SetBatch", "GetConfiguration", "GetStatus", "ResetSettings",
              "RequestReset", "RequestReboot", "ConfirmReset", "ConfirmReboot"}
Ids       == {c.id : c \in Commands}
Malformed == [id : BadRequests, type : {"Malformed"}, arg : {None}]
Replies   == [id : Ids \cup BadRequests, command : Types \cup {"Malformed"},
              kind : {"Result", "Configuration", "Status", "ResetChallenge", "RebootChallenge"},
              result : {"Accepted", "Invalid", "SaveFailed", "Busy", "Expired", "WrongCode", "Conflict"},
              value : {None} \cup Codes \cup Settings]
Entries   == [bytes : Commands, reply : Replies]
Resets    == [action : {"FactoryReset", "Reboot"}, code : Codes, id : Ids]
ASSUME DataAssumption ==
  /\ \A c \in Commands : c.type \in Types
  /\ None \notin Commands \cup Malformed \cup Entries \cup Resets \cup Codes \cup Settings

VARIABLES
  state,        \* ManagerState, and "Off" until the next appSetup
  pc,           \* where appLoop is: poll, report, receive, dispatch
  inbox,        \* the downlink being handled, or None
  active,       \* the settings in force
  saved,        \* the settings record in EEPROM; None if it does not load
  replies,      \* the queue, oldest first
  cache, cacheNext,
  reset,        \* [action, code, id] while resetPending, else None
  resetAge,     \* millis() - resetStarted, capped at Window
  stopAge,      \* millis() - stopStarted, capped at StopTimeout
  eraseAttempts,
  applied,      \* history: request ids cached since boot, the last CacheSize + 1
  unanswered,   \* history: applied requests whose reply has not left the node
  accepted,     \* history: the settings last accepted, or loaded at boot
  intact,       \* history: no save failed and no erase began since they were saved
  confirmed     \* history: the downlink that confirmed the reset, or None

memory  == <<active, replies, cache, cacheNext, reset, resetAge>>
restart == <<stopAge, eraseAttempts, confirmed>>
log     == <<applied, unanswered, accepted, intact>>
vars    == <<state, pc, inbox, active, saved, replies, cache, cacheNext, reset, resetAge,
             stopAge, eraseAttempts, applied, unanswered, accepted, intact, confirmed>>

Slots == 0..CacheSize - 1
Reply(c, kind, result, value) ==
  [id |-> c.id, command |-> c.type, kind |-> kind, result |-> result, value |-> value]
Result(c, result) == Reply(c, "Result", result, None)
IsConfirmationChallenge(kind) == kind \in {"ResetChallenge", "RebootChallenge"}
Expired(r) == [r EXCEPT !.kind = "Result", !.result = "Expired", !.value = None]
PendingChallengeKind == IF reset.action = "Reboot" THEN "RebootChallenge" ELSE "ResetChallenge"
Loaded(record) == IF record = None THEN Default ELSE record

Init == /\ state = "Off" /\ pc = "poll" /\ inbox = None
        /\ active = Default /\ saved = None
        /\ replies = <<>> /\ cache = [s \in Slots |-> None] /\ cacheNext = 0
        /\ reset = None /\ resetAge = 0
        /\ stopAge = 0 /\ eraseAttempts = 0 /\ confirmed = None
        /\ applied = <<>> /\ unanswered = {} /\ accepted = Default /\ intact = TRUE

-----------------------------------------------------------------------------
(* A restart or a power loss forgets what is in RAM.                         *)
Forget ==
  /\ pc' = "poll" /\ inbox' = None /\ active' = Default
  /\ replies' = <<>> /\ cache' = [s \in Slots |-> None] /\ cacheNext' = 0
  /\ reset' = None /\ resetAge' = 0
  /\ stopAge' = 0 /\ eraseAttempts' = 0 /\ confirmed' = None
  /\ applied' = <<>> /\ unanswered' = {}

(* appSetup: everything but the settings starts afresh.  A clock or storage  *)
(* failure faults the manager.                                               *)
AppSetup ==
  /\ state = "Off"
  /\ \/ state' = "Running" /\ active' = Loaded(saved)
     \/ state' = "Fault" /\ active' = Default
  /\ accepted' = active' /\ intact' = (saved = None \/ active' = saved)
  /\ UNCHANGED <<pc, inbox, saved, replies, cache, cacheNext, reset, resetAge, restart,
                 applied, unanswered>>

(* Time passes at any point of the loop, but expireReset and what            *)
(* receiveCommand decides from it are microseconds apart.                    *)
Clock == /\ pc # "dispatch"
         /\ \/ /\ state = "Running" /\ reset # None /\ resetAge < Window
               /\ resetAge' = resetAge + 1 /\ UNCHANGED stopAge
            \/ /\ state = "Stopping" /\ stopAge < StopTimeout
               /\ stopAge' = stopAge + 1 /\ UNCHANGED resetAge
         /\ UNCHANGED <<state, pc, inbox, active, saved, replies, cache, cacheNext, reset,
                        eraseAttempts, confirmed, log>>

(* expireReset: a challenge that has run out is withdrawn, from the queue     *)
(* as well, where it becomes the answer "Expired".                            *)
Withdrawn_HeadOnly(queue) ==                                           \* mutant
  [i \in DOMAIN queue |->
     IF i = 1 /\ IsConfirmationChallenge(queue[i].kind) /\ queue[i].id = reset.id
     THEN Expired(queue[i]) ELSE queue[i]]
Withdrawn(queue) ==
  [i \in DOMAIN queue |->
     IF IsConfirmationChallenge(queue[i].kind) /\ queue[i].id = reset.id
     THEN Expired(queue[i]) ELSE queue[i]]
RunOut == reset # None /\ resetAge >= Window
ExpireReset == IF RunOut
               THEN reset' = None /\ resetAge' = 0 /\ replies' = Withdrawn(replies)
               ELSE UNCHANGED <<reset, resetAge, replies>>

(* sensorPoll, lwServicePoll and expireReset, at the start of the loop. *)
Poll == /\ state = "Running" /\ pc = "poll"
        /\ ExpireReset
        /\ pc' = "report"
        /\ UNCHANGED <<state, inbox, active, saved, cache, cacheNext, restart, log>>

(* schedulerPoll: no report is due, or a transaction runs.  A control reply   *)
(* leaves the queue only when it was sent, and any transaction may have a     *)
(* downlink.                                                                  *)
Report ==
  /\ state = "Running" /\ pc = "report"
  /\ \/ UNCHANGED <<replies, unanswered>>
     \/ /\ replies # <<>>
        /\ replies' = Tail(replies)
        /\ unanswered' = unanswered \ {Head(replies).id}
  /\ pc' \in {"poll", "receive"}
  /\ UNCHANGED <<state, inbox, active, saved, cache, cacheNext, reset, resetAge, restart,
                 applied, accepted, intact>>

-----------------------------------------------------------------------------
(* receiveCommand, with whatever downlink the transaction has brought. *)
Receive_Unexpired == UNCHANGED <<reset, resetAge, replies>>              \* mutant
Receive == ExpireReset
BeginReceive == /\ state = "Running" /\ pc = "receive"
                /\ Receive
                /\ pc' = "dispatch"
                /\ inbox' \in Commands \cup Malformed
                /\ UNCHANGED <<state, active, saved, cache, cacheNext, restart, log>>

HasRoom_OffByOne == Len(replies) <= QueueSize                            \* mutant
HasRoom == Len(replies) # QueueSize
Enqueue(queue, reply) == IF Len(queue) < QueueSize THEN Append(queue, reply) ELSE queue
CachedAs(id) == {s \in Slots : cache[s] # None /\ cache[s].reply.id = id}

Dispatch(c) == state = "Running" /\ pc = "dispatch" /\ inbox = c /\ HasRoom
Handled     == pc' = "poll" /\ inbox' = None
Uncached(c) == c.type # "Malformed" /\ CachedAs(c.id) = {}

(* No room for the result: the command has no effect at all. *)
DropForRoom == /\ state = "Running" /\ pc = "dispatch" /\ ~HasRoom
               /\ Handled
               /\ UNCHANGED <<state, saved, memory, restart, log>>

(* Bytes with a control header that do not decode: answered, not cached. *)
RejectMalformed ==
  /\ \E c \in {inbox} : /\ Dispatch(c) /\ c.type = "Malformed"
                        /\ replies' = Enqueue(replies, Result(c, "Invalid"))
  /\ Handled
  /\ UNCHANGED <<state, saved, active, cache, cacheNext, reset, resetAge, restart, log>>

(* A request id of the cache: the same bytes get the same answer, except      *)
(* that a challenge no longer pending has expired; other bytes conflict.      *)
IsPending(reply) == /\ reset # None
                    /\ reset.id = reply.id /\ reset.code = reply.value
                    /\ reply.kind = PendingChallengeKind
AnswerAgain(c, entry) ==
  IF entry.bytes # c THEN Result(c, "Conflict")
  ELSE IF IsConfirmationChallenge(entry.reply.kind) /\ ~IsPending(entry.reply)
  THEN Expired(entry.reply)
  ELSE entry.reply
Replay ==
  /\ \E c \in {inbox} : /\ Dispatch(c) /\ c.type # "Malformed"
                        /\ \E s \in CachedAs(c.id) :
                             replies' = Enqueue(replies, AnswerAgain(c, cache[s]))
  /\ Handled
  /\ UNCHANGED <<state, saved, active, cache, cacheNext, reset, resetAge, restart, log>>

(* The tail of receiveCommand: the reply is cached and queued. *)
NextSlot_Stuck == cacheNext                                              \* mutant
NextSlot == (cacheNext + 1) % CacheSize
Answer(c, reply) ==
  /\ cache' = [cache EXCEPT ![cacheNext] = [bytes |-> c, reply |-> reply]]
  /\ cacheNext' = NextSlot
  /\ replies' = Enqueue(replies, reply)
  /\ applied' = IF Len(applied) <= CacheSize THEN Append(applied, c.id)
                ELSE Append(Tail(applied), c.id)
  /\ unanswered' = unanswered \cup {c.id}
  /\ Handled

(* SetBatch and ResetSettings: proposedSettings, validated, saved and         *)
(* verified before any of it is active.                                       *)
Proposed(c) == IF c.type = "ResetSettings" THEN Default
               ELSE Merged(active, c.arg)
ActiveAfterFailure_Early(c) == Proposed(c)                               \* mutant
ActiveAfterFailure(c) == active
ChangeSettings ==
  /\ \E c \in {inbox} :
       /\ Dispatch(c) /\ Uncached(c) /\ c.type \in {"SetBatch", "ResetSettings"}
       /\ \/ /\ ~Valid(Proposed(c))
             /\ Answer(c, Result(c, "Invalid"))
             /\ UNCHANGED <<active, saved, accepted, intact>>
          \/ /\ Valid(Proposed(c))
             /\ saved' = Proposed(c) /\ active' = Proposed(c)
             /\ Answer(c, Reply(c, "Configuration", "Accepted", active'))
             /\ accepted' = active' /\ intact' = TRUE
          \/ /\ Valid(Proposed(c))
             /\ saved' \in {saved, Proposed(c), None} /\ active' = ActiveAfterFailure(c)
             /\ Answer(c, Result(c, "SaveFailed"))
             /\ intact' = FALSE /\ UNCHANGED accepted
  /\ UNCHANGED <<state, reset, resetAge, restart>>

(* What a status says is left out. *)
Query ==
  /\ \E c \in {inbox} :
       /\ Dispatch(c) /\ Uncached(c)
       /\ \/ c.type = "GetConfiguration" /\ Answer(c, Reply(c, "Configuration", "Accepted", active))
          \/ c.type = "GetStatus" /\ Answer(c, Reply(c, "Status", "Accepted", None))
  /\ UNCHANGED <<state, active, saved, reset, resetAge, restart, accepted, intact>>

(* RequestReset and RequestReboot: one challenge at a time. *)
RequestRestart ==
  /\ \E c \in {inbox} :
       /\ Dispatch(c) /\ Uncached(c) /\ c.type \in {"RequestReset", "RequestReboot"}
       /\ \/ /\ reset # None
             /\ Answer(c, Result(c, "Busy"))
             /\ UNCHANGED <<reset, resetAge>>
          \/ /\ reset = None
             /\ \E code \in Codes :
                  reset' = [action |-> IF c.type = "RequestReboot" THEN "Reboot" ELSE "FactoryReset",
                            code |-> code, id |-> c.id]
             /\ resetAge' = 0
             /\ Answer(c, Reply(c, PendingChallengeKind', "Accepted", reset'.code))
  /\ UNCHANGED <<state, active, saved, restart, accepted, intact>>

(* ConfirmReset and ConfirmReboot: a confirmation that matches stops the      *)
(* radio and the sensor at once, with no reply and no cache entry.            *)
Matches(c) == (c.type = "ConfirmReboot") <=> (reset.action = "Reboot")
RejectConfirmation ==
  /\ \E c \in {inbox} :
       /\ Dispatch(c) /\ Uncached(c) /\ c.type \in {"ConfirmReset", "ConfirmReboot"}
       /\ \/ reset = None /\ Answer(c, Result(c, "Expired"))
          \/ reset # None /\ ~Matches(c) /\ Answer(c, Result(c, "Conflict"))
          \/ reset # None /\ Matches(c) /\ c.arg # reset.code /\ Answer(c, Result(c, "WrongCode"))
  /\ UNCHANGED <<state, active, saved, reset, resetAge, restart, accepted, intact>>
Confirm ==
  /\ \E c \in {inbox} :
       /\ Dispatch(c) /\ Uncached(c) /\ c.type \in {"ConfirmReset", "ConfirmReboot"}
       /\ reset # None /\ Matches(c) /\ c.arg = reset.code
       /\ state' = "Stopping" /\ stopAge' = 0
       /\ confirmed' = c
  /\ Handled
  /\ UNCHANGED <<saved, memory, eraseAttempts, log>>

-----------------------------------------------------------------------------
(* resetStep in Stopping: a reboot restarts as soon as the sensor has         *)
(* stopped, a factory reset goes on to the stores.                            *)
StopSensor ==
  /\ state = "Stopping"
  /\ IF reset.action = "Reboot" THEN state' = "Off" /\ Forget /\ UNCHANGED <<saved, accepted, intact>>
     ELSE /\ state' = "Erasing" /\ eraseAttempts' = 0
          /\ UNCHANGED <<pc, inbox, saved, memory, stopAge, confirmed, log>>

AfterStopTimeout == "Fault"
StopTimesOut ==
  /\ state = "Stopping" /\ stopAge >= StopTimeout
  /\ state' = AfterStopTimeout
  /\ UNCHANGED <<pc, inbox, saved, memory, restart, log>>

(* storageFactoryErase, with a bounded number of attempts. *)
EraseStores ==
  /\ state = "Erasing"
  /\ saved' = None /\ intact' = FALSE
  /\ state' = "Off" /\ Forget
  /\ UNCHANGED accepted

GivesUp_Never(attempts) == FALSE                                         \* mutant
GivesUp(attempts) == attempts >= EraseLimit
EraseFails ==
  /\ state = "Erasing"
  /\ saved' \in {saved, None} /\ intact' = FALSE
  /\ eraseAttempts' = (eraseAttempts + 1) % 256
  /\ state' = IF GivesUp(eraseAttempts') THEN "Fault" ELSE state
  /\ UNCHANGED <<pc, inbox, memory, stopAge, confirmed, applied, unanswered, accepted>>

(* Power is lost, or the watchdog fires, at any point; inside a save or an    *)
(* erase the settings record may be left unreadable.                          *)
PowerLoss ==
  /\ state # "Off"
  /\ state' = "Off"
  /\ \/ UNCHANGED <<saved, intact>>
     \/ /\ \E c \in {inbox} : /\ Dispatch(c) /\ Uncached(c)
                              /\ c.type \in {"SetBatch", "ResetSettings"} /\ Valid(Proposed(c))
                              /\ saved' \in {saved, Proposed(c), None}
        /\ intact' = FALSE
     \/ state = "Erasing" /\ saved' \in {saved, None} /\ intact' = FALSE
  /\ Forget /\ UNCHANGED accepted

Loop == \/ Poll \/ Report \/ BeginReceive \/ DropForRoom \/ RejectMalformed \/ Replay
        \/ ChangeSettings \/ Query \/ RequestRestart \/ RejectConfirmation \/ Confirm
        \/ StopTimesOut
Restarting == StopSensor \/ EraseStores \/ EraseFails
Next == AppSetup \/ Clock \/ Loop \/ Restarting \/ PowerLoss

Spec == Init /\ [][Next]_vars

(* appLoop is called forever, and time passes during every transaction;       *)
(* whether the sensor stops or an erase succeeds is up to the hardware, but    *)
(* an erase is tried in every turn.                                            *)
FairSpec == /\ Spec
            /\ SF_vars(Clock) /\ WF_vars(Loop) /\ WF_vars(EraseStores \/ EraseFails)

-----------------------------------------------------------------------------
Challenges == {i \in DOMAIN replies : IsConfirmationChallenge(replies[i].kind)}

(* Every challenge that waits in the queue is the pending one, with its code: *)
(* one that has expired, whether queued first or replayed from the cache,     *)
(* never reaches the air (expireReset, receiveCommand).                       *)
QueuedChallengesAreCurrent == \A i \in Challenges : IsPending(replies[i])

(* A node begins to stop only for a confirmation of the pending operation     *)
(* that arrives within the window, even when the window closes while the      *)
(* transaction that brings it is blocking the loop; and it goes on to erase   *)
(* only for a confirmed factory reset, also when a reboot was asked for since *)
(* or before.                                                                 *)
StopsInTime ==
  /\ state = "Running" /\ state' = "Stopping" => resetAge < Window
  /\ state = "Stopping" /\ state' = "Erasing" => confirmed.type = "ConfirmReset"
ConfirmationInTime == [][StopsInTime]_vars

(* A request is never carried out again while fewer than CacheSize others     *)
(* have been since: a repeated downlink cannot write the settings twice or    *)
(* restart a deadline.                                                        *)
AppliedOnce == \A i, j \in DOMAIN applied : applied[i] = applied[j] => i = j

(* What was carried out is answered: its reply waits in the queue until an    *)
(* uplink has taken it, and a full queue refuses the command instead.         *)
AppliedIsAnswered ==
  state = "Running" => \A id \in unanswered : \E i \in DOMAIN replies : replies[i].id = id

(* Settings change only by being accepted, and those accepted are the ones    *)
(* the next boot loads, as long as no later save has failed.                  *)
AcceptedSettingsHold ==
  /\ state = "Running" => active = accepted
  /\ intact => Loaded(saved) = accepted

(* A reset or reboot comes to an end at every stage: a challenge nobody       *)
(* confirms is withdrawn, a confirmed one restarts the node or ends in the    *)
(* fault state.                                                               *)
ResetsEnd ==
  /\ reset # None ~> reset = None \/ state # "Running"
  /\ state \in {"Stopping", "Erasing"} ~> state \in {"Off", "Fault"}
=============================================================================
