--------------------------- MODULE RadioLifecycle ---------------------------
(***************************************************************************)
(* The radio lifecycle of lorawan_service.cpp: lwServicePoll, lwServiceWait *)
(* and lwTransmit over a millis() that wraps.  RadioLib uses absolute      *)
(* timestamps inside its blocking calls, so no call may run across the     *)
(* wrap and no node may be used after one: the radio waits it out, cools   *)
(* down and builds a new node.  The errors of the library come in the      *)
(* classes that permanentError, hardwareError and lwTransmit distinguish.  *)
(*                                                                         *)
(* All of it runs on the main thread; only time moves by itself, between   *)
(* any two readings of millis().  A poll reads it into now, again to see    *)
(* whether a wrap is near, again where it begins a rollover wait, where it   *)
(* begins a cooldown, and after a join, an initialization or a recovery;     *)
(* lwActivate and lwSendReceive read it up to four times before they call    *)
(* the library.  Jitter bounds the ticks that fall in between.              *)
(***************************************************************************)
EXTENDS Integers, Sequences

CONSTANTS Wrap,       \* 2^32: millis() counts modulo Wrap
          Guard,      \* LW_TRANSACTION_GUARD_MS: bound on a blocking call as well
          Recovery,   \* RECOVERY_MS
          JoinRetry,  \* 60 s between join attempts
          Backoff,    \* 1 s before the second initialization, twice that before the third
          Streak,     \* 3: errors in a row, initializations, recoveries
          MaxPause,   \* bound on the time between two turns of the main loop
          Jitter      \* bound on the ticks from one reading of millis() to what a poll or a
                      \* transaction does next, and before and after a library call

ASSUME RadioAssumption ==
  /\ Wrap \in Nat /\ Guard \in Nat /\ 2 * Guard + 2 < Wrap
  /\ Recovery \in Nat \ {0} /\ JoinRetry \in 0..Recovery /\ Backoff \in Nat /\ Streak \in Nat \ {0}
  /\ MaxPause \in Nat \ {0} /\ Jitter \in Nat
  /\ MaxPause + 2 * Guard + 5 * Jitter < Wrap

VARIABLES
  turn,          \* where the main loop is: asleep, poll, report
  now,           \* millis()
  read,          \* the now of the last lwServicePoll, its first reading of millis()
  serviceState,
  serviceTick, phaseStarted, lastJoin, joinedAttempted,
  initAttempts, recoveryAttempts, joinFailures,
  txFailures, capacityFailures, unavailableFailures, capacityTried,
  activated,     \* gNode.isActivated()
  slept,         \* history: in Cooldown, ticks since it began or last failed, up to Recovery
  rushed,        \* history: rebuilt in the very poll that entered a cooldown, JoinRetry not yet over
  spaced,        \* history: ticks since the last join that failed, up to JoinRetry
  stale,         \* history: millis() has wrapped since the node was built
  misused,       \* history: a library call ran across a wrap, or on a stale node, but for:
  straddled,     \* history: a call in this turn, on a node gone stale after its first reading
  recent         \* history: this session's last outcomes of one kind, up to Streak

timers   == <<serviceTick, phaseStarted, lastJoin, joinedAttempted>>
attempts == <<initAttempts, recoveryAttempts, joinFailures>>
streaks  == <<txFailures, capacityFailures, unavailableFailures, capacityTried>>
vars     == <<turn, now, read, serviceState, serviceTick, phaseStarted, lastJoin, joinedAttempted,
              initAttempts, recoveryAttempts, joinFailures, txFailures, capacityFailures,
              unavailableFailures, capacityTried, activated, slept, rushed, spaced,
              stale, misused, straddled, recent>>

Since(t, start) == (t - start) % Wrap         \* uint32_t(t - start)
RolloverPending(t) == t >= Wrap - 1 - Guard   \* lwTimerRolloverPending
Failed_Uncounted(n) == n                                               \* mutant
Failed(n) == n + 1                            \* ++attempts
Enough(n) == n >= Streak
AtMost(n, bound) == IF n < bound THEN n ELSE bound

Outcomes  == {"Ok", "Permanent", "NotJoined", "Hardware", "Capacity",
              "Unavailable", "UnavailableWait", "Other"}

Init == /\ turn = "asleep" /\ now = 0 /\ read = 0 /\ serviceState = "Initializing"
        /\ serviceTick = 0 /\ phaseStarted = 0 /\ lastJoin = 0 /\ joinedAttempted = FALSE
        /\ initAttempts = 0 /\ recoveryAttempts = 0 /\ joinFailures = 0
        /\ txFailures = 0 /\ capacityFailures = 0 /\ unavailableFailures = 0
        /\ capacityTried = FALSE /\ activated = FALSE
        /\ slept = 0 /\ rushed = FALSE /\ spaced = JoinRetry
        /\ stale = FALSE /\ misused = FALSE /\ straddled = FALSE /\ recent = <<>>

-----------------------------------------------------------------------------
(* Time: between two turns of the loop, between two readings, or inside a    *)
(* library call.  A turn begins when the poll has made its first reading, and  *)
(* goes on when it is about to make the next one.  The last turn has ended,    *)
(* with a transaction or with nothing due after the poll.                     *)
Later(k)  == (now + k) % Wrap
Passes(k) == now' = Later(k) /\ stale' = (stale \/ now + k >= Wrap)
Sleeps(k) == slept' = IF serviceState = "Cooldown" THEN AtMost(slept + k, Recovery) ELSE 0
Spaces(k) == spaced' = AtMost(spaced + k, JoinRetry)
Pause == /\ turn # "poll" /\ turn' = "poll" /\ serviceState \notin {"Stopped", "Fault"}
         /\ \E k \in 1..MaxPause, e \in 0..Jitter :
              read' = Later(k) /\ Passes(k + e) /\ Sleeps(k + e) /\ Spaces(k + e)
         /\ straddled' = FALSE /\ rushed' = (rushed /\ spaced' < JoinRetry)
         /\ UNCHANGED <<serviceState, timers, attempts, streaks, activated, misused, recent>>

(* cooldown(), whose millis() reads t. *)
RestsFrom(t) == t
Cooldown(t) == /\ serviceState' = "Cooldown" /\ phaseStarted' = RestsFrom(t)
               /\ recoveryAttempts' = 0 /\ joinFailures' = 0
               /\ txFailures' = 0 /\ capacityFailures' = 0 /\ unavailableFailures' = 0
               /\ slept' = AtMost(Since(now', t), Recovery)
               /\ UNCHANGED <<capacityTried, initAttempts>>
RadioFault == serviceState' = "Fault"

(* rolloverWait(), whose millis() reads t, and that of its cooldown() u. *)
RolloverWait(t, u) ==
  IF RolloverPending(t)
  THEN /\ serviceState' = "Rollover" /\ phaseStarted' = t
       /\ UNCHANGED <<attempts, streaks, slept>>
  ELSE Cooldown(u)

-----------------------------------------------------------------------------
Polls == turn = "poll" /\ turn' = "report" /\ serviceTick' = read /\ UNCHANGED read
Polled(state) == Polls /\ serviceState = state

(* The wrap shows in the first reading of the poll, its approach in the        *)
(* second: lwTimerRolloverPending reads millis() for itself.                   *)
Interrupted == serviceState # "Rollover" /\ (read < serviceTick \/ RolloverPending(now))

(* lwRecover, with some attempts behind it: a new node, once RECOVERY_MS has   *)
(* passed, or another minute, or the end.  It begins c ticks from now, with    *)
(* the new node, and is over d ticks from now.                                *)
Rested(t, start) == Since(t, start) >= Recovery
NodeAge_Kept == stale                                                  \* mutant
NodeAge == FALSE
Rebuild(attempted, c, d) ==
  /\ now' = Later(d) /\ Spaces(d) /\ phaseStarted' = Later(d) /\ slept' = 0
  /\ activated' = FALSE /\ stale' = (NodeAge \/ Later(d) < Later(c))
  /\ \/ /\ serviceState' = "Joining" /\ joinedAttempted' = FALSE /\ capacityTried' = FALSE
        /\ recoveryAttempts' = attempted
     \/ /\ recoveryAttempts' = Failed(attempted)
        /\ serviceState' = IF Enough(recoveryAttempts') THEN "Fault" ELSE "Cooldown"
        /\ UNCHANGED <<joinedAttempted, capacityTried>>
     \/ /\ RadioFault                                   \* persistence is lost
        /\ recoveryAttempts' = attempted
        /\ UNCHANGED <<joinedAttempted, capacityTried>>

(* lwServicePoll finds that millis() wrapped since the last poll, or soon     *)
(* will: it cools down or waits, and goes on into the case of that state.     *)
Interrupt ==
  /\ serviceState \notin {"Stopped", "Fault"} /\ Interrupted
  /\ Polls
  /\ \E c \in 0..Jitter : \E d \in c..Jitter :
       LET waits == read >= serviceTick /\ RolloverPending(Later(c)) IN
       \/ /\ waits /\ read >= Later(c)
          /\ Passes(d) /\ Spaces(d) /\ RolloverWait(Later(c), Later(d))
          /\ UNCHANGED <<rushed, joinedAttempted, activated>>
       \/ /\ IF waits THEN read < Later(c) ELSE ~Rested(read, Later(d))
          /\ Passes(d) /\ Spaces(d) /\ Cooldown(Later(d))
          /\ UNCHANGED <<rushed, joinedAttempted, activated>>
       \/ /\ ~waits /\ Rested(read, Later(d))
          /\ \E e \in d..Jitter : Rebuild(0, d, e)
          /\ rushed' = TRUE
          /\ joinFailures' = 0 /\ txFailures' = 0
          /\ capacityFailures' = 0 /\ unavailableFailures' = 0
          /\ UNCHANGED initAttempts
  /\ UNCHANGED <<lastJoin, misused, straddled, recent>>

(* Initializing: up to three lwBegin, with a pause that doubles. *)
BackedOff == initAttempts = 0 \/ Since(read, phaseStarted) >= Backoff * initAttempts
Initialize ==
  /\ ~Interrupted /\ Polled("Initializing") /\ BackedOff
  /\ \/ serviceState' = "Joining" /\ joinedAttempted' = FALSE /\ UNCHANGED initAttempts
     \/ RadioFault /\ UNCHANGED <<joinedAttempted, initAttempts>>
     \/ /\ initAttempts' = Failed(initAttempts)
        /\ IF Enough(initAttempts') THEN RadioFault ELSE UNCHANGED serviceState
        /\ UNCHANGED joinedAttempted
  /\ \E d \in 0..Jitter : Passes(d) /\ Spaces(d) /\ phaseStarted' = Later(d)
  /\ UNCHANGED <<lastJoin, recoveryAttempts, joinFailures, streaks, activated, slept, rushed,
                 misused, straddled, recent>>

(* Joining: a session that is still there, or one join attempt a minute.      *)
Resume == /\ ~Interrupted /\ Polled("Joining") /\ activated
          /\ serviceState' = "Ready"
          /\ UNCHANGED <<now, phaseStarted, lastJoin, joinedAttempted, attempts, streaks,
                         activated, slept, rushed, spaced, stale, misused, straddled, recent>>

JoinDue_Unspaced == TRUE                                                \* mutant
JoinDue == ~joinedAttempted \/ Since(read, lastJoin) >= JoinRetry

(* lwActivate and lwSendReceive read millis() when they start, test later for   *)
(* a wrap since then, and last for the guard: a, b and c ticks from now.       *)
(* lwActivate has another guard, g ticks from now, before it reserves nonces.  *)
SendRefused(a, b, c)    == Later(b) < Later(a) \/ RolloverPending(Later(c))
JoinRefused(a, g, b, c) == RolloverPending(Later(g)) \/ SendRefused(a, b, c)

(* The ticks after which the library is called, or rolloverWait reads millis(). *)
SendStarts == {c \in 0..Jitter : \E b \in 0..c : \E a \in 0..b : ~SendRefused(a, b, c)}
SendDefers == {d \in 0..Jitter : \E c \in 0..d : \E b \in 0..c : \E a \in 0..b : SendRefused(a, b, c)}
JoinStarts == {c \in 0..Jitter : \E b \in 0..c : \E g \in 0..b : \E a \in 0..g : ~JoinRefused(a, g, b, c)}
JoinDefers == {d \in 0..Jitter : \E c \in 0..d : \E b \in 0..c : \E g \in 0..b : \E a \in 0..g :
                                   JoinRefused(a, g, b, c)}

(* A library call that begins c ticks from now and lasts k. *)
NodeIsOld(c) == stale \/ now + c >= Wrap
Calls(c, k) ==
  /\ misused' = (misused \/ Later(c) + k >= Wrap \/ (NodeIsOld(c) /\ Later(c) >= read))
  /\ straddled' = (straddled \/ (NodeIsOld(c) /\ Later(c) < read))
JoinAccepted ==
  /\ ~Interrupted /\ Polled("Joining") /\ ~activated /\ JoinDue
  /\ joinedAttempted' = TRUE
  /\ \E c \in JoinStarts, k \in 0..Guard, f \in 0..Jitter :
       Calls(c, k) /\ Passes(c + k + f) /\ Spaces(c + k + f)
  /\ activated' = TRUE /\ serviceState' = "Ready"
  /\ joinFailures' = 0 /\ txFailures' = 0
  /\ lastJoin' = now'
  /\ recent' = <<>>
  /\ UNCHANGED <<phaseStarted, initAttempts, recoveryAttempts, capacityFailures,
                 unavailableFailures, capacityTried, slept, rushed>>

(* A permanent or persistence error may come before the call or after it,    *)
(* when an accepted session cannot be saved; a deferral only before it.       *)
(* cooldown() and lastJoin read millis() one after the other, f ticks apart.   *)
JoinFailed ==
  /\ ~Interrupted /\ Polled("Joining") /\ ~activated /\ JoinDue
  /\ joinedAttempted' = TRUE
  /\ \/ \E c \in 0..Jitter :                               \* an error before the call
          /\ Passes(c) /\ spaced' = 0 /\ RadioFault
          /\ UNCHANGED <<misused, straddled, activated, attempts, streaks, phaseStarted, slept>>
     \/ \E d \in JoinDefers : \E e \in d..Jitter, f \in 0..Jitter :    \* deferred by the guard
          /\ Passes(e + f) /\ spaced' = AtMost(e + f - d, JoinRetry)
          /\ RolloverWait(Later(d), Later(e))
          /\ UNCHANGED <<misused, straddled, activated>>
     \/ \E c \in JoinStarts, k \in 0..Guard, f \in 0..Jitter :
          /\ Calls(c, k) /\ Passes(c + k + f) /\ spaced' = AtMost(f, JoinRetry)
          /\ \/ /\ RadioFault                               \* a permanent error
                /\ activated' \in BOOLEAN
                /\ UNCHANGED <<attempts, streaks, phaseStarted, slept>>
             \/ /\ Enough(joinFailures + 1)                \* a hardware error
                /\ Cooldown(Later(c + k))
                /\ UNCHANGED activated
             \/ /\ \/ ~Enough(joinFailures + 1) /\ joinFailures' = joinFailures + 1
                   \/ joinFailures' = 0                     \* no accept, or another error
                /\ UNCHANGED <<serviceState, phaseStarted, initAttempts, recoveryAttempts, streaks, activated,
                               slept>>
  /\ lastJoin' = now'
  /\ UNCHANGED <<rushed, recent>>

(* Ready: back to Joining when the session is gone. *)
CheckSession ==
  /\ ~Interrupted /\ Polled("Ready")
  /\ IF activated THEN UNCHANGED <<serviceState, joinedAttempted>>
     ELSE serviceState' = "Joining" /\ joinedAttempted' = FALSE
  /\ UNCHANGED <<now, phaseStarted, lastJoin, attempts, streaks, activated, slept, rushed,
                 spaced, stale, misused, straddled, recent>>

(* Rollover: the wrap shows as a millis() below the one the wait began at. *)
WrapSeen == read < phaseStarted
AwaitWrap ==
  /\ Polled("Rollover") /\ UNCHANGED now
  /\ IF WrapSeen THEN Cooldown(now)
     ELSE UNCHANGED <<serviceState, phaseStarted, attempts, streaks, slept>>
  /\ UNCHANGED <<lastJoin, joinedAttempted, activated, rushed, spaced, stale, misused, straddled, recent>>

(* Cooldown: after a minute a new node, up to three times. *)
Rest ==
  /\ ~Interrupted /\ Polled("Cooldown") /\ ~Rested(read, phaseStarted)
  /\ UNCHANGED <<now, serviceState, phaseStarted, lastJoin, joinedAttempted, attempts, streaks,
                 activated, slept, rushed, spaced, stale, misused, straddled, recent>>
Recover ==
  /\ ~Interrupted /\ Polled("Cooldown") /\ Rested(read, phaseStarted)
  /\ \E d \in 0..Jitter : Rebuild(recoveryAttempts, 0, d)
  /\ rushed' = FALSE
  /\ UNCHANGED <<lastJoin, initAttempts, joinFailures, txFailures, capacityFailures,
                 unavailableFailures, misused, straddled, recent>>

Poll == \/ Interrupt \/ Initialize \/ Resume \/ JoinAccepted \/ JoinFailed
        \/ CheckSession \/ AwaitWrap \/ Rest \/ Recover

-----------------------------------------------------------------------------
(* The scheduler asks for a transaction in the turn of the loop that polled:  *)
(* lwServiceReady, lwServiceWait, then lwTransmit.                            *)
ServiceReady == serviceState = "Ready" /\ activated

(* timeUntilUplink is beyond INT32_MAX: abandoned receive windows. *)
Reports == turn = "report" /\ turn' = "asleep" /\ UNCHANGED read
WaitTooLong ==
  /\ Reports /\ ServiceReady
  /\ \E d \in 0..Jitter : Passes(d) /\ Spaces(d) /\ Cooldown(Later(d))
  /\ UNCHANGED <<serviceTick, lastJoin, joinedAttempted, activated, rushed, misused, straddled, recent>>

(* The counters after an error of one class. *)
TxStreak_AnyError(outcome) == txFailures                               \* mutant
TxStreak(outcome) == IF outcome = "Hardware" THEN txFailures ELSE 0
CapacityStreak(outcome) == IF outcome = "Capacity" THEN capacityFailures ELSE 0
UnavailableStreak(outcome) ==
  IF outcome \in {"Unavailable", "UnavailableWait"} THEN unavailableFailures ELSE 0
Remember(outcome) ==
  LET kind == IF outcome = "Hardware" THEN outcome ELSE "Other"
      run  == IF recent # <<>> /\ Head(recent) = kind THEN recent ELSE <<>>
  IN IF kind = "Other" THEN <<kind>> ELSE Append(IF Len(run) < Streak THEN run ELSE Tail(run), kind)

(* lwTryCapacityDataRate offers DR1 once; the packet may not fit there either. *)
TryCapacityDataRate == /\ capacityTried' = TRUE
                       /\ (~capacityTried /\ UNCHANGED serviceState) \/ RadioFault

(* A transaction ended in this outcome: lwTransmit after lwSendReceive. *)
Settle(outcome) ==
  /\ recent' = Remember(outcome)
  /\ \/ /\ outcome = "Ok"
        /\ txFailures' = 0 /\ capacityFailures' = 0 /\ unavailableFailures' = 0
        /\ capacityTried' = FALSE
        /\ UNCHANGED <<serviceState, phaseStarted, joinedAttempted, attempts, slept>>
     \/ /\ outcome = "Permanent" /\ RadioFault
        /\ txFailures' = TxStreak(outcome) /\ capacityFailures' = CapacityStreak(outcome)
        /\ unavailableFailures' = UnavailableStreak(outcome)
        /\ UNCHANGED <<capacityTried, phaseStarted, joinedAttempted, attempts, slept>>
     \/ /\ outcome = "NotJoined"
        /\ serviceState' = "Joining" /\ joinedAttempted' = FALSE
        /\ txFailures' = TxStreak(outcome) /\ capacityFailures' = CapacityStreak(outcome)
        /\ unavailableFailures' = UnavailableStreak(outcome)
        /\ UNCHANGED <<capacityTried, phaseStarted, attempts, slept>>
     \/ /\ outcome \in {"Hardware", "Unavailable"}
        /\ LET hardware == TxStreak(outcome) + (IF outcome = "Hardware" THEN 1 ELSE 0)
               unavailable == UnavailableStreak(outcome) + (IF outcome = "Unavailable" THEN 1 ELSE 0)
           IN IF Enough(hardware) \/ Enough(unavailable) THEN Cooldown(now')
              ELSE /\ txFailures' = hardware /\ unavailableFailures' = unavailable
                   /\ capacityFailures' = CapacityStreak(outcome)
                   /\ UNCHANGED <<serviceState, phaseStarted, attempts, capacityTried, slept>>
        /\ UNCHANGED joinedAttempted
     \/ /\ outcome = "Capacity"
        /\ txFailures' = 0 /\ unavailableFailures' = 0
        /\ IF ~Enough(capacityFailures + 1)
           THEN capacityFailures' = capacityFailures + 1 /\ UNCHANGED <<serviceState, capacityTried>>
           ELSE capacityFailures' = 0 /\ TryCapacityDataRate
        /\ UNCHANGED <<phaseStarted, joinedAttempted, attempts, slept>>
     \/ /\ outcome \in {"UnavailableWait", "Other"}
        /\ txFailures' = 0 /\ capacityFailures' = 0
        /\ unavailableFailures' = UnavailableStreak(outcome)
        /\ UNCHANGED <<serviceState, phaseStarted, joinedAttempted, attempts, capacityTried, slept>>

(* A pin that failed ends it before the guard is looked at. *)
Transmit ==
  /\ Reports /\ ServiceReady
  /\ \/ /\ \E c \in SendStarts, k \in 0..Guard, f \in 0..Jitter :
             Calls(c, k) /\ Passes(c + k + f) /\ Spaces(c + k + f)
        /\ \E outcome \in Outcomes : Settle(outcome)
     \/ /\ \E d \in 0..Jitter : Passes(d) /\ Spaces(d)
        /\ Settle("Permanent") /\ UNCHANGED <<misused, straddled>>
  /\ activated' \in {activated, FALSE}
  /\ UNCHANGED <<serviceTick, lastJoin, rushed>>

(* A join took the turn of the loop up to the guard, or the wrap came just    *)
(* then: lwSendReceive defers, and its error breaks the streaks.               *)
TransmitDeferred ==
  /\ Reports /\ ServiceReady
  /\ \E d \in SendDefers : \E e \in d..Jitter :
       /\ Passes(e) /\ Spaces(e)
       /\ \/ /\ RolloverPending(Later(d))
             /\ serviceState' = "Rollover" /\ phaseStarted' = Later(d)
             /\ txFailures' = 0 /\ capacityFailures' = 0 /\ unavailableFailures' = 0
             /\ UNCHANGED <<attempts, capacityTried, slept>>
          \/ ~RolloverPending(Later(d)) /\ Cooldown(Later(e))
  /\ UNCHANGED <<serviceTick, lastJoin, joinedAttempted, activated, rushed, misused, straddled, recent>>

(* lwServiceStop, for a reset that the downlink of this turn has confirmed: no *)
(* poll follows.                                                              *)
Stop == /\ turn = "asleep" /\ serviceState \notin {"Stopped", "Fault"}
        /\ serviceState' = "Stopped"
        /\ UNCHANGED <<turn, now, read, timers, attempts, streaks, activated, slept, rushed, spaced,
                       stale, misused, straddled, recent>>

(* A radio that is stopped or in Fault ignores its polls, and the time. *)
Idle == /\ serviceState \in {"Stopped", "Fault"} /\ turn # "poll"
        /\ UNCHANGED vars
NotYet == /\ ~Interrupted
          /\ \/ Polled("Initializing") /\ ~BackedOff
             \/ Polled("Joining") /\ ~activated /\ ~JoinDue
          /\ UNCHANGED <<now, serviceState, phaseStarted, lastJoin, joinedAttempted, attempts, streaks,
                         activated, slept, rushed, spaced, stale, misused, straddled, recent>>

Loop == Poll \/ NotYet \/ Idle \/ WaitTooLong \/ Transmit \/ TransmitDeferred
Next == Pause \/ Loop \/ Stop

Spec == Init /\ [][Next]_vars
FairSpec == Spec /\ WF_vars(Pause \/ Loop)

-----------------------------------------------------------------------------
(* No join and no transaction is in progress when millis() wraps, however     *)
(* long it takes within the guard; and no node with timestamps from before a  *)
(* wrap is used for one, but in the very turn of the loop whose poll made its  *)
(* first reading before that wrap: the next poll notices, also after a sleep.  *)
TimestampsAreSafe == ~misused

(* Rollover pauses and fresh recovery prevent the use of a node with           *)
(* timestamps from before a wrap, whenever that wrap comes.                    *)
OldTimestampsAreUnused == ~(misused \/ straddled)

(* A radio that recovers has rested a full RECOVERY_MS since it last failed.  *)
CooldownIsObserved == ~rushed

(* Neither retry comes early, wherever the counter wraps.  A cooldown that     *)
(* outlives the poll it began in lasts a full RECOVERY_MS, as does the wait    *)
(* after a recovery that failed; and after a join that failed the next one     *)
(* comes a minute later at least, over every path that leads back to Joining,  *)
(* but for a node rebuilt without its rest.                                    *)
RestedSteps ==
  /\ Recover => slept >= Recovery
  /\ JoinAccepted \/ JoinFailed => spaced >= JoinRetry \/ rushed
RestsAreWhole == [][RestedSteps]_vars

(* A radio that cools down after hardware errors has had three in a row in    *)
(* the same session: a success, another error or a new join starts afresh.    *)
HardwareStreakIsReal ==
  txFailures > 0 => /\ Len(recent) >= txFailures
                    /\ \A i \in Len(recent) - txFailures + 1 .. Len(recent) : recent[i] = "Hardware"

(* A radio that waits, rests or initializes gets back to Joining or gives up. *)
RadioComesBack ==
  serviceState \in {"Initializing", "Cooldown", "Rollover"} ~>
    serviceState \in {"Joining", "Fault", "Stopped"}
=============================================================================
