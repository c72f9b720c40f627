------------------------------ MODULE DevNonce ------------------------------
(***************************************************************************)
(* The OTAA join path of lorawan_service.cpp: a batch of DevNonces is      *)
(* reserved in the journal before a join request may be transmitted, an    *)
(* attempt whose transmission is uncertain skips to the reserved bound,    *)
(* and every boot or radio recovery resumes from the stored bound.         *)
(*                                                                         *)
(* A power loss can come between any two steps.  The journal is used as a  *)
(* NonceRegister: storageNonceSave either returns TRUE with the new        *)
(* content readable, or fails or is cut short with the old content, the    *)
(* new content, or a journal that is refused.                              *)
(***************************************************************************)
EXTENDS Integers

CONSTANTS MaxNonce,   \* UINT16_MAX
          Batch,      \* 16: values reserved by one flash write
          MaxJoin,    \* bound on JoinNonce values the network hands out
          None, Refused

ASSUME NonceAssumption == MaxNonce \in Nat /\ Batch \in Nat \ {0} /\ MaxJoin \in Nat

Nonces  == 0..MaxNonce
Content == [dev : Nonces, join : 0..MaxJoin]
ASSUME StoreAssumption == {None, Refused} \cap Content = {} /\ None # Refused

VARIABLES
  stored,      \* the journal: a Content, None or Refused
  authorised,  \* a confirmed factory erase is in progress
  phase,       \* RadioState, and "Off" between a power loss and the next boot
  pc,          \* where lwActivate is: a power loss may come at each point
  healthy,     \* gPersistenceHealthy
  devNonce,    \* gNode's next DevNonce
  joinNonce,   \* gNode's last accepted JoinNonce
  active,      \* gNode.isActivated()
  limit,       \* gReservedNonceLimit
  buffer,      \* gLWnonces
  sent,        \* history: how often each DevNonce may have been on the air
  sessions     \* history: how often a session of each JoinNonce became Ready

store   == <<stored, authorised>>
node    == <<healthy, devNonce, joinNonce, active, limit, buffer>>
history == <<sent, sessions>>
vars    == <<stored, authorised, phase, pc, healthy, devNonce, joinNonce, active,
             limit, buffer, sent, sessions>>

Phases == {"Off", "Initializing", "Joining", "Ready", "Cooldown", "Fault", "Stopped"}
Steps  == {"idle", "reserving", "armed", "listening", "uncertain", "accepted"}
Blank  == [dev |-> 0, join |-> 0]
Once(count, n) == [count EXCEPT ![n] = @ + 1]

Init == /\ stored = None /\ authorised = FALSE
        /\ phase = "Off" /\ pc = "idle" /\ healthy = TRUE
        /\ devNonce = 0 /\ joinNonce = 0 /\ active = FALSE
        /\ limit = 0 /\ buffer = Blank
        /\ sent = [n \in Nonces |-> 0] /\ sessions = [j \in 0..MaxJoin |-> 0]

-----------------------------------------------------------------------------
(* What a save writes: the node's buffer with the reserved bound in place   *)
(* of its DevNonce.                                                         *)
ReservedNonces_OldJoin(highWater, join) == [dev |-> highWater, join |-> buffer.join]  \* mutant
ReservedNonces(highWater, join) == [dev |-> highWater, join |-> join]

(* storageNonceSave returns TRUE: the record is written and read back. *)
SaveSucceeds(content) == stored # Refused /\ stored' = content /\ UNCHANGED authorised
(* It fails, or power is lost inside it. *)
SaveCutShort(content) == stored' \in {stored, content, Refused} /\ UNCHANGED authorised

-----------------------------------------------------------------------------
(* lwServiceStart, then lwServicePoll of Initializing. *)
Boot == /\ phase = "Off"
        /\ phase' = "Initializing" /\ healthy' = TRUE
        /\ devNonce' = 0 /\ joinNonce' = 0 /\ active' = FALSE
        /\ limit' = 0 /\ buffer' = Blank
        /\ UNCHANGED <<store, history, pc>>

(* lwRestore into a node that lwBegin has just started: it resumes from the  *)
(* stored bound, or from zero with an erased journal.                        *)
RestoredFrom(content) == IF content = None THEN Blank ELSE content
Restore ==
  \/ /\ stored # Refused
     /\ devNonce' = RestoredFrom(stored).dev
     /\ joinNonce' = RestoredFrom(stored).join
     /\ limit' = devNonce'
     /\ buffer' = IF stored = None THEN buffer ELSE stored
     /\ phase' = "Joining"
     /\ UNCHANGED healthy
  \/ \* the journal is refused or unreadable, or setBufferNonces rejects it
     /\ healthy' = FALSE
     /\ devNonce' = 0 /\ joinNonce' = 0
     /\ buffer' \in {buffer} \cup ({stored} \cap Content)
     /\ phase' = "Fault"
     /\ UNCHANGED limit

(* Three failed lwBegin attempts fault the radio before anything is restored. *)
Initialize == /\ phase = "Initializing"
              /\ \/ Restore /\ active' = FALSE
                 \/ phase' = "Fault" /\ UNCHANGED node
              /\ UNCHANGED <<store, history, pc>>

(* lwRecover, at the end of a cooldown: a new node is constructed, then the  *)
(* radio is initialised and the reservation restored.  A failed lwBegin is   *)
(* retried twice; lost persistence faults the radio.                         *)
Recover == /\ phase = "Cooldown"
           /\ \/ healthy /\ Restore /\ active' = FALSE
              \/ /\ healthy
                 /\ phase' \in {"Cooldown", "Fault"}
                 /\ devNonce' = 0 /\ joinNonce' = 0 /\ active' = FALSE
                 /\ UNCHANGED <<healthy, limit, buffer>>
              \/ ~healthy /\ phase' = "Fault" /\ UNCHANGED node
           /\ UNCHANGED <<store, history, pc>>

-----------------------------------------------------------------------------
NeedsReservation_OffByOne(next) == next > limit                     \* mutant
NeedsReservation(next) == next >= limit
ReserveLimit_Unclamped(next) == next + Batch                        \* mutant
ReserveLimit_Wraps(next) == (next + Batch) % (MaxNonce + 1)         \* mutant
ReserveLimit(next) == IF next + Batch > MaxNonce THEN MaxNonce ELSE next + Batch

(* lwServicePoll of Joining up to the reservation.  A GPIO failure or lost   *)
(* persistence faults the radio, the rollover guard puts the attempt off,    *)
(* and the last DevNonce is never used.                                      *)
Activate ==
  /\ phase = "Joining" /\ pc = "idle" /\ ~active
  /\ \/ phase' \in {"Fault", "Cooldown"} /\ UNCHANGED <<pc, limit, buffer>>
     \/ /\ healthy /\ devNonce # MaxNonce
        /\ IF NeedsReservation(devNonce)
           THEN /\ limit' = ReserveLimit(devNonce)
                /\ buffer' = ReservedNonces(limit', joinNonce)
                /\ pc' = "reserving"
           ELSE pc' = "armed" /\ UNCHANGED <<limit, buffer>>
        /\ UNCHANGED phase
  /\ UNCHANGED <<store, history, healthy, devNonce, joinNonce, active>>

(* lwSaveNonces before the transmission. *)
Reserve == /\ pc = "reserving"
           /\ \/ SaveSucceeds(buffer) /\ pc' = "armed" /\ UNCHANGED <<phase, healthy>>
              \/ /\ SaveCutShort(buffer)
                 /\ healthy' = FALSE /\ phase' = "Fault" /\ pc' = "idle"
           /\ UNCHANGED <<history, devNonce, joinNonce, active, limit, buffer>>

(* The rollover guard after the reservation: no transmission, and the        *)
(* reservation stays.                                                        *)
Defer == /\ pc = "armed"
         /\ pc' = "idle" /\ phase' = "Cooldown"
         /\ UNCHANGED <<store, node, history>>

(* activateOTAA: RadioLib advances the node's DevNonce once the transmission *)
(* has completed; one that ends in an error may have been on the air too.    *)
Transmit ==
  /\ pc = "armed"
  /\ \/ /\ sent' = Once(sent, devNonce)
        /\ devNonce' = devNonce + 1
        /\ pc' = "listening"
     \/ /\ sent' \in {sent, Once(sent, devNonce)}
        /\ pc' = "uncertain"
        /\ UNCHANGED devNonce
  /\ UNCHANGED <<store, phase, healthy, joinNonce, active, limit, buffer, sessions>>

(* No accept in either receive window: the next attempt comes a minute later, *)
(* after a cooldown if this is the third hardware error, or never after a     *)
(* GPIO failure.                                                              *)
NoAccept == /\ pc = "listening"
            /\ pc' = "idle"
            /\ phase' \in {"Joining", "Cooldown", "Fault"}
            /\ UNCHANGED <<store, node, history>>

(* RadioLib takes an accept whose JoinNonce is above the last one it knows.  *)
Accept == /\ pc = "listening"
          /\ \E j \in joinNonce + 1 .. MaxJoin : joinNonce' = j
          /\ buffer' = ReservedNonces(limit, joinNonce')
          /\ active' = TRUE
          /\ pc' = "accepted"
          /\ UNCHANGED <<store, phase, healthy, devNonce, limit, history>>

(* lwActivate saves the accepted JoinNonce before it reports the session;    *)
(* after a GPIO failure it is saved as well, and the radio faults.           *)
SaveSession ==
  /\ pc = "accepted"
  /\ \/ /\ SaveSucceeds(buffer)
        /\ \/ phase' = "Ready" /\ sessions' = Once(sessions, joinNonce)
           \/ phase' = "Fault" /\ UNCHANGED sessions
        /\ UNCHANGED healthy
     \/ /\ SaveCutShort(buffer)
        /\ healthy' = FALSE /\ phase' = "Fault"
        /\ UNCHANGED sessions
  /\ pc' = "idle"
  /\ UNCHANGED <<devNonce, joinNonce, active, limit, buffer, sent>>

(* setBufferNonces(gLWnonces): the node skips to the bound it has reserved.  *)
(* A GPIO failure returns before the skip, with the radio in Fault.          *)
SkippedTo_NoSkip(next) == next                                      \* mutant
SkippedTo(next) == buffer.dev
SkipReservation ==
  /\ pc = "uncertain"
  /\ \/ /\ devNonce' = SkippedTo(devNonce)
        /\ phase' \in {"Joining", "Cooldown", "Fault"}
        /\ UNCHANGED healthy
     \/ healthy' \in {healthy, FALSE} /\ phase' = "Fault" /\ UNCHANGED devNonce
  /\ pc' = "idle"
  /\ UNCHANGED <<store, history, joinNonce, active, limit, buffer>>

-----------------------------------------------------------------------------
(* A Ready radio finds its session gone, has its transmission refused as not  *)
(* joined, or cools down or faults after errors.                              *)
LoseSession == /\ phase = "Ready"
               /\ phase' \in {"Joining", "Cooldown", "Fault"}
               /\ active' \in {active, FALSE}
               /\ UNCHANGED <<store, history, pc, healthy, devNonce, joinNonce, limit, buffer>>

(* Joining with a session that is still active. *)
Resume == /\ phase = "Joining" /\ pc = "idle" /\ active
          /\ phase' = "Ready"
          /\ UNCHANGED <<store, node, history, pc>>

(* A power loss, a watchdog or a reboot; in a save it may leave the record    *)
(* readable or damaged, in a factory erase any remains of the pages.          *)
PowerLoss == /\ phase # "Off"
             /\ \/ pc \in {"reserving", "accepted"} /\ SaveCutShort(buffer)
                \/ authorised /\ authorised' = FALSE /\ stored' \in Content \cup {None, Refused}
                \/ pc \notin {"reserving", "accepted"} /\ ~authorised /\ UNCHANGED store
             /\ phase' = "Off" /\ pc' = "idle"
             /\ UNCHANGED <<node, history>>

(* A confirmed factory reset arrives on a downlink and stops the radio.       *)
ConfirmReset == /\ phase = "Ready"
                /\ phase' = "Stopped"
                /\ UNCHANGED <<store, pc, node, history>>

(* Once the sensor has stopped the pages are erased.  What was transmitted    *)
(* before no longer counts: the reset gives the history up.                   *)
BeginErase == /\ phase = "Stopped" /\ ~authorised
              /\ authorised' = TRUE
              /\ sent' = [n \in Nonces |-> 0]
              /\ sessions' = [j \in 0..MaxJoin |-> 0]
              /\ UNCHANGED <<stored, phase, pc, node>>

(* storageFactoryErase: done and restarted, or failed part of the way.        *)
Erase == /\ phase = "Stopped" /\ authorised
         /\ \/ stored' = None /\ authorised' = FALSE /\ phase' = "Off"
            \/ stored' \in Content \cup {None, Refused} /\ UNCHANGED <<authorised, phase>>
         /\ UNCHANGED <<pc, node, history>>

Next == \/ Boot \/ Initialize \/ Recover \/ Activate \/ Reserve \/ Defer \/ Transmit
        \/ NoAccept \/ Accept \/ SaveSession \/ SkipReservation \/ LoseSession
        \/ Resume \/ PowerLoss \/ ConfirmReset \/ BeginErase \/ Erase

Spec == Init /\ [][Next]_vars

-----------------------------------------------------------------------------
(* Types of the variables. *)
TypeOK ==
  /\ stored \in Content \cup {None, Refused} /\ authorised \in BOOLEAN
  /\ phase \in Phases /\ pc \in Steps
  /\ healthy \in BOOLEAN /\ active \in BOOLEAN
  /\ devNonce \in Nonces /\ joinNonce \in 0..MaxJoin /\ limit \in Nonces
  /\ buffer \in Content
  /\ sent \in [Nonces -> Nat] /\ sessions \in [0..MaxJoin -> Nat]

(* No DevNonce is on the air twice, whatever the order of timeouts, uncertain *)
(* transmissions, recoveries and power losses (lwActivate, lwRecover,         *)
(* lwRestore), until a factory reset.                                         *)
NonceUsedOnce == \A n \in Nonces : sent[n] <= 1

(* Whatever may have been on the air lies below the bound that the next       *)
(* restore reads, so a restart cannot repeat it; UINT16_MAX never is.         *)
SentIsReserved ==
  /\ sent[MaxNonce] = 0
  /\ stored # Refused => \A n \in Nonces : sent[n] > 0 => n < RestoredFrom(stored).dev

(* No two sessions that became Ready share a JoinNonce: lwActivate makes an   *)
(* accepted JoinNonce durable before it reports the session, so neither a     *)
(* cooldown nor a restart lets an old accept in again.                        *)
SessionsAreFresh ==
  /\ \A j \in 0..MaxJoin : sessions[j] <= 1
  /\ phase = "Ready" => stored \in Content /\ stored.join = joinNonce

(* The joins use the store as a NonceRegister: what they save never takes the *)
(* reserved bound or the JoinNonce back (lwSaveNonces writes the bound, never *)
(* the lower next DevNonce).                                                  *)
Supersedes(a, b) == a.dev >= b.dev /\ a.join >= b.join
Register == INSTANCE NonceRegister WITH reg <- stored
RegisterSpec == Register!Spec
=============================================================================
