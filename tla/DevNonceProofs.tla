--------------------------- MODULE DevNonceProofs ---------------------------
(***************************************************************************)
(* The safety of the join path for every nonce space, batch and JoinNonce  *)
(* bound.  The properties of DevNonce are not inductive: that no DevNonce  *)
(* is repeated rests on where lwActivate stands, on what gLWnonces holds   *)
(* and on what a restart would read.  IInv says all of it.                 *)
(***************************************************************************)
EXTENDS DevNonce, TLAPS

(* The bound and the JoinNonce that a restart would resume from. *)
Durable == RestoredFrom(stored)

(* A step of lwActivate is under way only while the radio is Joining. *)
ControlInv == /\ pc # "idle" => phase = "Joining"
              /\ phase \in {"Joining", "Ready"} => stored # Refused
              /\ phase = "Ready" => stored \in Content
              /\ phase = "Joining" /\ pc = "idle" /\ active => stored \in Content
              /\ pc \in {"reserving", "armed", "listening", "uncertain"} => ~active
              /\ authorised => phase = "Stopped"

(* gReservedNonceLimit is the durable bound, except while it is being saved, *)
(* and gLWnonces holds it as long as some of the reservation is unused.      *)
ReservationInv ==
  phase \in {"Joining", "Ready"} =>
    /\ devNonce <= limit
    /\ Durable.dev <= limit
    /\ pc # "reserving" => Durable.dev = limit
    /\ pc \in {"reserving", "armed", "uncertain"} => devNonce < limit
    /\ devNonce < limit => buffer.dev = limit

(* The node's JoinNonce is the durable one, except while a new one is saved. *)
JoinInv ==
  phase \in {"Joining", "Ready"} =>
    /\ pc # "accepted" => joinNonce = Durable.join
    /\ pc = "accepted" => joinNonce > Durable.join
    /\ pc \in {"reserving", "accepted"} => buffer = [dev |-> limit, join |-> joinNonce]

(* What was sent lies below the node's next DevNonce and the durable bound.  *)
SentInv ==
  \A n \in Nonces : sent[n] > 0 =>
    /\ ~authorised
    /\ n < MaxNonce
    /\ stored # Refused => n < Durable.dev
    /\ phase \in {"Joining", "Ready"} => IF pc = "uncertain" THEN n <= devNonce ELSE n < devNonce

(* Every session that became Ready has a durable JoinNonce.                  *)
SessionInv ==
  \A j \in 0..MaxJoin :
    /\ sessions[j] <= 1
    /\ sessions[j] > 0 => /\ ~authorised
                          /\ stored # Refused => j <= Durable.join

IInv == /\ TypeOK /\ ControlInv /\ ReservationInv /\ JoinInv
        /\ NonceUsedOnce /\ SentInv /\ SessionInv

-----------------------------------------------------------------------------
(* What a nonce record holds, and that it is neither None nor Refused. *)
LEMMA ContentFields ==
  ASSUME NEW c \in Content
  PROVE  c.dev \in Nonces /\ c.join \in 0..MaxJoin /\ c # None /\ c # Refused
  BY StoreAssumption DEF Content

LEMMA ContentMade ==
  ASSUME NEW d \in Nonces, NEW j \in 0..MaxJoin
  PROVE  LET c == [dev |-> d, join |-> j] IN c \in Content /\ c.dev = d /\ c.join = j
  BY DEF Content

LEMMA BlankContent == Blank \in Content /\ Blank.dev = 0 /\ Blank.join = 0
  BY NonceAssumption DEF Blank, Content, Nonces

(* The durable bound of any store that is not refused is a Content. *)
LEMMA DurableType ==
  ASSUME TypeOK, stored # Refused
  PROVE  RestoredFrom(stored) \in Content
  BY BlankContent DEF TypeOK, RestoredFrom

(* Counting one more occurrence changes one count. *)
LEMMA OnceCounts ==
  ASSUME NEW S, NEW f \in [S -> Nat], NEW x \in S
  PROVE  /\ Once(f, x) \in [S -> Nat]
         /\ Once(f, x)[x] = f[x] + 1
         /\ \A y \in S : y # x => Once(f, x)[y] = f[y]
  BY DEF Once

(* A new reservation is above the next DevNonce and within the nonce space. *)
LEMMA ReserveLimitBounds ==
  ASSUME NEW n \in Nonces, n # MaxNonce
  PROVE  ReserveLimit(n) \in Nonces /\ n < ReserveLimit(n)
  BY NonceAssumption DEF ReserveLimit, Nonces

-----------------------------------------------------------------------------
LEMMA InitInv == Init => IInv
  <1> SUFFICES ASSUME Init PROVE IInv
    OBVIOUS
  <1> USE DEF Init
  <1>1. TypeOK
    <2>1. stored \in Content \cup {None, Refused} /\ phase \in Phases /\ pc \in Steps
      BY DEF Phases, Steps
    <2>2. authorised \in BOOLEAN /\ healthy \in BOOLEAN /\ active \in BOOLEAN
      OBVIOUS
    <2>3. devNonce \in Nonces /\ joinNonce \in 0..MaxJoin /\ limit \in Nonces /\ buffer \in Content
      BY NonceAssumption, BlankContent DEF Nonces
    <2>4. sent \in [Nonces -> Nat] /\ sessions \in [0..MaxJoin -> Nat]
      OBVIOUS
    <2> QED
      BY <2>1, <2>2, <2>3, <2>4 DEF TypeOK
  <1>2. ControlInv /\ ReservationInv /\ JoinInv
    BY DEF ControlInv, ReservationInv, JoinInv
  <1>3. NonceUsedOnce /\ SentInv /\ SessionInv
    BY DEF NonceUsedOnce, SentInv, SessionInv
  <1> QED
    BY <1>1, <1>2, <1>3 DEF IInv

LEMMA BootInv == IInv /\ Boot => IInv'
  <1> SUFFICES ASSUME IInv, Boot PROVE IInv'
    OBVIOUS
  <1> USE DEF IInv, Boot, store, node, history
  <1>1. TypeOK'
    <2>1. (authorised \in BOOLEAN /\ healthy \in BOOLEAN /\ active \in BOOLEAN)'
      <3>1. authorised' \in BOOLEAN
        BY DEF TypeOK
      <3>2. healthy' \in BOOLEAN /\ active' \in BOOLEAN
        OBVIOUS
      <3> QED
        BY <3>1, <3>2
    <2>2. (phase \in Phases /\ pc \in Steps)'
      BY DEF TypeOK, Phases, Steps
    <2>3. (stored \in Content \cup {None, Refused})'
      BY DEF TypeOK
    <2>4. (devNonce \in Nonces /\ limit \in Nonces)'
      BY NonceAssumption, ContentFields, BlankContent, DurableType, ReserveLimitBounds
         DEF TypeOK, ReservationInv, ControlInv, Nonces, RestoredFrom
    <2>5. (joinNonce \in 0..MaxJoin)'
      BY NonceAssumption, ContentFields, BlankContent DEF TypeOK, RestoredFrom
    <2>6. (buffer \in Content)'
      BY ContentFields, BlankContent, ContentMade, ReserveLimitBounds, NonceAssumption
         DEF TypeOK
    <2>7. (sent \in [Nonces -> Nat] /\ sessions \in [0..MaxJoin -> Nat])'
      BY OnceCounts DEF TypeOK
    <2> QED
      BY <2>1, <2>2, <2>3, <2>4, <2>5, <2>6, <2>7 DEF TypeOK
  <1>2. ControlInv' /\ ReservationInv' /\ JoinInv' /\ NonceUsedOnce' /\ SentInv' /\ SessionInv'
    BY DEF ControlInv, ReservationInv, JoinInv, NonceUsedOnce, SentInv, SessionInv, Durable
  <1> QED
    BY <1>1, <1>2

LEMMA InitializeInv == IInv /\ Initialize => IInv'
  <1> SUFFICES ASSUME IInv, Initialize PROVE IInv'
    OBVIOUS
  <1> USE DEF IInv, Initialize, Restore, store, node, history
  <1>1. TypeOK'
    <2>1. (authorised \in BOOLEAN /\ healthy \in BOOLEAN /\ active \in BOOLEAN)'
      BY DEF TypeOK
    <2>2. (phase \in Phases /\ pc \in Steps)'
      BY DEF TypeOK, Phases, Steps
    <2>3. (stored \in Content \cup {None, Refused})'
      BY DEF TypeOK
    <2>4. (devNonce \in Nonces /\ limit \in Nonces)'
      BY NonceAssumption, ContentFields, BlankContent, DurableType, ReserveLimitBounds
         DEF TypeOK, ReservationInv, ControlInv, Nonces, RestoredFrom
    <2>5. (joinNonce \in 0..MaxJoin)'
      BY NonceAssumption, ContentFields, BlankContent DEF TypeOK, RestoredFrom
    <2>6. (buffer \in Content)'
      BY ContentFields, BlankContent, ContentMade, ReserveLimitBounds, NonceAssumption
         DEF TypeOK
    <2>7. (sent \in [Nonces -> Nat] /\ sessions \in [0..MaxJoin -> Nat])'
      BY OnceCounts DEF TypeOK
    <2> QED
      BY <2>1, <2>2, <2>3, <2>4, <2>5, <2>6, <2>7 DEF TypeOK
  <1>2. ControlInv' /\ NonceUsedOnce' /\ SessionInv'
    BY DEF ControlInv, NonceUsedOnce, SessionInv, Durable
  <1>3. ReservationInv'
    BY SMTT(30), NonceAssumption, ContentFields, BlankContent, ReserveLimitBounds, DurableType
       DEF TypeOK, ControlInv, ReservationInv, JoinInv, Durable, RestoredFrom, Nonces
  <1>4. JoinInv'
    BY ContentFields, ContentMade, BlankContent, DurableType
       DEF TypeOK, ControlInv, ReservationInv, JoinInv, Durable, RestoredFrom, Nonces
  <1>5. SentInv'
    BY NonceAssumption, ContentFields, OnceCounts, DurableType
       DEF TypeOK, ControlInv, ReservationInv, JoinInv, SentInv, Durable, RestoredFrom, Nonces
  <1> QED
    BY <1>1, <1>2, <1>3, <1>4, <1>5

LEMMA RecoverInv == IInv /\ Recover => IInv'
  <1> SUFFICES ASSUME IInv, Recover PROVE IInv'
    OBVIOUS
  <1> USE DEF IInv, Recover, Restore, store, node, history
  <1>1. TypeOK'
    <2>1. (authorised \in BOOLEAN /\ healthy \in BOOLEAN /\ active \in BOOLEAN)'
      BY DEF TypeOK
    <2>2. (phase \in Phases /\ pc \in Steps)'
      BY DEF TypeOK, Phases, Steps
    <2>3. (stored \in Content \cup {None, Refused})'
      BY DEF TypeOK
    <2>4. (devNonce \in Nonces /\ limit \in Nonces)'
      BY NonceAssumption, ContentFields, BlankContent, DurableType, ReserveLimitBounds
         DEF TypeOK, ReservationInv, ControlInv, Nonces, RestoredFrom
    <2>5. (joinNonce \in 0..MaxJoin)'
      BY NonceAssumption, ContentFields, BlankContent DEF TypeOK, RestoredFrom
    <2>6. (buffer \in Content)'
      BY ContentFields, BlankContent, ContentMade, ReserveLimitBounds, NonceAssumption
         DEF TypeOK
    <2>7. (sent \in [Nonces -> Nat] /\ sessions \in [0..MaxJoin -> Nat])'
      BY OnceCounts DEF TypeOK
    <2> QED
      BY <2>1, <2>2, <2>3, <2>4, <2>5, <2>6, <2>7 DEF TypeOK
  <1>2. ControlInv' /\ NonceUsedOnce' /\ SessionInv'
    BY DEF ControlInv, NonceUsedOnce, SessionInv, Durable
  <1>3. ReservationInv'
    BY NonceAssumption, ContentFields, BlankContent, ReserveLimitBounds, DurableType
       DEF TypeOK, ControlInv, ReservationInv, JoinInv, Durable, RestoredFrom, Nonces
  <1>4. JoinInv'
    BY ContentFields, ContentMade, BlankContent, DurableType
       DEF TypeOK, ControlInv, ReservationInv, JoinInv, Durable, RestoredFrom, Nonces
  <1>5. SentInv'
    BY NonceAssumption, ContentFields, OnceCounts, DurableType
       DEF TypeOK, ControlInv, ReservationInv, JoinInv, SentInv, Durable, RestoredFrom, Nonces
  <1> QED
    BY <1>1, <1>2, <1>3, <1>4, <1>5

LEMMA ActivateInv == IInv /\ Activate => IInv'
  <1> SUFFICES ASSUME IInv, Activate PROVE IInv'
    OBVIOUS
  <1> USE DEF IInv, Activate, NeedsReservation, ReservedNonces, store, node, history
  <1>1. TypeOK'
    <2>1. (authorised \in BOOLEAN /\ healthy \in BOOLEAN /\ active \in BOOLEAN)'
      BY DEF TypeOK
    <2>2. (phase \in Phases /\ pc \in Steps)'
      BY DEF TypeOK, Phases, Steps
    <2>3. (stored \in Content \cup {None, Refused})'
      BY DEF TypeOK
    <2>4. (devNonce \in Nonces /\ limit \in Nonces)'
      BY NonceAssumption, ContentFields, BlankContent, DurableType, ReserveLimitBounds
         DEF TypeOK, ReservationInv, ControlInv, Nonces, RestoredFrom
    <2>5. (joinNonce \in 0..MaxJoin)'
      BY NonceAssumption, ContentFields, BlankContent DEF TypeOK, RestoredFrom
    <2>6. (buffer \in Content)'
      BY ContentFields, BlankContent, ContentMade, ReserveLimitBounds, NonceAssumption
         DEF TypeOK
    <2>7. (sent \in [Nonces -> Nat] /\ sessions \in [0..MaxJoin -> Nat])'
      BY OnceCounts DEF TypeOK
    <2> QED
      BY <2>1, <2>2, <2>3, <2>4, <2>5, <2>6, <2>7 DEF TypeOK
  <1>2. ControlInv' /\ JoinInv' /\ NonceUsedOnce' /\ SentInv' /\ SessionInv'
    BY DEF ControlInv, JoinInv, NonceUsedOnce, SentInv, SessionInv, Durable
  <1>3. ReservationInv'
    <2>1. CASE phase' # phase
      BY <2>1 DEF ReservationInv
    <2>2. CASE phase' = phase /\ NeedsReservation(devNonce)
      <3>1. limit' = ReserveLimit(devNonce) /\ pc' = "reserving" /\ buffer'.dev = limit'
        BY <2>2, ContentMade
      <3>2. devNonce < limit' /\ limit' \in Nat /\ limit \in Nat
        BY <2>2, <3>1, NonceAssumption, ReserveLimitBounds DEF TypeOK, Nonces
      <3>3. Durable.dev <= limit /\ limit <= devNonce /\ Durable' = Durable /\ Durable.dev \in Nat
        BY <2>2, NonceAssumption, DurableType, ContentFields
           DEF ReservationInv, ControlInv, Durable, Nonces, TypeOK, RestoredFrom
      <3> QED
        BY <2>2, <3>1, <3>2, <3>3 DEF ReservationInv, TypeOK, Nonces
    <2>3. CASE phase' = phase /\ ~NeedsReservation(devNonce)
      <3>1. Durable' = Durable /\ limit' = limit /\ buffer' = buffer /\ pc' = "armed"
        BY <2>3 DEF Durable, RestoredFrom
      <3> QED
        BY <2>3, <3>1, NonceAssumption DEF ReservationInv, TypeOK, Nonces
    <2> QED
      BY <2>1, <2>2, <2>3
  <1> QED
    BY <1>1, <1>2, <1>3

LEMMA ReserveInv == IInv /\ Reserve => IInv'
  <1> SUFFICES ASSUME IInv, Reserve PROVE IInv'
    OBVIOUS
  <1> USE DEF IInv, Reserve, SaveSucceeds, SaveCutShort, store, node, history
  <1>1. TypeOK'
    BY DEF TypeOK, Phases, Steps
  <1>2. NonceUsedOnce'
    BY DEF NonceUsedOnce
  <1>3. ControlInv'
    BY StoreAssumption, ContentFields, BlankContent
       DEF TypeOK, ControlInv, ReservationInv, RestoredFrom, Durable
  <1>4. ReservationInv'
    BY NonceAssumption, ContentFields, BlankContent, ReserveLimitBounds, DurableType
       DEF TypeOK, ControlInv, ReservationInv, JoinInv, Durable, RestoredFrom, Nonces
  <1>5. JoinInv'
    BY ContentFields, ContentMade, BlankContent, DurableType
       DEF TypeOK, ControlInv, ReservationInv, JoinInv, Durable, RestoredFrom, Nonces
  <1>6. SentInv'
    BY SMTT(30), NonceAssumption, ContentFields, OnceCounts, DurableType
       DEF TypeOK, ControlInv, ReservationInv, JoinInv, SentInv, Durable, RestoredFrom, Nonces
  <1>7. SessionInv'
    <2>1. Durable'.join = Durable.join \/ stored' = Refused
      BY ContentFields, BlankContent, ContentMade, DurableType
         DEF TypeOK, ControlInv, JoinInv, Durable, RestoredFrom
    <2> QED
      BY <2>1 DEF SessionInv, TypeOK, ControlInv, Durable
  <1> QED
    BY <1>1, <1>2, <1>3, <1>4, <1>5, <1>6, <1>7

LEMMA DeferInv == IInv /\ Defer => IInv'
  <1> SUFFICES ASSUME IInv, Defer PROVE IInv'
    OBVIOUS
  <1> USE DEF IInv, Defer, store, node, history
  <1>1. TypeOK'
    BY DEF TypeOK, Phases, Steps
  <1>2. ControlInv' /\ ReservationInv' /\ JoinInv' /\ NonceUsedOnce' /\ SentInv' /\ SessionInv'
    BY DEF ControlInv, ReservationInv, JoinInv, NonceUsedOnce, SentInv, SessionInv, Durable
  <1> QED
    BY <1>1, <1>2

LEMMA TransmitInv == IInv /\ Transmit => IInv'
  <1> SUFFICES ASSUME IInv, Transmit PROVE IInv'
    OBVIOUS
  <1> USE DEF IInv, Transmit, store
  <1>1. /\ phase = "Joining" /\ stored # Refused /\ ~active /\ ~authorised
        /\ devNonce \in Nonces /\ limit \in Nonces /\ devNonce < limit /\ devNonce < MaxNonce
        /\ Durable.dev = limit /\ Durable' = Durable
    BY NonceAssumption DEF ControlInv, ReservationInv, TypeOK, Nonces, Durable, RestoredFrom
  <1>2. /\ sent' \in [Nonces -> Nat]
        /\ \A n \in Nonces : n # devNonce => sent'[n] = sent[n]
        /\ sent'[devNonce] \in {sent[devNonce], sent[devNonce] + 1}
    <2>1. CASE sent' = sent
      BY <1>1, <2>1 DEF TypeOK
    <2>2. CASE sent' = Once(sent, devNonce)
      BY <1>1, <2>2, OnceCounts DEF TypeOK
    <2> QED
      BY <2>1, <2>2
  <1>3. sent[devNonce] = 0 /\ \A n \in Nonces : sent[n] > 0 => n < devNonce
    BY <1>1, NonceAssumption DEF SentInv, TypeOK, Nonces
  <1>4. TypeOK'
    <2>1. devNonce' \in Nonces
      BY <1>1, NonceAssumption DEF Nonces
    <2>2. pc' \in Steps
      BY DEF Steps
    <2> QED
      BY <1>2, <2>1, <2>2 DEF TypeOK
  <1>5. ControlInv'
    BY <1>1 DEF ControlInv
  <1>6. ReservationInv'
    BY <1>1, NonceAssumption DEF ReservationInv, Nonces
  <1>7. JoinInv'
    BY <1>1 DEF JoinInv
  <1>8. NonceUsedOnce'
    BY <1>1, <1>2, <1>3 DEF NonceUsedOnce
  <1>9. SentInv'
    <2>1. \A n \in Nonces : sent'[n] > 0 => n <= devNonce
      BY <1>1, <1>2, <1>3, NonceAssumption DEF Nonces
    <2>2. pc' = "uncertain" \/ devNonce' = devNonce + 1
      OBVIOUS
    <2> QED
      BY <1>1, <2>1, <2>2, NonceAssumption DEF SentInv, Nonces, Durable
  <1>10. SessionInv'
    BY <1>1 DEF SessionInv, Durable
  <1> QED
    BY <1>4, <1>5, <1>6, <1>7, <1>8, <1>9, <1>10


LEMMA NoAcceptInv == IInv /\ NoAccept => IInv'
  <1> SUFFICES ASSUME IInv, NoAccept PROVE IInv'
    OBVIOUS
  <1> USE DEF IInv, NoAccept, store, node, history
  <1>1. TypeOK'
    BY DEF TypeOK, Phases, Steps
  <1>2. ControlInv' /\ NonceUsedOnce' /\ SessionInv'
    BY DEF ControlInv, NonceUsedOnce, SessionInv, Durable
  <1>3. ReservationInv'
    BY NonceAssumption, ContentFields, BlankContent, ReserveLimitBounds, DurableType
       DEF TypeOK, ControlInv, ReservationInv, JoinInv, Durable, RestoredFrom, Nonces
  <1>4. JoinInv'
    BY ContentFields, ContentMade, BlankContent, DurableType
       DEF TypeOK, ControlInv, ReservationInv, JoinInv, Durable, RestoredFrom, Nonces
  <1>5. SentInv'
    BY NonceAssumption, ContentFields, OnceCounts, DurableType
       DEF TypeOK, ControlInv, ReservationInv, JoinInv, SentInv, Durable, RestoredFrom, Nonces
  <1> QED
    BY <1>1, <1>2, <1>3, <1>4, <1>5

LEMMA AcceptInv == IInv /\ Accept => IInv'
  <1> SUFFICES ASSUME IInv, Accept PROVE IInv'
    OBVIOUS
  <1> USE DEF IInv, Accept, ReservedNonces, store, node, history
  <1>1. TypeOK'
    <2>1. (authorised \in BOOLEAN /\ healthy \in BOOLEAN /\ active \in BOOLEAN)'
      BY DEF TypeOK
    <2>2. (phase \in Phases /\ pc \in Steps)'
      BY DEF TypeOK, Phases, Steps
    <2>3. (stored \in Content \cup {None, Refused})'
      BY DEF TypeOK
    <2>4. (devNonce \in Nonces /\ limit \in Nonces)'
      BY NonceAssumption, ContentFields, BlankContent, DurableType, ReserveLimitBounds
         DEF TypeOK, ReservationInv, ControlInv, Nonces, RestoredFrom
    <2>5. (joinNonce \in 0..MaxJoin)'
      BY NonceAssumption, ContentFields, BlankContent DEF TypeOK, RestoredFrom
    <2>6. (buffer \in Content)'
      BY ContentFields, BlankContent, ContentMade, ReserveLimitBounds, NonceAssumption
         DEF TypeOK
    <2>7. (sent \in [Nonces -> Nat] /\ sessions \in [0..MaxJoin -> Nat])'
      BY OnceCounts DEF TypeOK
    <2> QED
      BY <2>1, <2>2, <2>3, <2>4, <2>5, <2>6, <2>7 DEF TypeOK
  <1>2. ControlInv' /\ ReservationInv' /\ NonceUsedOnce' /\ SentInv' /\ SessionInv'
    BY DEF ControlInv, ReservationInv, NonceUsedOnce, SentInv, SessionInv, Durable
  <1>3. JoinInv'
    BY ContentFields, ContentMade, BlankContent, DurableType
       DEF TypeOK, ControlInv, ReservationInv, JoinInv, Durable, RestoredFrom, Nonces
  <1> QED
    BY <1>1, <1>2, <1>3

LEMMA SaveSessionInv == IInv /\ SaveSession => IInv'
  <1> SUFFICES ASSUME IInv, SaveSession PROVE IInv'
    OBVIOUS
  <1> USE DEF IInv, SaveSession, SaveSucceeds, SaveCutShort, store, node, history
  <1>1. TypeOK'
    <2>1. (authorised \in BOOLEAN /\ healthy \in BOOLEAN /\ active \in BOOLEAN)'
      BY DEF TypeOK
    <2>2. (phase \in Phases /\ pc \in Steps)'
      BY DEF TypeOK, Phases, Steps
    <2>3. (stored \in Content \cup {None, Refused})'
      BY DEF TypeOK
    <2>4. (devNonce \in Nonces /\ limit \in Nonces)'
      BY NonceAssumption, ContentFields, BlankContent, DurableType, ReserveLimitBounds
         DEF TypeOK, ReservationInv, ControlInv, Nonces, RestoredFrom
    <2>5. (joinNonce \in 0..MaxJoin)'
      BY NonceAssumption, ContentFields, BlankContent DEF TypeOK, RestoredFrom
    <2>6. (buffer \in Content)'
      BY ContentFields, BlankContent, ContentMade, ReserveLimitBounds, NonceAssumption
         DEF TypeOK
    <2>7. (sent \in [Nonces -> Nat] /\ sessions \in [0..MaxJoin -> Nat])'
      <3>1. Once(sessions, joinNonce) \in [0..MaxJoin -> Nat]
        BY OnceCounts DEF TypeOK
      <3> QED
        BY <3>1 DEF TypeOK
    <2> QED
      BY <2>1, <2>2, <2>3, <2>4, <2>5, <2>6, <2>7 DEF TypeOK
  <1>2. NonceUsedOnce'
    BY DEF NonceUsedOnce
  <1>3. ControlInv'
    BY StoreAssumption, ContentFields, BlankContent
       DEF TypeOK, ControlInv, ReservationInv, RestoredFrom, Durable
  <1>4. ReservationInv'
    BY NonceAssumption, ContentFields, BlankContent, ReserveLimitBounds, DurableType
       DEF TypeOK, ControlInv, ReservationInv, JoinInv, Durable, RestoredFrom, Nonces
  <1>5. JoinInv'
    BY ContentFields, ContentMade, BlankContent, DurableType
       DEF TypeOK, ControlInv, ReservationInv, JoinInv, Durable, RestoredFrom, Nonces
  <1>6. SentInv'
    BY SMTT(30), NonceAssumption, ContentFields, OnceCounts, DurableType
       DEF TypeOK, ControlInv, ReservationInv, JoinInv, SentInv, Durable, RestoredFrom, Nonces
  <1>7. SessionInv'
    <2>1. phase = "Joining" /\ stored # Refused /\ joinNonce \in 0..MaxJoin /\ Durable.join \in 0..MaxJoin
      BY DurableType, ContentFields DEF ControlInv, TypeOK, Durable
    <2>2. buffer.join = joinNonce /\ buffer # None /\ buffer # Refused /\ Durable.join < joinNonce
      BY <2>1, ContentFields, NonceAssumption DEF JoinInv, TypeOK
    <2>3. stored' # Refused => Durable'.join \in {Durable.join, joinNonce}
      BY <2>1, <2>2 DEF Durable, RestoredFrom
    <2>4. sessions[joinNonce] = 0 /\ \A j \in 0..MaxJoin : sessions[j] > 0 => j < joinNonce
      <3>1. \A j \in 0..MaxJoin : sessions[j] > 0 => j <= Durable.join
        BY <2>1 DEF SessionInv
      <3>2. \A j \in 0..MaxJoin : sessions[j] > 0 => j < joinNonce
        BY <2>1, <2>2, <3>1, NonceAssumption
      <3>3. sessions[joinNonce] \in Nat /\ ~(sessions[joinNonce] > 0)
        BY <2>1, <3>2, NonceAssumption DEF TypeOK
      <3> QED
        BY <3>2, <3>3
    <2>5. CASE sessions' = sessions
      BY <2>1, <2>2, <2>3, <2>5, NonceAssumption DEF SessionInv, Durable
    <2>6. CASE sessions' = Once(sessions, joinNonce) /\ stored' = buffer
      <3>1. Durable'.join = joinNonce
        BY <2>2, <2>6 DEF Durable, RestoredFrom
      <3>2. \A j \in 0..MaxJoin : IF j = joinNonce THEN sessions'[j] = 1 ELSE sessions'[j] = sessions[j]
        <4>1. sessions \in [0..MaxJoin -> Nat] /\ joinNonce \in 0..MaxJoin
          BY DEF TypeOK
        <4>2. /\ Once(sessions, joinNonce)[joinNonce] = sessions[joinNonce] + 1
              /\ \A j \in 0..MaxJoin : j # joinNonce => Once(sessions, joinNonce)[j] = sessions[j]
          BY <4>1 DEF Once
        <4> QED
          BY <2>4, <2>6, <4>2
      <3>3. \A j \in 0..MaxJoin : sessions'[j] <= 1 /\ (sessions'[j] > 0 => j <= joinNonce)
        BY <2>1, <2>4, <3>2, NonceAssumption DEF SessionInv, TypeOK
      <3>4. ~authorised'
        BY <2>1 DEF ControlInv
      <3> QED
        BY <3>1, <3>3, <3>4 DEF SessionInv, Durable
    <2> QED
      BY <2>5, <2>6
  <1> QED
    BY <1>1, <1>2, <1>3, <1>4, <1>5, <1>6, <1>7

LEMMA SkipReservationInv == IInv /\ SkipReservation => IInv'
  <1> SUFFICES ASSUME IInv, SkipReservation PROVE IInv'
    OBVIOUS
  <1> USE DEF IInv, SkipReservation, SkippedTo, store, node, history
  <1>1. TypeOK'
    <2>1. (authorised \in BOOLEAN /\ healthy \in BOOLEAN /\ active \in BOOLEAN)'
      BY DEF TypeOK
    <2>2. (phase \in Phases /\ pc \in Steps)'
      BY DEF TypeOK, Phases, Steps
    <2>3. (stored \in Content \cup {None, Refused})'
      BY DEF TypeOK
    <2>4. (devNonce \in Nonces /\ limit \in Nonces)'
      BY NonceAssumption, ContentFields, BlankContent, DurableType, ReserveLimitBounds
         DEF TypeOK, ReservationInv, ControlInv, Nonces, RestoredFrom
    <2>5. (joinNonce \in 0..MaxJoin)'
      BY NonceAssumption, ContentFields, BlankContent DEF TypeOK, RestoredFrom
    <2>6. (buffer \in Content)'
      BY ContentFields, BlankContent, ContentMade, ReserveLimitBounds, NonceAssumption
         DEF TypeOK
    <2>7. (sent \in [Nonces -> Nat] /\ sessions \in [0..MaxJoin -> Nat])'
      BY OnceCounts DEF TypeOK
    <2> QED
      BY <2>1, <2>2, <2>3, <2>4, <2>5, <2>6, <2>7 DEF TypeOK
  <1>2. ControlInv' /\ NonceUsedOnce' /\ SessionInv'
    BY DEF ControlInv, NonceUsedOnce, SessionInv, Durable
  <1>3. ReservationInv'
    BY NonceAssumption, ContentFields, BlankContent, ReserveLimitBounds, DurableType
       DEF TypeOK, ControlInv, ReservationInv, JoinInv, Durable, RestoredFrom, Nonces
  <1>4. JoinInv'
    BY ContentFields, ContentMade, BlankContent, DurableType
       DEF TypeOK, ControlInv, ReservationInv, JoinInv, Durable, RestoredFrom, Nonces
  <1>5. SentInv'
    <2>1. /\ stored' = stored /\ sent' = sent /\ authorised' = authorised /\ pc = "uncertain" /\ pc' = "idle"
          /\ phase = "Joining" /\ stored # Refused
      BY DEF ControlInv
    <2>2. phase' \in {"Joining", "Ready"} => devNonce' = limit /\ Durable.dev = limit /\ devNonce < limit
      BY <2>1 DEF ReservationInv, SkippedTo
    <2>3. /\ devNonce \in Nonces /\ limit \in Nonces /\ \A n \in Nonces : n \in Int
      BY DEF TypeOK, Nonces
    <2>4. Durable' = Durable
      BY <2>1 DEF Durable, RestoredFrom
    <2>5. SUFFICES ASSUME NEW n \in Nonces, sent[n] > 0
                   PROVE  /\ ~authorised /\ n < MaxNonce /\ n < Durable.dev
                          /\ phase' \in {"Joining", "Ready"} => n < devNonce'
      BY <2>1, <2>4 DEF SentInv
    <2>6. ~authorised /\ n < MaxNonce /\ n < Durable.dev /\ n <= devNonce
      BY <2>1, <2>5 DEF SentInv
    <2> QED
      BY <2>2, <2>3, <2>6
  <1> QED
    BY <1>1, <1>2, <1>3, <1>4, <1>5

LEMMA LoseSessionInv == IInv /\ LoseSession => IInv'
  <1> SUFFICES ASSUME IInv, LoseSession PROVE IInv'
    OBVIOUS
  <1> USE DEF IInv, LoseSession, store, node, history
  <1>1. TypeOK'
    BY DEF TypeOK, Phases, Steps
  <1>2. ControlInv' /\ ReservationInv' /\ JoinInv' /\ NonceUsedOnce' /\ SentInv' /\ SessionInv'
    BY DEF ControlInv, ReservationInv, JoinInv, NonceUsedOnce, SentInv, SessionInv, Durable
  <1> QED
    BY <1>1, <1>2

LEMMA ResumeInv == IInv /\ Resume => IInv'
  <1> SUFFICES ASSUME IInv, Resume PROVE IInv'
    OBVIOUS
  <1> USE DEF IInv, Resume, store, node, history
  <1>1. TypeOK'
    BY DEF TypeOK, Phases, Steps
  <1>2. ControlInv' /\ ReservationInv' /\ JoinInv' /\ NonceUsedOnce' /\ SentInv' /\ SessionInv'
    BY DEF ControlInv, ReservationInv, JoinInv, NonceUsedOnce, SentInv, SessionInv, Durable
  <1> QED
    BY <1>1, <1>2

LEMMA PowerLossInv == IInv /\ PowerLoss => IInv'
  <1> SUFFICES ASSUME IInv, PowerLoss PROVE IInv'
    OBVIOUS
  <1> USE DEF IInv, PowerLoss, SaveCutShort, store, node, history
  <1>1. TypeOK'
    BY DEF TypeOK, Phases, Steps
  <1>2. ControlInv' /\ ReservationInv' /\ JoinInv' /\ NonceUsedOnce'
    BY DEF ControlInv, ReservationInv, JoinInv, NonceUsedOnce, Durable
  <1>3. SentInv'
    BY SMTT(30), NonceAssumption, ContentFields, OnceCounts, DurableType
       DEF TypeOK, ControlInv, ReservationInv, JoinInv, SentInv, Durable, RestoredFrom, Nonces
  <1>4. SessionInv'
    <2>1. CASE pc \in {"reserving", "accepted"}
      <3>1. phase = "Joining" /\ stored # Refused /\ ~authorised
        BY <2>1 DEF ControlInv
      <3>2. Durable.join \in 0..MaxJoin /\ joinNonce \in 0..MaxJoin /\ Durable.join <= joinNonce
        BY <2>1, <3>1, DurableType, ContentFields, NonceAssumption
           DEF JoinInv, Durable, TypeOK
      <3>3. buffer.join = joinNonce /\ buffer # None
        BY <2>1, <3>1, ContentFields DEF JoinInv, TypeOK
      <3>4. stored' # Refused => Durable'.join \in {Durable.join, joinNonce}
        BY <2>1, <3>1, <3>3 DEF Durable, RestoredFrom
      <3> QED
        BY <2>1, <3>1, <3>2, <3>4, NonceAssumption DEF SessionInv, Durable
    <2>2. CASE pc \notin {"reserving", "accepted"}
      BY <2>2 DEF SessionInv, ControlInv, Durable, RestoredFrom
    <2> QED
      BY <2>1, <2>2
  <1> QED
    BY <1>1, <1>2, <1>3, <1>4

LEMMA ConfirmResetInv == IInv /\ ConfirmReset => IInv'
  <1> SUFFICES ASSUME IInv, ConfirmReset PROVE IInv'
    OBVIOUS
  <1> USE DEF IInv, ConfirmReset, store, node, history
  <1>1. TypeOK'
    BY DEF TypeOK, Phases, Steps
  <1>2. ControlInv' /\ ReservationInv' /\ JoinInv' /\ NonceUsedOnce' /\ SentInv' /\ SessionInv'
    BY DEF ControlInv, ReservationInv, JoinInv, NonceUsedOnce, SentInv, SessionInv, Durable
  <1> QED
    BY <1>1, <1>2

LEMMA BeginEraseInv == IInv /\ BeginErase => IInv'
  <1> SUFFICES ASSUME IInv, BeginErase PROVE IInv'
    OBVIOUS
  <1> USE DEF IInv, BeginErase, store, node, history
  <1>1. TypeOK'
    BY DEF TypeOK, Phases, Steps
  <1>2. ControlInv' /\ ReservationInv' /\ JoinInv' /\ NonceUsedOnce' /\ SentInv' /\ SessionInv'
    BY DEF ControlInv, ReservationInv, JoinInv, NonceUsedOnce, SentInv, SessionInv, Durable
  <1> QED
    BY <1>1, <1>2

LEMMA EraseInv == IInv /\ Erase => IInv'
  <1> SUFFICES ASSUME IInv, Erase PROVE IInv'
    OBVIOUS
  <1> USE DEF IInv, Erase, store, node, history
  <1>1. TypeOK'
    BY DEF TypeOK, Phases, Steps
  <1>2. ControlInv' /\ ReservationInv' /\ JoinInv' /\ NonceUsedOnce' /\ SentInv' /\ SessionInv'
    BY DEF ControlInv, ReservationInv, JoinInv, NonceUsedOnce, SentInv, SessionInv, Durable
  <1> QED
    BY <1>1, <1>2

(* A step that changes nothing preserves everything. *)
LEMMA StutterInv == IInv /\ UNCHANGED vars => IInv'
  BY DEF IInv, vars, TypeOK, ControlInv, ReservationInv, JoinInv, NonceUsedOnce, SentInv,
         SessionInv, Durable, RestoredFrom

(* IInv is inductive. *)
LEMMA NextInv == IInv /\ [Next]_vars => IInv'
  BY StutterInv, BootInv, InitializeInv, RecoverInv, ActivateInv, ReserveInv, DeferInv, TransmitInv,
     NoAcceptInv, AcceptInv, SaveSessionInv, SkipReservationInv, LoseSessionInv, ResumeInv,
     PowerLossInv, ConfirmResetInv, BeginEraseInv, EraseInv DEF Next

THEOREM InductiveInvariant == Spec => []IInv
  BY InitInv, NextInv, PTL DEF Spec

-----------------------------------------------------------------------------
(* The variables of the join path keep their types: the next DevNonce and   *)
(* the reserved bound stay within the 16-bit nonce space.                   *)
THEOREM TypeCorrect == Spec => []TypeOK
  <1>1. IInv => TypeOK
    BY DEF IInv
  <1> QED
    BY <1>1, InductiveInvariant, PTL

(* No DevNonce is on the air twice between two factory resets (lwActivate,  *)
(* lwRestore, lwRecover), for every nonce space and every batch.            *)
THEOREM NoncesAreUsedOnce == Spec => []NonceUsedOnce
  <1>1. IInv => NonceUsedOnce
    BY DEF IInv
  <1> QED
    BY <1>1, InductiveInvariant, PTL

(* Whatever may have been on the air lies below the bound that a restart    *)
(* reads, and UINT16_MAX is never sent.                                     *)
THEOREM SentNoncesAreReserved == Spec => []SentIsReserved
  <1>1. ASSUME IInv PROVE SentIsReserved
    <2>1. MaxNonce \in Nonces /\ sent[MaxNonce] \in Nat
      BY <1>1, NonceAssumption DEF Nonces, IInv, TypeOK
    <2>2. sent[MaxNonce] = 0
      BY <1>1, <2>1, NonceAssumption DEF IInv, SentInv
    <2>3. stored # Refused => \A n \in Nonces : sent[n] > 0 => n < RestoredFrom(stored).dev
      BY <1>1 DEF IInv, SentInv, Durable
    <2> QED
      BY <2>2, <2>3 DEF SentIsReserved
  <1> QED
    BY <1>1, InductiveInvariant, PTL

(* No two sessions that became Ready share a JoinNonce, and the JoinNonce   *)
(* of a Ready session is durable.                                           *)
THEOREM ReadySessionsAreFresh == Spec => []SessionsAreFresh
  <1>1. ASSUME IInv PROVE SessionsAreFresh
    <2>1. \A j \in 0..MaxJoin : sessions[j] <= 1
      BY <1>1 DEF IInv, SessionInv
    <2>2. phase = "Ready" => stored \in Content /\ stored.join = joinNonce
      BY <1>1, ContentFields DEF IInv, ControlInv, JoinInv, Durable, RestoredFrom
    <2> QED
      BY <2>1, <2>2 DEF SessionsAreFresh
  <1> QED
    BY <1>1, InductiveInvariant, PTL

-----------------------------------------------------------------------------
(* Whatever a save of lwSaveNonces leaves behind, whether it returns TRUE,  *)
(* fails or is cut short, is a step of the register.                        *)
LEMMA SavesRefine ==
  ASSUME IInv, pc \in {"reserving", "accepted"},
         stored' \in {stored, buffer, Refused}, UNCHANGED authorised
  PROVE  [Register!Next]_<<stored, authorised>>
  <1>1. /\ phase = "Joining" /\ stored # Refused /\ buffer \in Content
        /\ buffer.dev = limit /\ buffer.join = joinNonce
    BY DEF IInv, ControlInv, JoinInv, TypeOK
  <1>2. Durable.dev <= limit /\ Durable.join <= joinNonce
    <2>1. Durable \in Content /\ joinNonce \in Nat
      BY <1>1, DurableType, NonceAssumption DEF IInv, TypeOK, Durable
    <2>2. Durable.join \in Nat
      BY <2>1, ContentFields, NonceAssumption
    <2> QED
      BY <1>1, <2>1, <2>2 DEF IInv, ReservationInv, JoinInv
  <1>3. stored # None => Supersedes(buffer, stored)
    BY <1>1, <1>2, ContentFields, NonceAssumption DEF Supersedes, Durable, RestoredFrom, IInv, TypeOK, Nonces
  <1>4. CASE stored' = stored
    BY <1>4
  <1>5. CASE stored' = Refused
    BY <1>5 DEF Register!Next, Register!Damage
  <1>6. CASE stored' = buffer
    BY <1>1, <1>3, <1>6 DEF Register!Next, Register!Store
  <1> QED
    BY <1>4, <1>5, <1>6

LEMMA RegisterStep == IInv /\ [Next]_vars => [Register!Next]_<<stored, authorised>>
  <1> SUFFICES ASSUME IInv, [Next]_vars PROVE [Register!Next]_<<stored, authorised>>
    OBVIOUS
  <1>1. CASE UNCHANGED store
    BY <1>1 DEF store
  <1>2. CASE Reserve \/ SaveSession
    <2>1. pc \in {"reserving", "accepted"} /\ stored' \in {stored, buffer, Refused} /\ UNCHANGED authorised
      BY <1>2 DEF Reserve, SaveSession, SaveSucceeds, SaveCutShort
    <2> QED
      BY <2>1, SavesRefine
  <1>3. CASE PowerLoss
    <2>1. CASE pc \in {"reserving", "accepted"} /\ SaveCutShort(buffer)
      BY <2>1, SavesRefine DEF SaveCutShort
    <2>2. CASE authorised /\ authorised' = FALSE /\ stored' \in Content \cup {None, Refused}
      BY <2>2 DEF Register!Next, Register!Forget
    <2> QED
      BY <1>1, <1>3, <2>1, <2>2 DEF PowerLoss
  <1>4. CASE BeginErase
    BY <1>4 DEF BeginErase, Register!Next, Register!Authorise
  <1>5. CASE Erase
    <2>1. authorised /\ authorised' \in BOOLEAN
      BY <1>5 DEF Erase, IInv, TypeOK
    <2>2. stored' \in Content \cup {None, Refused}
      BY <1>5 DEF Erase
    <2> QED
      BY <2>1, <2>2 DEF Register!Next, Register!Forget
  <1>6. CASE Boot \/ Initialize \/ Recover \/ Activate \/ Defer \/ Transmit
    BY <1>1, <1>6 DEF Boot, Initialize, Recover, Activate, Defer, Transmit, store
  <1>7. CASE NoAccept \/ Accept \/ SkipReservation \/ LoseSession \/ Resume \/ ConfirmReset
    BY <1>1, <1>7 DEF NoAccept, Accept, SkipReservation, LoseSession, Resume, ConfirmReset, store
  <1>8. CASE UNCHANGED vars
    BY <1>8 DEF vars
  <1> QED
    BY <1>2, <1>3, <1>4, <1>5, <1>6, <1>7, <1>8 DEF Next

(* The join path uses the journal as a NonceRegister: nothing it saves takes *)
(* the reserved bound or the JoinNonce back.                                 *)
THEOREM JoinsUseARegister == Spec => RegisterSpec
  <1>1. Init => Register!Init
    BY DEF Init, Register!Init
  <1>2. IInv /\ [Next]_vars => [Register!Next]_<<stored, authorised>>
    BY RegisterStep
  <1> QED
    BY <1>1, <1>2, InductiveInvariant, PTL DEF Spec, RegisterSpec, Register!Spec
=============================================================================
