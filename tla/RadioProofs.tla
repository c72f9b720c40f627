----------------------------- MODULE RadioProofs -----------------------------
(***************************************************************************)
(* Theorems about the radio lifecycle, for every width of the clock, every  *)
(* guard, every length of a rest and every number of tries: no library call *)
(* meets a wrap of millis(), a wrap is noticed by the next poll at the      *)
(* latest, rests are whole, and a streak of hardware errors is one.         *)
(***************************************************************************)
EXTENDS RadioLifecycle, SequenceTheorems, TLAPS

States == {"Initializing", "Joining", "Ready", "Rollover", "Cooldown", "Stopped", "Fault"}
Active == {"Initializing", "Joining", "Ready"}

RadioTypeOK ==
  /\ turn \in {"asleep", "poll", "report"} /\ serviceState \in States
  /\ now \in 0..Wrap - 1 /\ read \in 0..Wrap - 1 /\ serviceTick \in 0..Wrap - 1
  /\ phaseStarted \in 0..Wrap - 1 /\ lastJoin \in 0..Wrap - 1
  /\ joinedAttempted \in BOOLEAN /\ activated \in BOOLEAN
  /\ rushed \in BOOLEAN /\ stale \in BOOLEAN /\ misused \in BOOLEAN /\ straddled \in BOOLEAN
  /\ slept \in 0..Recovery /\ spaced \in 0..JoinRetry

(* A wrap since the node was built shows: in the turn it came in, as a clock   *)
(* behind that turn's first reading; and in the next turn as a first reading   *)
(* behind the one before, for a turn and a pause are too short for the clock   *)
(* to come round.  The poll that sees it leaves no node of that age to use.    *)
Most == 2 * Jitter + Guard            \* what a poll or a transaction takes at most
WrapInv ==
  /\ ~misused
  /\ turn # "poll" => serviceTick = read
  /\ stale /\ serviceState \in Active => now < read \/ (turn = "poll" /\ read < serviceTick)
  /\ Since(now, read) <= Jitter + 2 * Most
  /\ turn = "report" => Since(now, read) <= Jitter + Most
  /\ turn = "poll" => Since(now, read) <= Jitter

(* The clock never says more of a rest than what has passed of it, neither now *)
(* nor at the first reading of a poll.                                        *)
RestInv ==
  /\ serviceState = "Cooldown" => /\ slept = Recovery \/ Since(now, phaseStarted) <= slept
                                  /\ turn = "poll" => slept = Recovery \/ Since(read, phaseStarted) <= slept
                                  /\ slept <= spaced \/ spaced = JoinRetry
  /\ spaced = JoinRetry \/ Since(now, lastJoin) <= spaced
  /\ turn = "poll" => spaced = JoinRetry \/ Since(read, lastJoin) <= spaced
  /\ serviceState = "Joining" /\ activated => ~joinedAttempted
  /\ \/ serviceState \in {"Initializing", "Ready"}
     \/ serviceState = "Joining" /\ ~joinedAttempted
     => spaced = JoinRetry \/ rushed

(* What the session remembers is one run of outcomes of one kind.             *)
StreakInv ==
  /\ recent \in Seq({"Hardware", "Other"}) /\ Len(recent) <= Streak
  /\ \A i \in 1..Len(recent) : recent[i] = recent[1]
  /\ txFailures \in 0..Streak - 1
  /\ txFailures > 0 => Len(recent) >= txFailures /\ recent[1] = "Hardware"

IInv == RadioTypeOK /\ WrapInv /\ RestInv /\ StreakInv

-----------------------------------------------------------------------------
(* The arithmetic of a counter that wraps. *)
LEMMA LaterIs ==
  ASSUME now \in 0..Wrap - 1, NEW k \in 0..Wrap - 1
  PROVE  /\ Later(k) = IF now + k < Wrap THEN now + k ELSE now + k - Wrap
         /\ Later(k) \in 0..Wrap - 1
  BY RadioAssumption DEF Later

LEMMA SinceIs ==
  ASSUME NEW t \in 0..Wrap - 1, NEW start \in 0..Wrap - 1
  PROVE  /\ Since(t, start) = IF t >= start THEN t - start ELSE t - start + Wrap
         /\ Since(t, start) \in 0..Wrap - 1
  BY RadioAssumption DEF Since

LEMMA SincePasses ==
  ASSUME now \in 0..Wrap - 1, NEW k \in 0..Wrap - 1, NEW start \in 0..Wrap - 1
  PROVE  Since(Later(k), start) <= Since(now, start) + k
PROOF
  <1>1. Later(k) = (IF now + k < Wrap THEN now + k ELSE now + k - Wrap) /\ Later(k) \in 0..Wrap - 1
    BY LaterIs
  <1>2. Since(now, start) = IF now >= start THEN now - start ELSE now - start + Wrap
    BY SinceIs
  <1>3. Since(Later(k), start) = IF Later(k) >= start THEN Later(k) - start ELSE Later(k) - start + Wrap
    BY <1>1, SinceIs
  <1>4. QED
    BY <1>1, <1>2, <1>3, RadioAssumption

(* Every step of the clock is shorter than its period, and so is a turn of    *)
(* the main loop with the pause after it.                                     *)
LEMMA StepsFit ==
  /\ Jitter \in Nat /\ Guard \in Nat /\ Wrap \in Nat /\ MaxPause \in Nat /\ Most \in Nat
  /\ MaxPause + 2 * Guard + 5 * Jitter < Wrap /\ MaxPause + Jitter + 2 * Most < Wrap
  /\ \A c \in 0..Jitter, k \in 0..Guard, f \in 0..Jitter :
       /\ c + k \in Nat /\ c + k \in 0..Wrap - 1
       /\ c + k + f \in Nat /\ c + k + f \in 0..Wrap - 1 /\ c + k + f \in 0..Most
       /\ c + k + f = (c + k) + f
  /\ \A e \in 0..Jitter, f \in 0..Jitter : e + f \in Nat /\ e + f \in 0..Most
  /\ \A k \in 1..MaxPause, e \in 0..Jitter : k + e \in Nat /\ k + e \in 0..Wrap - 1 /\ k \in 0..Wrap - 1
  /\ 0..Jitter \subseteq 0..Wrap - 1 /\ 0..Jitter \subseteq 0..Most /\ 0..Most \subseteq 0..Wrap - 1
  BY RadioAssumption DEF Most

LEMMA SinceNow == ASSUME NEW t \in 0..Wrap - 1 PROVE Since(t, t) = 0
  BY SinceIs

(* The ticks between two readings of one turn. *)
LEMMA StepShows ==
  ASSUME now \in 0..Wrap - 1, NEW n \in Nat, NEW f \in Nat, n + f < Wrap
  PROVE  Later(n) \in 0..Wrap - 1 /\ Later(n + f) \in 0..Wrap - 1 /\ Since(Later(n + f), Later(n)) = f
PROOF
  <1>1. n \in 0..Wrap - 1 /\ n + f \in 0..Wrap - 1
    BY RadioAssumption
  <1>2. Later(n) = (IF now + n < Wrap THEN now + n ELSE now + n - Wrap) /\ Later(n) \in 0..Wrap - 1
    BY <1>1, LaterIs
  <1>3. /\ Later(n + f) = (IF now + (n + f) < Wrap THEN now + (n + f) ELSE now + (n + f) - Wrap)
        /\ Later(n + f) \in 0..Wrap - 1
    BY <1>1, LaterIs
  <1>4. Since(Later(n + f), Later(n)) = IF Later(n + f) >= Later(n) THEN Later(n + f) - Later(n)
                                        ELSE Later(n + f) - Later(n) + Wrap
    BY <1>2, <1>3, SinceIs
  <1>5. QED
    BY <1>1, <1>2, <1>3, <1>4, RadioAssumption

(* A clock that goes back between two readings has wrapped.                   *)
LEMMA WrapBetween ==
  ASSUME now \in 0..Wrap - 1, NEW c \in 0..Jitter, NEW d \in c..Jitter, Later(d) < Later(c)
  PROVE  now + d >= Wrap
PROOF
  <1>1. c \in 0..Wrap - 1 /\ d \in 0..Wrap - 1 /\ c <= d
    BY StepsFit
  <1>2. /\ Later(c) = IF now + c < Wrap THEN now + c ELSE now + c - Wrap
        /\ Later(d) = IF now + d < Wrap THEN now + d ELSE now + d - Wrap
    BY <1>1, LaterIs
  <1>3. QED
    BY <1>1, <1>2, RadioAssumption

(* Within a turn, a wrap shows as a clock behind the turn's first reading.    *)
LEMMA TurnGoesOn ==
  ASSUME now \in 0..Wrap - 1, read \in 0..Wrap - 1, NEW n \in Nat, Since(now, read) + n < Wrap
  PROVE  /\ Later(n) \in 0..Wrap - 1 /\ Since(Later(n), read) = Since(now, read) + n
         /\ Later(n) < read <=> now < read \/ now + n >= Wrap
PROOF
  <1>1. Since(now, read) = IF now >= read THEN now - read ELSE now - read + Wrap
    BY SinceIs
  <1>2. n \in 0..Wrap - 1
    BY <1>1, RadioAssumption
  <1>3. Later(n) = (IF now + n < Wrap THEN now + n ELSE now + n - Wrap) /\ Later(n) \in 0..Wrap - 1
    BY <1>2, LaterIs
  <1>4. Since(Later(n), read) = IF Later(n) >= read THEN Later(n) - read ELSE Later(n) - read + Wrap
    BY <1>3, SinceIs
  <1>5. QED
    BY <1>1, <1>2, <1>3, <1>4, RadioAssumption

(* What the parts that actions share do to the variables. *)
LEMMA CooldownEffect ==
  ASSUME NEW t \in 0..Wrap - 1, now' \in 0..Wrap - 1, Cooldown(t)
  PROVE  /\ serviceState' = "Cooldown" /\ phaseStarted' = t /\ txFailures' = 0
         /\ slept' = AtMost(Since(now', t), Recovery) /\ slept' \in 0..Recovery
         /\ slept' = Recovery \/ Since(now', phaseStarted') <= slept'
         /\ now' = t => slept' = 0
PROOF
  <1> USE RadioAssumption
  <1>1. /\ serviceState' = "Cooldown" /\ phaseStarted' = t /\ txFailures' = 0
        /\ slept' = AtMost(Since(now', t), Recovery)
    BY DEF Cooldown, RestsFrom
  <1>2. Since(now', t) \in Nat
    BY SinceIs
  <1>3. now' = t => Since(now', t) = 0
    BY SinceNow
  <1>4. /\ slept' \in 0..Recovery /\ (slept' = Recovery \/ Since(now', t) <= slept')
        /\ now' = t => slept' = 0
    BY <1>1, <1>2, <1>3 DEF AtMost
  <1>5. QED
    BY <1>1, <1>4

LEMMA RolloverWaitEffect ==
  ASSUME NEW t, NEW u, RolloverWait(t, u)
  PROVE  \/ serviceState' = "Rollover" /\ phaseStarted' = t /\ UNCHANGED <<slept, txFailures>>
         \/ Cooldown(u)
  BY DEF RolloverWait, streaks

LEMMA RebuildEffect ==
  ASSUME NEW n, NEW c, NEW d, Rebuild(n, c, d)
  PROVE  /\ now' = Later(d) /\ Spaces(d) /\ phaseStarted' = Later(d) /\ slept' = 0
         /\ activated' = FALSE /\ stale' = (Later(d) < Later(c))
         /\ \/ serviceState' = "Joining" /\ joinedAttempted' = FALSE
            \/ serviceState' \in {"Cooldown", "Fault"} /\ UNCHANGED joinedAttempted
  BY DEF Rebuild, NodeAge, RadioFault

(* A poll that finds a wrap, or one ahead, leaves a radio that waits, rests,  *)
(* has given up, or has a new node; it may be a node from before a wrap that   *)
(* came while the poll built it.                                              *)
LEMMA InterruptEffect ==
  ASSUME RadioTypeOK, Interrupt
  PROVE  \E n \in 0..Jitter :
           /\ serviceState \notin {"Stopped", "Fault"} /\ Polls
           /\ now' = Later(n) /\ now' \in 0..Wrap - 1 /\ Spaces(n) /\ stale' \in BOOLEAN
           /\ UNCHANGED <<lastJoin, misused, straddled, recent>>
           /\ txFailures' \in {0, txFailures}
           /\ \/ /\ serviceState' = "Rollover" /\ phaseStarted' \in 0..Wrap - 1 /\ UNCHANGED slept
                 /\ UNCHANGED <<rushed, joinedAttempted, activated>>
              \/ /\ serviceState' = "Cooldown" /\ phaseStarted' = now' /\ slept' = 0
                 /\ UNCHANGED <<rushed, joinedAttempted, activated>>
              \/ /\ rushed' = TRUE /\ slept' = 0 /\ phaseStarted' = now' /\ activated' = FALSE
                 /\ stale' => now + n >= Wrap
                 /\ \/ serviceState' = "Joining" /\ joinedAttempted' = FALSE
                    \/ serviceState' \in {"Cooldown", "Fault"} /\ UNCHANGED joinedAttempted
PROOF
  <1>1. /\ serviceState \notin {"Stopped", "Fault"} /\ Polls
        /\ UNCHANGED <<lastJoin, misused, straddled, recent>>
    BY DEF Interrupt
  <1>2. PICK c \in 0..Jitter : \E d \in c..Jitter :
          LET waits == read >= serviceTick /\ RolloverPending(Later(c)) IN
          \/ /\ waits /\ read >= Later(c)
             /\ Passes(d) /\ Spaces(d) /\ RolloverWait(Later(c), Later(d))
             /\ UNCHANGED <<rushed, joinedAttempted, activated>>
          \/ /\ IF waits THEN read < Later(c) ELSE ~Rested(read, Later(d))
             /\ Passes(d) /\ Spaces(d) /\ Cooldown(Later(d))
             /\ UNCHANGED <<rushed, joinedAttempted, activated>>
          \/ /\ ~waits /\ Rested(read, Later(d))
             /\ \E e \in d..Jitter : Rebuild(0, d, e)
             /\ rushed' = TRUE
             /\ joinFailures' = 0 /\ txFailures' = 0
             /\ capacityFailures' = 0 /\ unavailableFailures' = 0
             /\ UNCHANGED initAttempts
    BY DEF Interrupt
  <1>3. PICK d \in c..Jitter :
          LET waits == read >= serviceTick /\ RolloverPending(Later(c)) IN
          \/ /\ waits /\ read >= Later(c)
             /\ Passes(d) /\ Spaces(d) /\ RolloverWait(Later(c), Later(d))
             /\ UNCHANGED <<rushed, joinedAttempted, activated>>
          \/ /\ IF waits THEN read < Later(c) ELSE ~Rested(read, Later(d))
             /\ Passes(d) /\ Spaces(d) /\ Cooldown(Later(d))
             /\ UNCHANGED <<rushed, joinedAttempted, activated>>
          \/ /\ ~waits /\ Rested(read, Later(d))
             /\ \E e \in d..Jitter : Rebuild(0, d, e)
             /\ rushed' = TRUE
             /\ joinFailures' = 0 /\ txFailures' = 0
             /\ capacityFailures' = 0 /\ unavailableFailures' = 0
             /\ UNCHANGED initAttempts
    BY <1>2
  <1>4. \/ /\ Passes(d) /\ Spaces(d) /\ RolloverWait(Later(c), Later(d))
           /\ UNCHANGED <<rushed, joinedAttempted, activated>>
        \/ /\ Passes(d) /\ Spaces(d) /\ Cooldown(Later(d))
           /\ UNCHANGED <<rushed, joinedAttempted, activated>>
        \/ /\ \E e \in d..Jitter : Rebuild(0, d, e)
           /\ rushed' = TRUE /\ txFailures' = 0
    BY <1>3
  <1>5. now \in 0..Wrap - 1 /\ c \in 0..Jitter /\ d \in 0..Jitter /\ stale \in BOOLEAN
    BY RadioAssumption DEF RadioTypeOK
  <1>6. Later(c) \in 0..Wrap - 1 /\ Later(d) \in 0..Wrap - 1
    BY <1>5, StepsFit, LaterIs
  <1>7. Passes(d) => now' = Later(d) /\ now' \in 0..Wrap - 1 /\ stale' \in BOOLEAN
    BY <1>5, <1>6 DEF Passes
  <1>8. CASE Passes(d) /\ Spaces(d) /\ Cooldown(Later(d)) /\ UNCHANGED <<rushed, joinedAttempted, activated>>
    <2>1. serviceState' = "Cooldown" /\ phaseStarted' = now' /\ slept' = 0 /\ txFailures' = 0
      BY <1>6, <1>7, <1>8, CooldownEffect
    <2>2. QED
      BY <1>1, <1>5, <1>7, <1>8, <2>1
  <1>9. CASE /\ Passes(d) /\ Spaces(d) /\ RolloverWait(Later(c), Later(d))
             /\ UNCHANGED <<rushed, joinedAttempted, activated>>
    <2>1. \/ serviceState' = "Rollover" /\ phaseStarted' = Later(c) /\ UNCHANGED <<slept, txFailures>>
          \/ Cooldown(Later(d))
      BY <1>9, RolloverWaitEffect
    <2>2. CASE serviceState' = "Rollover" /\ phaseStarted' = Later(c) /\ UNCHANGED <<slept, txFailures>>
      BY <1>1, <1>5, <1>6, <1>7, <1>9, <2>2
    <2>3. QED
      BY <1>8, <1>9, <2>1, <2>2
  <1>10. CASE (\E e \in d..Jitter : Rebuild(0, d, e)) /\ rushed' = TRUE /\ txFailures' = 0
    <2>1. PICK e \in d..Jitter : Rebuild(0, d, e)
      BY <1>10
    <2>2. /\ now' = Later(e) /\ Spaces(e) /\ phaseStarted' = Later(e) /\ slept' = 0
          /\ activated' = FALSE /\ stale' = (Later(e) < Later(d))
          /\ \/ serviceState' = "Joining" /\ joinedAttempted' = FALSE
             \/ serviceState' \in {"Cooldown", "Fault"} /\ UNCHANGED joinedAttempted
      BY <2>1, RebuildEffect
    <2>3. e \in 0..Jitter
      BY <1>5, RadioAssumption
    <2>4. Later(e) \in 0..Wrap - 1
      BY <1>5, <2>3, StepsFit, LaterIs
    <2>5. ASSUME Later(e) < Later(d) PROVE now + e >= Wrap
      BY <1>5, <2>5, WrapBetween
    <2>6. stale' => now + e >= Wrap
      BY <2>2, <2>5
    <2>7. stale' \in BOOLEAN
      BY <2>2
    <2>8. phaseStarted' = now' /\ now' \in 0..Wrap - 1
      BY <2>2, <2>4
    <2>9. /\ rushed' = TRUE /\ slept' = 0 /\ activated' = FALSE /\ now' = Later(e) /\ Spaces(e)
          /\ txFailures' = 0
          /\ \/ serviceState' = "Joining" /\ joinedAttempted' = FALSE
             \/ serviceState' \in {"Cooldown", "Fault"} /\ UNCHANGED joinedAttempted
      BY <1>10, <2>2
    <2>10. QED
      BY <1>1, <2>3, <2>6, <2>7, <2>8, <2>9
  <1>11. QED
    BY <1>4, <1>8, <1>9, <1>10

(* In a turn that only a wrap of its own can have made the node stale in, a    *)
(* call that the guard lets begin is over before a wrap, and on a stale node    *)
(* only if the clock is behind the first reading by then.                      *)
LEMMA CallIsSafe ==
  ASSUME RadioTypeOK, ~misused, stale => now < read, NEW c \in 0..Jitter, NEW k \in 0..Guard,
         Since(now, read) <= Jitter + Most, ~RolloverPending(Later(c)), Calls(c, k)
  PROVE  misused' = FALSE /\ straddled' \in BOOLEAN
PROOF
  <1> USE RadioAssumption
  <1>1. /\ now \in 0..Wrap - 1 /\ read \in 0..Wrap - 1 /\ stale \in BOOLEAN /\ misused = FALSE
        /\ straddled \in BOOLEAN
    BY DEF RadioTypeOK
  <1>2. c \in Nat /\ c <= Jitter
    OBVIOUS
  <1>3. Since(now, read) \in Nat /\ Since(now, read) + c < Wrap
    BY <1>1, <1>2, SinceIs, StepsFit DEF Most
  <1>4. Later(c) \in 0..Wrap - 1 /\ (Later(c) < read <=> now < read \/ now + c >= Wrap)
    BY <1>1, <1>2, <1>3, TurnGoesOn
  <1>5. Later(c) + k < Wrap
    BY <1>4 DEF RolloverPending
  <1>6. NodeIsOld(c) => Later(c) < read
    BY <1>4 DEF NodeIsOld
  <1>7. ~(Later(c) + k >= Wrap) /\ ~(NodeIsOld(c) /\ Later(c) >= read)
    BY <1>1, <1>4, <1>5, <1>6
  <1>8. misused' = FALSE
    BY <1>1, <1>7 DEF Calls
  <1>9. straddled' \in BOOLEAN
    BY <1>1 DEF Calls
  <1>10. QED
    BY <1>8, <1>9

(* Outside an interrupted poll, only a wrap of this turn can have made the     *)
(* node stale.                                                                *)
LEMMA TurnIsFresh ==
  ASSUME RadioTypeOK, WrapInv, serviceState \in Active,
         \/ turn = "poll" /\ ~Interrupted
         \/ turn = "report"
  PROVE  (stale => now < read) /\ misused = FALSE /\ Since(now, read) <= Jitter + Most
PROOF
  <1>1. turn = "poll" => Since(now, read) <= Jitter + Most
    BY SinceIs, RadioAssumption DEF WrapInv, RadioTypeOK, Most
  <1>2. QED
    BY <1>1 DEF WrapInv, RadioTypeOK, Active, Interrupted

(* What a poll or a transaction that may call the library does. *)
Called(n) ==
  /\ now' = Later(n) /\ stale' \in BOOLEAN /\ (stale' => now + n >= Wrap \/ stale)
  /\ misused' = FALSE /\ straddled' \in BOOLEAN

LEMMA CallEnds ==
  ASSUME RadioTypeOK, NEW n, Passes(n), misused' = FALSE, straddled' \in BOOLEAN
  PROVE  Called(n)
  BY DEF Called, Passes, RadioTypeOK

LEMMA JoinAcceptedEffect ==
  ASSUME RadioTypeOK, WrapInv, JoinAccepted
  PROVE  \E n \in 0..Most :
           /\ serviceState = "Joining" /\ ~activated /\ JoinDue /\ Polls /\ serviceState' = "Ready"
           /\ Called(n) /\ Spaces(n)
           /\ joinedAttempted' = TRUE /\ lastJoin' = now' /\ activated' = TRUE
           /\ txFailures' = 0 /\ recent' = <<>> /\ UNCHANGED <<phaseStarted, slept, rushed>>
PROOF
  <1>1. PICK c \in JoinStarts, k \in 0..Guard, f \in 0..Jitter :
          Calls(c, k) /\ Passes(c + k + f) /\ Spaces(c + k + f)
    BY DEF JoinAccepted
  <1>2. /\ serviceState = "Joining" /\ ~activated /\ JoinDue /\ Polls /\ serviceState' = "Ready"
        /\ turn = "poll" /\ ~Interrupted
        /\ joinedAttempted' = TRUE /\ lastJoin' = now' /\ activated' = TRUE
        /\ txFailures' = 0 /\ recent' = <<>> /\ UNCHANGED <<phaseStarted, slept, rushed>>
    BY DEF JoinAccepted, Polled, Polls
  <1>3. c \in 0..Jitter /\ ~RolloverPending(Later(c))
    BY DEF JoinStarts, JoinRefused, SendRefused
  <1>4. (stale => now < read) /\ ~misused /\ Since(now, read) <= Jitter + Most
    BY <1>2, TurnIsFresh DEF Active
  <1>5. misused' = FALSE /\ straddled' \in BOOLEAN
    BY <1>1, <1>3, <1>4, CallIsSafe
  <1>6. Called(c + k + f)
    BY <1>1, <1>5, CallEnds
  <1>7. c + k + f \in 0..Most
    BY <1>3, StepsFit
  <1>8. QED
    BY <1>1, <1>2, <1>6, <1>7

LEMMA JoinFailedEffect ==
  ASSUME RadioTypeOK, WrapInv, JoinFailed
  PROVE  \E n \in 0..Most :
           /\ serviceState = "Joining" /\ ~activated /\ JoinDue /\ Polls
           /\ Called(n)
           /\ joinedAttempted' = TRUE /\ spaced' \in 0..JoinRetry /\ lastJoin' = now'
           /\ activated' \in BOOLEAN /\ UNCHANGED <<rushed, recent>>
           /\ txFailures' \in {0, txFailures} /\ phaseStarted' \in 0..Wrap - 1
           /\ slept' \in 0..Recovery
           /\ \/ serviceState' \in {"Fault", "Rollover"}
              \/ /\ serviceState' = "Cooldown"
                 /\ slept' = Recovery \/ Since(now', phaseStarted') <= slept'
                 /\ slept' <= spaced' \/ spaced' = JoinRetry
              \/ serviceState' = "Joining" /\ UNCHANGED activated
PROOF
  <1>1. /\ serviceState = "Joining" /\ ~activated /\ JoinDue /\ Polls /\ ~Interrupted /\ turn = "poll"
        /\ joinedAttempted' = TRUE /\ lastJoin' = now' /\ UNCHANGED <<rushed, recent>>
    BY DEF JoinFailed, Polled, Polls
  <1>2. (stale => now < read) /\ ~misused /\ Since(now, read) <= Jitter + Most
    BY <1>1, TurnIsFresh DEF Active
  <1>3. /\ activated \in BOOLEAN /\ stale \in BOOLEAN /\ misused = FALSE /\ straddled \in BOOLEAN
        /\ now \in 0..Wrap - 1 /\ phaseStarted \in 0..Wrap - 1 /\ slept \in 0..Recovery
    BY <1>2 DEF RadioTypeOK
  <1>4. ASSUME NEW f \in Nat PROVE AtMost(f, JoinRetry) \in 0..JoinRetry
    BY RadioAssumption DEF AtMost
  <1>5. CASE \E c \in 0..Jitter :
               /\ Passes(c) /\ spaced' = 0 /\ RadioFault
               /\ UNCHANGED <<misused, straddled, activated, attempts, streaks, phaseStarted, slept>>
    <2>1. PICK c \in 0..Jitter :
            /\ Passes(c) /\ spaced' = 0 /\ RadioFault
            /\ UNCHANGED <<misused, straddled, activated, attempts, streaks, phaseStarted, slept>>
      BY <1>5
    <2>2. Called(c)
      BY <1>3, <2>1, CallEnds
    <2>3. c \in 0..Most /\ spaced' \in 0..JoinRetry
      BY <2>1, StepsFit, RadioAssumption
    <2>4. QED
      BY <1>1, <1>3, <2>1, <2>2, <2>3 DEF RadioFault, streaks
  <1>6. CASE \E d \in JoinDefers : \E e \in d..Jitter, f \in 0..Jitter :
               /\ Passes(e + f) /\ spaced' = AtMost(e + f - d, JoinRetry)
               /\ RolloverWait(Later(d), Later(e))
               /\ UNCHANGED <<misused, straddled, activated>>
    <2>1. PICK d \in 0..Jitter : \E e \in d..Jitter, f \in 0..Jitter :
               /\ Passes(e + f) /\ spaced' = AtMost(e + f - d, JoinRetry)
               /\ RolloverWait(Later(d), Later(e))
               /\ UNCHANGED <<misused, straddled, activated>>
      BY <1>6 DEF JoinDefers
    <2>2. PICK e \in d..Jitter, f \in 0..Jitter :
               /\ Passes(e + f) /\ spaced' = AtMost(e + f - d, JoinRetry)
               /\ RolloverWait(Later(d), Later(e))
               /\ UNCHANGED <<misused, straddled, activated>>
      BY <2>1
    <2>3. e \in 0..Jitter /\ e + f \in Nat /\ e + f - d \in Nat /\ f <= e + f - d
      BY RadioAssumption
    <2>4. e + f \in 0..Most
      BY <2>3, StepsFit
    <2>5. Called(e + f) /\ now' = Later(e + f)
      BY <1>3, <2>2, CallEnds DEF Passes
    <2>6. Later(d) \in 0..Wrap - 1 /\ Later(e) \in 0..Wrap - 1
      BY <1>3, <2>3, StepsFit, LaterIs
    <2>7. e \in Nat /\ f \in Nat /\ e + f < Wrap
      BY <2>3, <2>4, StepsFit
    <2>8. now' \in 0..Wrap - 1 /\ Since(now', Later(e)) = f
      BY <1>3, <2>5, <2>7, StepShows
    <2>9. spaced' \in 0..JoinRetry
      BY <1>4, <2>2, <2>3
    <2>10. CASE serviceState' = "Rollover" /\ phaseStarted' = Later(d) /\ UNCHANGED <<slept, txFailures>>
      BY <1>1, <1>3, <2>2, <2>4, <2>5, <2>6, <2>9, <2>10
    <2>11. CASE Cooldown(Later(e))
      <3>1. /\ serviceState' = "Cooldown" /\ phaseStarted' \in 0..Wrap - 1 /\ txFailures' = 0
            /\ slept' = AtMost(Since(now', Later(e)), Recovery) /\ slept' \in 0..Recovery
            /\ slept' = Recovery \/ Since(now', phaseStarted') <= slept'
        BY <2>6, <2>8, <2>11, CooldownEffect
      <3>2. slept' = AtMost(f, Recovery)
        BY <2>8, <3>1
      <3>3. slept' <= spaced' \/ spaced' = JoinRetry
        BY <2>2, <2>3, <3>2, RadioAssumption DEF AtMost
      <3>4. QED
        BY <1>1, <1>3, <2>2, <2>4, <2>5, <2>9, <3>1, <3>3
    <2>12. QED
      BY <2>2, <2>10, <2>11, RolloverWaitEffect
  <1>7. CASE \E c \in JoinStarts, k \in 0..Guard, f \in 0..Jitter :
               /\ Calls(c, k) /\ Passes(c + k + f) /\ spaced' = AtMost(f, JoinRetry)
               /\ \/ RadioFault /\ activated' \in BOOLEAN /\ UNCHANGED <<attempts, streaks, phaseStarted, slept>>
                  \/ Cooldown(Later(c + k)) /\ UNCHANGED activated
                  \/ UNCHANGED <<serviceState, phaseStarted, streaks, activated, slept>>
    <2>1. PICK c \in JoinStarts, k \in 0..Guard, f \in 0..Jitter :
               /\ Calls(c, k) /\ Passes(c + k + f) /\ spaced' = AtMost(f, JoinRetry)
               /\ \/ RadioFault /\ activated' \in BOOLEAN /\ UNCHANGED <<attempts, streaks, phaseStarted, slept>>
                  \/ Cooldown(Later(c + k)) /\ UNCHANGED activated
                  \/ UNCHANGED <<serviceState, phaseStarted, streaks, activated, slept>>
      BY <1>7
    <2>2. c \in 0..Jitter /\ ~RolloverPending(Later(c))
      BY DEF JoinStarts, JoinRefused, SendRefused
    <2>3. misused' = FALSE /\ straddled' \in BOOLEAN
      BY <1>2, <2>1, <2>2, CallIsSafe
    <2>4. Called(c + k + f) /\ now' = Later(c + k + f)
      BY <2>1, <2>3, CallEnds DEF Passes
    <2>5. c + k + f \in 0..Most /\ c + k \in Nat /\ c + k \in 0..Wrap - 1 /\ c + k + f < Wrap
      BY <2>2, StepsFit
    <2>6. f \in Nat
      BY RadioAssumption
    <2>7. spaced' \in 0..JoinRetry
      BY <1>4, <2>1, <2>6
    <2>8. CASE RadioFault /\ activated' \in BOOLEAN /\ UNCHANGED <<attempts, streaks, phaseStarted, slept>>
      BY <1>1, <1>3, <2>4, <2>5, <2>7, <2>8 DEF RadioFault, streaks
    <2>9. CASE Cooldown(Later(c + k)) /\ UNCHANGED activated
      <3>1. /\ Later(c + k) \in 0..Wrap - 1 /\ now' \in 0..Wrap - 1
            /\ Since(now', Later(c + k)) = f
        BY <1>3, <2>4, <2>5, <2>6, StepShows
      <3>2. /\ serviceState' = "Cooldown" /\ phaseStarted' \in 0..Wrap - 1 /\ txFailures' = 0
            /\ slept' = AtMost(Since(now', Later(c + k)), Recovery) /\ slept' \in 0..Recovery
            /\ slept' = Recovery \/ Since(now', phaseStarted') <= slept'
        BY <2>9, <3>1, CooldownEffect
      <3>3. slept' = AtMost(f, Recovery)
        BY <3>1, <3>2
      <3>4. slept' <= spaced' \/ spaced' = JoinRetry
        BY <2>1, <2>6, <3>3, RadioAssumption DEF AtMost
      <3>5. QED
        BY <1>1, <1>3, <2>4, <2>5, <2>7, <2>9, <3>2, <3>4
    <2>10. CASE UNCHANGED <<serviceState, phaseStarted, streaks, activated, slept>>
      BY <1>1, <1>3, <2>4, <2>5, <2>7, <2>10 DEF streaks
    <2>11. QED
      BY <2>1, <2>8, <2>9, <2>10
  <1>8. QED
    BY <1>5, <1>6, <1>7 DEF JoinFailed

LEMMA TransmitEffect ==
  ASSUME RadioTypeOK, WrapInv, Transmit
  PROVE  \E n \in 0..Most :
           /\ turn = "report" /\ turn' = "asleep" /\ serviceState = "Ready" /\ activated
           /\ Called(n) /\ now' \in 0..Wrap - 1
           /\ Spaces(n) /\ UNCHANGED <<read, serviceTick, lastJoin, rushed>>
           /\ activated' \in {activated, FALSE}
           /\ \/ serviceState' \in {"Ready", "Fault"} /\ UNCHANGED <<phaseStarted, joinedAttempted, slept>>
              \/ serviceState' = "Joining" /\ joinedAttempted' = FALSE /\ UNCHANGED <<phaseStarted, slept>>
              \/ /\ serviceState' = "Cooldown" /\ phaseStarted' = now' /\ slept' = 0
                 /\ UNCHANGED joinedAttempted
PROOF
  <1>1. /\ turn = "report" /\ turn' = "asleep" /\ serviceState = "Ready" /\ activated
        /\ UNCHANGED <<read, serviceTick, lastJoin, rushed>> /\ activated' \in {activated, FALSE}
    BY DEF Transmit, Reports, ServiceReady
  <1>2. (stale => now < read) /\ misused = FALSE /\ Since(now, read) <= Jitter + Most
    BY <1>1, TurnIsFresh DEF Active
  <1>3. now \in 0..Wrap - 1 /\ straddled \in BOOLEAN
    BY DEF RadioTypeOK
  <1>4. PICK n \in 0..Most : Called(n) /\ Spaces(n)
    <2>1. CASE \E c \in SendStarts, k \in 0..Guard, f \in 0..Jitter :
                 Calls(c, k) /\ Passes(c + k + f) /\ Spaces(c + k + f)
      <3>1. PICK c \in SendStarts, k \in 0..Guard, f \in 0..Jitter :
              Calls(c, k) /\ Passes(c + k + f) /\ Spaces(c + k + f)
        BY <2>1
      <3>2. c \in 0..Jitter /\ ~RolloverPending(Later(c))
        BY DEF SendStarts, SendRefused
      <3>3. misused' = FALSE /\ straddled' \in BOOLEAN
        BY <1>2, <3>1, <3>2, CallIsSafe
      <3>4. Called(c + k + f)
        BY <3>1, <3>3, CallEnds
      <3>5. c + k + f \in 0..Most
        BY <3>2, StepsFit
      <3>6. QED
        BY <3>1, <3>4, <3>5
    <2>2. CASE (\E d \in 0..Jitter : Passes(d) /\ Spaces(d)) /\ UNCHANGED <<misused, straddled>>
      <3>1. PICK d \in 0..Jitter : Passes(d) /\ Spaces(d)
        BY <2>2
      <3>2. Called(d)
        BY <1>2, <1>3, <2>2, <3>1, CallEnds
      <3>3. QED
        BY <3>1, <3>2, StepsFit
    <2>3. QED
      BY <2>1, <2>2 DEF Transmit
  <1>5. \E outcome \in Outcomes : Settle(outcome)
    BY DEF Transmit, Outcomes
  <1>6. now' = Later(n) /\ now' \in 0..Wrap - 1
    BY <1>3, <1>4, StepsFit, LaterIs DEF Called
  <1>7. Cooldown(now') => serviceState' = "Cooldown" /\ phaseStarted' = now' /\ slept' = 0
    BY <1>6, CooldownEffect
  <1>8. \/ serviceState' \in {"Ready", "Fault"} /\ UNCHANGED <<phaseStarted, joinedAttempted, slept>>
        \/ serviceState' = "Joining" /\ joinedAttempted' = FALSE /\ UNCHANGED <<phaseStarted, slept>>
        \/ /\ serviceState' = "Cooldown" /\ phaseStarted' = now' /\ slept' = 0
           /\ UNCHANGED joinedAttempted
    BY <1>1, <1>5, <1>7 DEF Settle, RadioFault, TryCapacityDataRate
  <1>9. QED
    BY <1>1, <1>4, <1>6, <1>8

LEMMA PauseEffect ==
  ASSUME RadioTypeOK, Pause
  PROVE  \E k \in 1..MaxPause, e \in 0..Jitter :
           /\ turn # "poll" /\ turn' = "poll" /\ read' = Later(k) /\ now' = Later(k + e)
           /\ read' \in 0..Wrap - 1 /\ now' \in 0..Wrap - 1
           /\ (stale' <=> stale \/ now + (k + e) >= Wrap) /\ stale' \in BOOLEAN
           /\ Sleeps(k + e) /\ Spaces(k + e)
           /\ rushed' = (rushed /\ spaced' < JoinRetry) /\ straddled' = FALSE
           /\ UNCHANGED <<serviceState, serviceTick, phaseStarted, lastJoin, joinedAttempted,
                          txFailures, activated, misused, recent>>
PROOF
  <1>1. PICK k \in 1..MaxPause, e \in 0..Jitter :
          read' = Later(k) /\ Passes(k + e) /\ Sleeps(k + e) /\ Spaces(k + e)
    BY DEF Pause
  <1>2. Later(k) \in 0..Wrap - 1 /\ Later(k + e) \in 0..Wrap - 1
    BY StepsFit, LaterIs DEF RadioTypeOK
  <1>3. /\ turn # "poll" /\ turn' = "poll"
        /\ rushed' = (rushed /\ spaced' < JoinRetry) /\ straddled' = FALSE
        /\ UNCHANGED <<serviceState, serviceTick, phaseStarted, lastJoin, joinedAttempted,
                       txFailures, activated, misused, recent>>
    BY DEF Pause, timers, streaks
  <1>4. QED
    BY <1>1, <1>2, <1>3 DEF Passes, RadioTypeOK

(* The turns that end without a transaction, after what the radio was asked. *)
Defer == WaitTooLong \/ TransmitDeferred

LEMMA DeferEffect ==
  ASSUME RadioTypeOK, Defer
  PROVE  \E d \in 0..Jitter :
           /\ turn = "report" /\ turn' = "asleep" /\ serviceState = "Ready"
           /\ now' = Later(d) /\ now' \in 0..Wrap - 1 /\ stale' \in BOOLEAN /\ Spaces(d)
           /\ txFailures' = 0
           /\ UNCHANGED <<read, serviceTick, lastJoin, joinedAttempted, activated, rushed, misused,
                          straddled, recent>>
           /\ \/ serviceState' = "Rollover" /\ phaseStarted' \in 0..Wrap - 1 /\ UNCHANGED slept
              \/ serviceState' = "Cooldown" /\ phaseStarted' = now' /\ slept' = 0
PROOF
  <1>1. /\ turn = "report" /\ turn' = "asleep" /\ serviceState = "Ready"
        /\ UNCHANGED <<read, serviceTick, lastJoin, joinedAttempted, activated, rushed, misused,
                       straddled, recent>>
    BY DEF Defer, WaitTooLong, TransmitDeferred, Reports, ServiceReady
  <1>2. \A t \in 0..Jitter : Later(t) \in 0..Wrap - 1
    BY StepsFit, LaterIs DEF RadioTypeOK
  <1>3. \A t \in 0..Jitter : Passes(t) => now' = Later(t) /\ stale' \in BOOLEAN
    BY DEF Passes, RadioTypeOK
  <1>4. ASSUME NEW d \in 0..Jitter, Passes(d), Spaces(d), Cooldown(Later(d))
        PROVE  /\ now' = Later(d) /\ now' \in 0..Wrap - 1 /\ stale' \in BOOLEAN /\ txFailures' = 0
               /\ serviceState' = "Cooldown" /\ phaseStarted' = now' /\ slept' = 0
    BY <1>2, <1>3, <1>4, CooldownEffect
  <1>5. CASE WaitTooLong
    <2>1. PICK d \in 0..Jitter : Passes(d) /\ Spaces(d) /\ Cooldown(Later(d))
      BY <1>5 DEF WaitTooLong
    <2>2. QED
      BY <1>1, <1>4, <2>1
  <1>6. CASE TransmitDeferred
    <2>1. PICK d \in 0..Jitter : \E e \in d..Jitter :
            /\ Passes(e) /\ Spaces(e)
            /\ \/ serviceState' = "Rollover" /\ phaseStarted' = Later(d) /\ txFailures' = 0 /\ UNCHANGED slept
               \/ Cooldown(Later(e))
      BY <1>6 DEF TransmitDeferred, SendDefers
    <2>2. PICK e \in d..Jitter :
            /\ Passes(e) /\ Spaces(e)
            /\ \/ serviceState' = "Rollover" /\ phaseStarted' = Later(d) /\ txFailures' = 0 /\ UNCHANGED slept
               \/ Cooldown(Later(e))
      BY <2>1
    <2>3. e \in 0..Jitter
      BY RadioAssumption
    <2>4. Later(d) \in 0..Wrap - 1 /\ now' = Later(e) /\ now' \in 0..Wrap - 1 /\ stale' \in BOOLEAN
      BY <1>2, <1>3, <2>2, <2>3
    <2>5. CASE serviceState' = "Rollover" /\ phaseStarted' = Later(d) /\ txFailures' = 0 /\ UNCHANGED slept
      BY <1>1, <2>2, <2>3, <2>4, <2>5
    <2>6. CASE Cooldown(Later(e))
      BY <1>1, <1>4, <2>2, <2>3, <2>6
    <2>7. QED
      BY <2>2, <2>5, <2>6
  <1>7. QED
    BY <1>5, <1>6 DEF Defer

(* The polls that initialize the radio or build a new node. *)
Build == Initialize \/ Recover

LEMMA BuildEffect ==
  ASSUME RadioTypeOK, Build
  PROVE  \E d \in 0..Jitter :
           /\ turn = "poll" /\ ~Interrupted /\ Polls
           /\ now' = Later(d) /\ now' \in 0..Wrap - 1 /\ phaseStarted' = now' /\ Spaces(d)
           /\ UNCHANGED <<lastJoin, misused, straddled, recent, txFailures>> /\ stale' \in BOOLEAN
           /\ \/ /\ serviceState = "Initializing" /\ UNCHANGED <<slept, rushed, activated>>
                 /\ stale' => stale \/ now + d >= Wrap
                 /\ \/ serviceState' \in {"Initializing", "Fault"} /\ UNCHANGED joinedAttempted
                    \/ serviceState' = "Joining" /\ joinedAttempted' = FALSE
              \/ /\ Recover /\ slept' = 0 /\ rushed' = FALSE /\ activated' = FALSE
                 /\ stale' => now + d >= Wrap
                 /\ \/ serviceState' \in {"Cooldown", "Fault"} /\ UNCHANGED joinedAttempted
                    \/ serviceState' = "Joining" /\ joinedAttempted' = FALSE
PROOF
  <1>1. \A d \in 0..Jitter : Later(d) \in 0..Wrap - 1
    BY StepsFit, LaterIs DEF RadioTypeOK
  <1>2. turn = "poll" /\ ~Interrupted /\ Polls /\ UNCHANGED <<lastJoin, misused, straddled, recent, txFailures>>
    BY DEF Build, Initialize, Recover, Polled, Polls, streaks
  <1>3. CASE Initialize
    <2>1. PICK d \in 0..Jitter : Passes(d) /\ Spaces(d) /\ phaseStarted' = Later(d)
      BY <1>3 DEF Initialize
    <2>2. /\ serviceState = "Initializing" /\ UNCHANGED <<slept, rushed, activated>>
          /\ \/ serviceState' \in {"Initializing", "Fault"} /\ UNCHANGED joinedAttempted
             \/ serviceState' = "Joining" /\ joinedAttempted' = FALSE
      BY <1>3 DEF Initialize, Polled, RadioFault
    <2>3. now' = Later(d) /\ now' \in 0..Wrap - 1 /\ phaseStarted' = now'
      BY <1>1, <2>1 DEF Passes
    <2>4. (stale' => stale \/ now + d >= Wrap) /\ stale' \in BOOLEAN
      BY <2>1 DEF Passes, RadioTypeOK
    <2>5. QED
      BY <1>2, <2>1, <2>2, <2>3, <2>4
  <1>4. CASE Recover
    <2>1. PICK d \in 0..Jitter : Rebuild(recoveryAttempts, 0, d)
      BY <1>4 DEF Recover
    <2>2. /\ now' = Later(d) /\ Spaces(d) /\ phaseStarted' = Later(d) /\ slept' = 0
          /\ activated' = FALSE /\ stale' = (Later(d) < Later(0))
          /\ \/ serviceState' = "Joining" /\ joinedAttempted' = FALSE
             \/ serviceState' \in {"Cooldown", "Fault"} /\ UNCHANGED joinedAttempted
      BY <2>1, RebuildEffect
    <2>3. now' = Later(d) /\ now' \in 0..Wrap - 1 /\ phaseStarted' = now' /\ Spaces(d) /\ rushed' = FALSE
      BY <1>1, <1>4, <2>2 DEF Recover
    <2>4. stale' \in BOOLEAN
      BY <2>2
    <2>5. ASSUME Later(d) < Later(0) PROVE now + d >= Wrap
      <3>1. now \in 0..Wrap - 1 /\ 0 \in 0..Jitter /\ d \in 0..Jitter
        BY RadioAssumption DEF RadioTypeOK
      <3>2. QED
        BY <2>5, <3>1, WrapBetween
    <2>6. stale' => now + d >= Wrap
      BY <2>2, <2>5
    <2>7. /\ slept' = 0 /\ activated' = FALSE
          /\ \/ serviceState' \in {"Cooldown", "Fault"} /\ UNCHANGED joinedAttempted
             \/ serviceState' = "Joining" /\ joinedAttempted' = FALSE
      BY <2>2
    <2>8. QED
      BY <1>2, <1>4, <2>3, <2>4, <2>6, <2>7
  <1>5. QED
    BY <1>3, <1>4 DEF Build

(* The steps in which no time passes. *)
Quiet == \/ Resume \/ CheckSession \/ AwaitWrap \/ Rest \/ NotYet \/ Idle \/ Stop

LEMMA QuietEffect ==
  ASSUME RadioTypeOK, Quiet
  PROVE  /\ UNCHANGED <<now, read, lastJoin, spaced, stale, misused, straddled, rushed, recent>>
         /\ txFailures' \in {0, txFailures}
         /\ \/ turn = "poll" /\ turn' = "report" /\ serviceTick' = read
            \/ /\ turn # "poll" /\ UNCHANGED <<turn, serviceTick>>
               /\ serviceState' \in {"Stopped", "Fault"}
         /\ turn = "poll" /\ serviceState' \in Active => ~(read < serviceTick)
         /\ serviceState' \in Active => serviceState \in Active
PROOF
  <1> USE DEF RadioTypeOK
  <1>1. CASE Resume \/ CheckSession
    BY <1>1 DEF Resume, CheckSession, Polled, Polls, Interrupted, streaks, Active
  <1>2. CASE AwaitWrap
    BY <1>2 DEF AwaitWrap, Cooldown, Polled, Polls, streaks, Active
  <1>3. CASE Rest \/ NotYet
    BY <1>3 DEF Rest, NotYet, Polled, Polls, Interrupted, streaks, Active
  <1>4. CASE Idle \/ Stop
    BY <1>4 DEF Idle, Stop, vars, timers, streaks, Active
  <1>5. QED
    BY <1>1, <1>2, <1>3, <1>4 DEF Quiet

LEMMA NextIs ==
  Next <=> Pause \/ Interrupt \/ JoinAccepted \/ JoinFailed \/ Transmit \/ Defer \/ Build \/ Quiet
  BY DEF Next, Loop, Poll, Defer, Build, Quiet

-----------------------------------------------------------------------------
LEMMA InitIInv == Init => IInv
PROOF
  <1> SUFFICES ASSUME Init PROVE IInv
    OBVIOUS
  <1> USE RadioAssumption DEF Init
  <1>1. RadioTypeOK
    <2>1. 0 \in 0..Wrap - 1 /\ 0 \in 0..Recovery /\ JoinRetry \in 0..JoinRetry
      OBVIOUS
    <2>2. QED
      BY <2>1 DEF RadioTypeOK, States
  <1>2. Since(now, read) = 0
    BY SinceNow
  <1>3. WrapInv
    BY <1>2 DEF WrapInv, Most
  <1>4. RestInv
    BY DEF RestInv
  <1>5. StreakInv
    BY EmptySeq DEF StreakInv
  <1>6. QED
    BY <1>1, <1>3, <1>4, <1>5 DEF IInv

(* The histories of a rest and of the time since a join that failed. *)
LEMMA AgesPass ==
  ASSUME RadioTypeOK, NEW k \in Nat
  PROVE  /\ AtMost(slept + k, Recovery) \in 0..Recovery /\ AtMost(spaced + k, JoinRetry) \in 0..JoinRetry
         /\ slept = Recovery => AtMost(slept + k, Recovery) = Recovery
         /\ spaced = JoinRetry => AtMost(spaced + k, JoinRetry) = JoinRetry
         /\ slept <= spaced \/ spaced = JoinRetry
            => \/ AtMost(slept + k, Recovery) <= AtMost(spaced + k, JoinRetry)
               \/ AtMost(spaced + k, JoinRetry) = JoinRetry
PROOF
  <1>1. /\ slept \in 0..Recovery /\ spaced \in 0..JoinRetry /\ Recovery \in Nat /\ JoinRetry \in Nat
        /\ JoinRetry <= Recovery
    BY RadioAssumption DEF RadioTypeOK
  <1>2. QED
    BY <1>1 DEF AtMost

LEMMA Type ==
  ASSUME IInv, [Next]_vars
  PROVE  RadioTypeOK'
PROOF
  <1> USE RadioAssumption
  <1>0. RadioTypeOK /\ WrapInv
    BY DEF IInv
  <1>1. CASE UNCHANGED vars
    BY <1>0, <1>1 DEF vars, RadioTypeOK
  <1>2. CASE Pause
    <2>1. PICK k \in 1..MaxPause, e \in 0..Jitter :
            /\ turn' = "poll" /\ read' \in 0..Wrap - 1 /\ now' \in 0..Wrap - 1 /\ stale' \in BOOLEAN
            /\ Sleeps(k + e) /\ Spaces(k + e)
            /\ rushed' = (rushed /\ spaced' < JoinRetry) /\ straddled' = FALSE
            /\ UNCHANGED <<serviceState, serviceTick, phaseStarted, lastJoin, joinedAttempted,
                           activated, misused>>
      BY <1>0, <1>2, PauseEffect
    <2>2. k + e \in Nat
      BY StepsFit
    <2>3. slept' \in 0..Recovery /\ spaced' \in 0..JoinRetry
      BY <1>0, <2>1, <2>2, AgesPass DEF Sleeps, Spaces
    <2>4. rushed' \in BOOLEAN
      BY <1>0, <2>1 DEF RadioTypeOK
    <2>5. QED
      BY <1>0, <2>1, <2>3, <2>4 DEF RadioTypeOK
  <1>3. CASE Interrupt
    <2>1. PICK n \in 0..Jitter :
            /\ Polls /\ now' \in 0..Wrap - 1 /\ Spaces(n) /\ phaseStarted' \in 0..Wrap - 1
            /\ UNCHANGED <<lastJoin, misused, straddled>>
            /\ serviceState' \in States /\ stale' \in BOOLEAN /\ slept' \in {0, slept}
            /\ rushed' \in {TRUE, rushed} /\ joinedAttempted' \in {FALSE, joinedAttempted}
            /\ activated' \in {FALSE, activated}
      BY <1>0, <1>3, InterruptEffect DEF States
    <2>2. spaced' \in 0..JoinRetry
      BY <1>0, <2>1, AgesPass DEF Spaces
    <2>3. slept' \in 0..Recovery /\ serviceTick' \in 0..Wrap - 1
      BY <1>0, <2>1 DEF RadioTypeOK, Polls
    <2>4. QED
      BY <1>0, <2>1, <2>2, <2>3 DEF RadioTypeOK, Polls
  <1>4. CASE JoinAccepted
    <2>1. PICK n \in 0..Most :
            /\ Polls /\ serviceState' = "Ready" /\ Called(n) /\ Spaces(n)
            /\ joinedAttempted' = TRUE /\ lastJoin' = now' /\ activated' = TRUE
            /\ UNCHANGED <<phaseStarted, slept, rushed>>
      BY <1>0, <1>4, JoinAcceptedEffect
    <2>2. n \in Nat /\ n \in 0..Wrap - 1
      BY StepsFit
    <2>3. now' \in 0..Wrap - 1 /\ spaced' \in 0..JoinRetry
      BY <1>0, <2>1, <2>2, LaterIs, AgesPass DEF Called, Spaces, RadioTypeOK
    <2>4. QED
      BY <1>0, <2>1, <2>3 DEF RadioTypeOK, States, Polls, Called
  <1>5. CASE JoinFailed
    <2>1. PICK n \in 0..Most :
            /\ Polls /\ serviceState' \in States /\ Called(n)
            /\ joinedAttempted' = TRUE /\ spaced' \in 0..JoinRetry /\ lastJoin' = now'
            /\ activated' \in BOOLEAN /\ UNCHANGED rushed
            /\ phaseStarted' \in 0..Wrap - 1 /\ slept' \in 0..Recovery
      BY <1>0, <1>5, JoinFailedEffect DEF States
    <2>2. now' \in 0..Wrap - 1
      BY <1>0, <2>1, StepsFit, LaterIs DEF Called, RadioTypeOK
    <2>3. serviceTick' \in 0..Wrap - 1
      BY <1>0, <2>1 DEF RadioTypeOK, Polls
    <2>4. QED
      BY <1>0, <2>1, <2>2, <2>3 DEF RadioTypeOK, Polls, Called
  <1>6. CASE Transmit
    <2>1. PICK n \in 0..Most :
            /\ turn' = "asleep" /\ serviceState' \in States /\ now' \in 0..Wrap - 1 /\ Called(n)
            /\ Spaces(n) /\ UNCHANGED <<read, serviceTick, lastJoin, rushed>>
            /\ activated' \in {activated, FALSE}
            /\ joinedAttempted' \in {joinedAttempted, FALSE} /\ slept' \in {0, slept}
            /\ phaseStarted' \in {phaseStarted, now'}
      BY <1>0, <1>6, TransmitEffect DEF States
    <2>2. n \in Nat
      BY StepsFit
    <2>3. spaced' \in 0..JoinRetry
      BY <1>0, <2>1, <2>2, AgesPass DEF Spaces
    <2>4. slept' \in 0..Recovery /\ phaseStarted' \in 0..Wrap - 1
      BY <1>0, <2>1 DEF RadioTypeOK
    <2>5. QED
      BY <1>0, <2>1, <2>3, <2>4 DEF RadioTypeOK, Called
  <1>7. CASE Defer
    <2>1. PICK d \in 0..Jitter :
            /\ turn' = "asleep" /\ now' \in 0..Wrap - 1 /\ stale' \in BOOLEAN /\ Spaces(d)
            /\ phaseStarted' \in 0..Wrap - 1 /\ slept' \in {0, slept} /\ serviceState' \in States
            /\ UNCHANGED <<read, serviceTick, lastJoin, joinedAttempted, activated, rushed, misused,
                           straddled>>
      BY <1>0, <1>7, DeferEffect DEF States
    <2>2. slept' \in 0..Recovery
      BY <1>0, <2>1 DEF RadioTypeOK
    <2>3. spaced' \in 0..JoinRetry
      BY <1>0, <2>1, StepsFit, AgesPass DEF Spaces
    <2>4. QED
      BY <1>0, <2>1, <2>2, <2>3 DEF RadioTypeOK
  <1>8. CASE Build
    <2>1. PICK d \in 0..Jitter :
            /\ Polls /\ now' \in 0..Wrap - 1 /\ phaseStarted' = now' /\ Spaces(d)
            /\ UNCHANGED <<lastJoin, misused, straddled>> /\ stale' \in BOOLEAN
            /\ serviceState' \in States /\ slept' \in {0, slept} /\ rushed' \in {FALSE, rushed}
            /\ joinedAttempted' \in {FALSE, joinedAttempted} /\ activated' \in {FALSE, activated}
      BY <1>0, <1>8, BuildEffect DEF States
    <2>2. spaced' \in 0..JoinRetry
      BY <1>0, <2>1, AgesPass DEF Spaces
    <2>3. slept' \in 0..Recovery /\ serviceTick' \in 0..Wrap - 1
      BY <1>0, <2>1 DEF RadioTypeOK, Polls
    <2>4. QED
      BY <1>0, <2>1, <2>2, <2>3 DEF RadioTypeOK, Polls
  <1>9. CASE Quiet
    <2>1. /\ UNCHANGED <<now, read, lastJoin, spaced, stale, misused, straddled, rushed>>
          /\ serviceTick' \in {read, serviceTick} /\ turn' \in {"asleep", "poll", "report"}
      BY <1>0, <1>9, QuietEffect DEF RadioTypeOK
    <2>2. /\ serviceState' \in States /\ joinedAttempted' \in {FALSE, joinedAttempted}
          /\ UNCHANGED activated
          /\ \/ UNCHANGED <<phaseStarted, slept>>
             \/ Cooldown(now)
      <3>1. CASE Resume \/ CheckSession \/ Rest
        BY <1>0, <3>1 DEF Resume, CheckSession, Rest, Polled, RadioTypeOK, States
      <3>2. CASE AwaitWrap
        BY <1>0, <3>2 DEF AwaitWrap, Polled, RadioTypeOK, States, Cooldown
      <3>3. CASE NotYet \/ Idle \/ Stop
        BY <1>0, <3>3 DEF NotYet, Idle, Stop, vars, RadioTypeOK, States, timers
      <3>4. QED
        BY <1>9, <3>1, <3>2, <3>3 DEF Quiet
    <2>3. slept' \in 0..Recovery /\ phaseStarted' \in 0..Wrap - 1
      <3>1. now \in 0..Wrap - 1 /\ now' \in 0..Wrap - 1
        BY <1>0, <2>1 DEF RadioTypeOK
      <3>2. Cooldown(now) => phaseStarted' = now /\ slept' \in 0..Recovery
        BY <3>1, CooldownEffect
      <3>3. QED
        BY <1>0, <2>2, <3>1, <3>2 DEF RadioTypeOK
    <2>4. serviceTick' \in 0..Wrap - 1
      BY <1>0, <2>1 DEF RadioTypeOK
    <2>5. QED
      BY <1>0, <2>1, <2>2, <2>3, <2>4 DEF RadioTypeOK
  <1>10. QED
    BY <1>1, <1>2, <1>3, <1>4, <1>5, <1>6, <1>7, <1>8, <1>9, NextIs

-----------------------------------------------------------------------------
(* A wrap in a pause, or before it in the turn that has ended, shows in the    *)
(* first reading of the next poll; one right after that reading, in the clock. *)
LEMMA PauseShows ==
  ASSUME now \in 0..Wrap - 1, read \in 0..Wrap - 1, NEW k \in 1..MaxPause, NEW e \in 0..Jitter,
         Since(now, read) <= Jitter + 2 * Most
  PROVE  /\ Since(Later(k + e), Later(k)) = e
         /\ now < read \/ now + (k + e) >= Wrap => Later(k + e) < Later(k) \/ Later(k) < read
PROOF
  <1>1. /\ k \in 0..Wrap - 1 /\ k + e \in 0..Wrap - 1 /\ k <= MaxPause /\ e \in 0..Wrap - 1
        /\ MaxPause + Jitter + 2 * Most < Wrap
    BY StepsFit
  <1>2. Wrap \in Nat /\ Jitter \in Nat /\ Most \in Nat /\ MaxPause \in Nat
    BY StepsFit
  <1>3. Since(now, read) = IF now >= read THEN now - read ELSE now - read + Wrap
    BY SinceIs
  <1>4. Later(k) = (IF now + k < Wrap THEN now + k ELSE now + k - Wrap) /\ Later(k) \in 0..Wrap - 1
    BY <1>1, LaterIs
  <1>5. /\ Later(k + e) = (IF now + (k + e) < Wrap THEN now + (k + e) ELSE now + (k + e) - Wrap)
        /\ Later(k + e) \in 0..Wrap - 1
    BY <1>1, LaterIs
  <1>6. Since(Later(k + e), Later(k)) = IF Later(k + e) >= Later(k) THEN Later(k + e) - Later(k)
                                        ELSE Later(k + e) - Later(k) + Wrap
    BY <1>4, <1>5, SinceIs
  <1>7. Since(Later(k + e), Later(k)) = e
    BY <1>1, <1>2, <1>4, <1>5, <1>6
  <1>8. now < read \/ now + (k + e) >= Wrap => Later(k + e) < Later(k) \/ Later(k) < read
    BY <1>1, <1>2, <1>3, <1>4, <1>5
  <1>9. QED
    BY <1>7, <1>8

LEMMA WrapsAreSeen ==
  ASSUME IInv, [Next]_vars
  PROVE  WrapInv'
PROOF
  <1> USE RadioAssumption
  <1>0. RadioTypeOK /\ WrapInv
    BY DEF IInv
  <1>1. now \in 0..Wrap - 1 /\ read \in 0..Wrap - 1 /\ Since(now, read) \in Nat
    BY <1>0, SinceIs DEF RadioTypeOK
  <1>2. CASE UNCHANGED vars
    BY <1>0, <1>2 DEF vars, WrapInv, Active, Since
  <1>3. CASE Pause
    <2>1. PICK k \in 1..MaxPause, e \in 0..Jitter :
            /\ turn # "poll" /\ turn' = "poll" /\ read' = Later(k) /\ now' = Later(k + e)
            /\ (stale' <=> stale \/ now + (k + e) >= Wrap)
            /\ UNCHANGED <<serviceState, serviceTick, misused>>
      BY <1>0, <1>3, PauseEffect
    <2>2. Since(now', read') = Since(Later(k + e), Later(k))
      BY <2>1
    <2>3. Since(now', read') = e
      BY <1>0, <1>1, <2>2, PauseShows DEF WrapInv
    <2>4. now < read \/ now + (k + e) >= Wrap => now' < read' \/ read' < serviceTick'
      BY <1>0, <1>1, <2>1, PauseShows DEF WrapInv
    <2>5. stale' /\ serviceState' \in Active => now' < read' \/ read' < serviceTick'
      BY <1>0, <2>1, <2>4 DEF WrapInv
    <2>6. e <= Jitter /\ e <= Jitter + Most /\ e <= Jitter + 2 * Most
      BY DEF Most
    <2>7. QED
      BY <1>0, <2>1, <2>3, <2>5, <2>6 DEF WrapInv, Active
  <1>4. CASE Interrupt
    <2>1. PICK n \in 0..Jitter :
            /\ Polls /\ now' = Later(n) /\ UNCHANGED misused
            /\ \/ serviceState' \in {"Rollover", "Cooldown", "Fault"}
               \/ serviceState' = "Joining" /\ (stale' => now + n >= Wrap)
      BY <1>0, <1>4, InterruptEffect
    <2>2. turn = "poll" /\ turn' = "report" /\ serviceTick' = read /\ read' = read
      BY <2>1 DEF Polls
    <2>3. Since(now, read) <= Jitter /\ n \in Nat
      BY <1>0, <2>2 DEF WrapInv
    <2>4. Since(Later(n), read) = Since(now, read) + n /\ (Later(n) < read <=> now < read \/ now + n >= Wrap)
      BY <1>1, <2>3, TurnGoesOn
    <2>5. Since(now', read') = Since(Later(n), read)
      BY <2>1, <2>2
    <2>6. Since(now', read') <= Jitter + Most /\ Since(now', read') <= Jitter + 2 * Most
      BY <1>1, <2>3, <2>4, <2>5 DEF Most
    <2>7. stale' /\ serviceState' \in Active => now' < read'
      BY <2>1, <2>2, <2>4 DEF Active
    <2>8. QED
      BY <1>0, <2>1, <2>2, <2>6, <2>7 DEF WrapInv
  <1>5. CASE JoinAccepted \/ JoinFailed
    <2>1. PICK n \in 0..Most : Polls /\ Called(n) /\ serviceState = "Joining"
      BY <1>0, <1>5, JoinAcceptedEffect, JoinFailedEffect
    <2>2. turn = "poll" /\ ~Interrupted
      BY <1>5 DEF JoinAccepted, JoinFailed, Polled, Polls
    <2>3. Since(now, read) <= Jitter /\ (stale => now < read)
      BY <1>0, <2>1, <2>2, TurnIsFresh DEF WrapInv, Active
    <2>4. Since(now, read) + n < Wrap /\ n \in Nat
      BY <1>1, <2>3 DEF Most
    <2>5. Since(Later(n), read) = Since(now, read) + n /\ (Later(n) < read <=> now < read \/ now + n >= Wrap)
      BY <1>1, <2>4, TurnGoesOn
    <2>6. turn' = "report" /\ serviceTick' = read /\ read' = read /\ now' = Later(n) /\ misused' = FALSE
      BY <2>1 DEF Polls, Called
    <2>7. Since(now', read') = Since(Later(n), read)
      BY <2>6
    <2>8. Since(now', read') <= Jitter + Most /\ Since(now', read') <= Jitter + 2 * Most
      BY <1>1, <2>3, <2>5, <2>7 DEF Most
    <2>9. stale' => now' < read'
      BY <2>1, <2>3, <2>5, <2>6 DEF Called
    <2>10. QED
      BY <2>6, <2>8, <2>9 DEF WrapInv
  <1>6. CASE Transmit
    <2>1. PICK n \in 0..Most :
            /\ turn = "report" /\ turn' = "asleep" /\ serviceState = "Ready"
            /\ Called(n) /\ UNCHANGED <<read, serviceTick>>
      BY <1>0, <1>6, TransmitEffect
    <2>2. Since(now, read) <= Jitter + Most /\ (stale => now < read) /\ serviceTick = read
      BY <1>0, <2>1, TurnIsFresh DEF WrapInv, Active
    <2>3. Since(now, read) + n < Wrap /\ n \in Nat
      BY <1>1, <2>2 DEF Most
    <2>4. Since(Later(n), read) = Since(now, read) + n /\ (Later(n) < read <=> now < read \/ now + n >= Wrap)
      BY <1>1, <2>3, TurnGoesOn
    <2>5. now' = Later(n) /\ misused' = FALSE
      BY <2>1 DEF Called
    <2>6. Since(now', read') = Since(Later(n), read)
      BY <2>1, <2>5
    <2>7. Since(now', read') <= Jitter + 2 * Most
      BY <1>1, <2>2, <2>4, <2>6 DEF Most
    <2>8. stale' => now' < read'
      BY <2>1, <2>2, <2>4, <2>5 DEF Called
    <2>9. QED
      BY <2>1, <2>2, <2>5, <2>7, <2>8 DEF WrapInv
  <1>7. CASE Defer
    <2>1. PICK d \in 0..Jitter :
            /\ turn = "report" /\ turn' = "asleep" /\ now' = Later(d)
            /\ UNCHANGED <<read, serviceTick, misused>> /\ serviceState' \in {"Rollover", "Cooldown"}
      BY <1>0, <1>7, DeferEffect
    <2>2. Since(now, read) <= Jitter + Most /\ serviceTick = read
      BY <1>0, <2>1 DEF WrapInv
    <2>3. Since(now, read) + d < Wrap /\ d \in Nat
      BY <1>1, <2>2 DEF Most
    <2>4. Since(Later(d), read) = Since(now, read) + d
      BY <1>1, <2>3, TurnGoesOn
    <2>5. Since(now', read') = Since(Later(d), read)
      BY <2>1
    <2>6. Since(now', read') <= Jitter + 2 * Most
      BY <1>1, <2>2, <2>4, <2>5 DEF Most
    <2>7. QED
      BY <1>0, <2>1, <2>2, <2>6 DEF WrapInv, Active
  <1>8. CASE Build
    <2>1. PICK d \in 0..Jitter :
            /\ turn = "poll" /\ ~Interrupted /\ Polls /\ now' = Later(d) /\ UNCHANGED misused
            /\ stale' => now + d >= Wrap \/ (stale /\ serviceState = "Initializing")
      BY <1>0, <1>8, BuildEffect
    <2>2. turn' = "report" /\ serviceTick' = read /\ read' = read
      BY <2>1 DEF Polls
    <2>3. Since(now, read) <= Jitter /\ d \in Nat /\ (stale /\ serviceState = "Initializing" => now < read)
      <3>1. Since(now, read) <= Jitter
        BY <1>0, <2>1 DEF WrapInv
      <3>2. ASSUME stale, serviceState = "Initializing" PROVE now < read
        BY <1>0, <2>1, <3>2, TurnIsFresh DEF Active
      <3>3. QED
        BY <3>1, <3>2
    <2>4. Since(Later(d), read) = Since(now, read) + d /\ (Later(d) < read <=> now < read \/ now + d >= Wrap)
      BY <1>1, <2>3, TurnGoesOn
    <2>5. Since(now', read') = Since(Later(d), read)
      BY <2>1, <2>2
    <2>6. Since(now', read') <= Jitter + Most /\ Since(now', read') <= Jitter + 2 * Most
      BY <1>1, <2>3, <2>4, <2>5 DEF Most
    <2>7. stale' => now' < read'
      BY <2>1, <2>2, <2>3, <2>4
    <2>8. QED
      BY <1>0, <2>1, <2>2, <2>6, <2>7 DEF WrapInv
  <1>9. CASE Quiet
    <2>1. /\ UNCHANGED <<now, read, stale, misused>>
          /\ \/ turn = "poll" /\ turn' = "report" /\ serviceTick' = read
             \/ /\ turn # "poll" /\ UNCHANGED <<turn, serviceTick>>
                /\ serviceState' \in {"Stopped", "Fault"}
          /\ turn = "poll" /\ serviceState' \in Active => ~(read < serviceTick)
          /\ serviceState' \in Active => serviceState \in Active
      BY <1>0, <1>9, QuietEffect
    <2>2. Since(now', read') = Since(now, read)
      BY <2>1
    <2>3. stale' /\ serviceState' \in Active => now' < read'
      BY <1>0, <2>1 DEF WrapInv, Active
    <2>4. CASE turn = "poll" /\ turn' = "report" /\ serviceTick' = read
      <3>1. Since(now', read') <= Jitter + Most /\ Since(now', read') <= Jitter + 2 * Most
        BY <1>0, <1>1, <2>2, <2>4 DEF WrapInv, Most
      <3>2. QED
        BY <1>0, <2>1, <2>3, <2>4, <3>1 DEF WrapInv
    <2>5. CASE turn # "poll" /\ UNCHANGED <<turn, serviceTick>> /\ serviceState' \in {"Stopped", "Fault"}
      BY <1>0, <2>1, <2>2, <2>5 DEF WrapInv, Active
    <2>6. QED
      BY <2>1, <2>4, <2>5
  <1>10. QED
    BY <1>2, <1>3, <1>4, <1>5, <1>6, <1>7, <1>8, <1>9, NextIs

-----------------------------------------------------------------------------
(* Time that passes, for a start the clock has seen. *)
LEMMA RestsPass ==
  ASSUME RadioTypeOK, NEW k \in 0..Wrap - 1, NEW n \in Nat, k <= n, NEW start \in 0..Wrap - 1
  PROVE  /\ slept = Recovery \/ Since(now, start) <= slept
            => \/ AtMost(slept + n, Recovery) = Recovery
               \/ Since(Later(k), start) <= AtMost(slept + n, Recovery)
         /\ spaced = JoinRetry \/ Since(now, start) <= spaced
            => \/ AtMost(spaced + n, JoinRetry) = JoinRetry
               \/ Since(Later(k), start) <= AtMost(spaced + n, JoinRetry)
PROOF
  <1> USE RadioAssumption
  <1>1. slept \in 0..Recovery /\ spaced \in 0..JoinRetry /\ now \in 0..Wrap - 1
    BY DEF RadioTypeOK
  <1>2. /\ Since(now, start) \in Int /\ Since(Later(k), start) \in Int
        /\ Since(Later(k), start) <= Since(now, start) + k
    BY <1>1, LaterIs, SinceIs, SincePasses
  <1>3. QED
    BY <1>1, <1>2 DEF AtMost

(* The time since a join that failed, over a step of the clock. *)
LEMMA SpacingPasses ==
  ASSUME RadioTypeOK, RestInv, NEW n \in 0..Wrap - 1, now' = Later(n), Spaces(n), UNCHANGED lastJoin
  PROVE  /\ spaced' = JoinRetry \/ Since(now', lastJoin') <= spaced'
         /\ spaced = JoinRetry => spaced' = JoinRetry
PROOF
  <1>1. n \in Nat /\ n <= n /\ lastJoin \in 0..Wrap - 1
    BY RadioAssumption DEF RadioTypeOK
  <1>2. spaced' = AtMost(spaced + n, JoinRetry)
    BY DEF Spaces
  <1>3. Since(now', lastJoin') = Since(Later(n), lastJoin)
    OBVIOUS
  <1>4. spaced = JoinRetry \/ Since(now, lastJoin) <= spaced
    BY DEF RestInv
  <1>5. spaced' = JoinRetry \/ Since(now', lastJoin') <= spaced'
    BY <1>1, <1>2, <1>3, <1>4, RestsPass
  <1>6. spaced = JoinRetry => spaced' = JoinRetry
    BY <1>1, <1>2, AgesPass
  <1>7. QED
    BY <1>5, <1>6

(* What the guards of a recovery and of a join mean for the time that passed. *)
LEMMA GuardsAreWhole ==
  ASSUME RadioTypeOK, RestInv
  PROVE  /\ Recover => slept = Recovery /\ spaced = JoinRetry
         /\ turn = "poll" /\ serviceState = "Joining" /\ JoinDue => spaced = JoinRetry \/ rushed
PROOF
  <1> USE RadioAssumption
  <1>1. slept \in 0..Recovery /\ spaced \in 0..JoinRetry
    BY DEF RadioTypeOK
  <1>2. ASSUME Recover PROVE slept = Recovery /\ spaced = JoinRetry
    <2>1. turn = "poll" /\ serviceState = "Cooldown" /\ Since(read, phaseStarted) >= Recovery
      BY <1>2 DEF Recover, Polled, Polls, Rested
    <2>2. Since(read, phaseStarted) \in Int
      BY SinceIs DEF RadioTypeOK
    <2>3. slept = Recovery
      BY <1>1, <2>1, <2>2 DEF RestInv
    <2>4. QED
      BY <1>1, <2>1, <2>3 DEF RestInv
  <1>3. ASSUME turn = "poll", serviceState = "Joining", JoinDue PROVE spaced = JoinRetry \/ rushed
    <2>1. CASE ~joinedAttempted
      BY <1>3, <2>1 DEF RestInv
    <2>2. CASE Since(read, lastJoin) >= JoinRetry
      <3>1. Since(read, lastJoin) \in Int
        BY SinceIs DEF RadioTypeOK
      <3>2. QED
        BY <1>1, <1>3, <2>2, <3>1 DEF RestInv
    <2>3. QED
      BY <1>3, <2>1, <2>2 DEF JoinDue
  <1>4. QED
    BY <1>2, <1>3

LEMMA RestsAreKept ==
  ASSUME IInv, [Next]_vars
  PROVE  RestInv'
PROOF
  <1> USE RadioAssumption
  <1>0. RadioTypeOK /\ WrapInv /\ RestInv /\ RadioTypeOK'
    BY Type DEF IInv
  <1>1. spaced' \in Nat /\ now' \in 0..Wrap - 1
    BY <1>0 DEF RadioTypeOK
  <1>2. CASE UNCHANGED vars
    BY <1>0, <1>2 DEF vars, RestInv, Since
  <1>3. CASE Pause
    <2>1. PICK k \in 1..MaxPause, e \in 0..Jitter :
            /\ read' = Later(k) /\ now' = Later(k + e) /\ Sleeps(k + e) /\ Spaces(k + e)
            /\ rushed' = (rushed /\ spaced' < JoinRetry)
            /\ UNCHANGED <<serviceState, phaseStarted, lastJoin, joinedAttempted, activated>>
      BY <1>0, <1>3, PauseEffect
    <2>2. k \in 0..Wrap - 1 /\ k + e \in 0..Wrap - 1 /\ k + e \in Nat /\ k <= k + e /\ k + e <= k + e
      BY StepsFit
    <2>3. phaseStarted \in 0..Wrap - 1 /\ lastJoin \in 0..Wrap - 1 /\ spaced' \in 0..JoinRetry
      BY <1>0 DEF RadioTypeOK
    <2>4. /\ Since(now', phaseStarted') = Since(Later(k + e), phaseStarted)
          /\ Since(read', phaseStarted') = Since(Later(k), phaseStarted)
          /\ Since(now', lastJoin') = Since(Later(k + e), lastJoin)
          /\ Since(read', lastJoin') = Since(Later(k), lastJoin)
      BY <2>1
    <2>5. /\ spaced' = AtMost(spaced + (k + e), JoinRetry)
          /\ serviceState = "Cooldown" => slept' = AtMost(slept + (k + e), Recovery)
      BY <2>1 DEF Sleeps, Spaces
    <2>6. /\ spaced' = JoinRetry \/ Since(now', lastJoin') <= spaced'
          /\ spaced' = JoinRetry \/ Since(read', lastJoin') <= spaced'
      BY <1>0, <2>2, <2>3, <2>4, <2>5, RestsPass DEF RestInv
    <2>7. ASSUME serviceState = "Cooldown"
          PROVE  /\ slept' = Recovery \/ Since(now', phaseStarted') <= slept'
                 /\ slept' = Recovery \/ Since(read', phaseStarted') <= slept'
      <3>1. slept = Recovery \/ Since(now, phaseStarted) <= slept
        BY <1>0, <2>7 DEF RestInv
      <3>2. slept' = AtMost(slept + (k + e), Recovery)
        BY <2>5, <2>7
      <3>3. slept' = Recovery \/ Since(Later(k + e), phaseStarted) <= slept'
        BY <1>0, <2>2, <2>3, <3>1, <3>2, RestsPass
      <3>4. slept' = Recovery \/ Since(Later(k), phaseStarted) <= slept'
        BY <1>0, <2>2, <2>3, <3>1, <3>2, RestsPass
      <3>5. QED
        BY <2>4, <3>3, <3>4
    <2>8. /\ spaced = JoinRetry => spaced' = JoinRetry
          /\ serviceState = "Cooldown" => slept' <= spaced' \/ spaced' = JoinRetry
      BY <1>0, <2>2, <2>5, AgesPass DEF RestInv
    <2>9. spaced = JoinRetry \/ rushed => spaced' = JoinRetry \/ rushed'
      <3>1. spaced' = JoinRetry \/ spaced' < JoinRetry
        BY <2>3
      <3>2. QED
        BY <2>1, <2>8, <3>1
    <2>10. QED
      BY <1>0, <2>1, <2>6, <2>7, <2>8, <2>9 DEF RestInv
  <1>4. CASE Interrupt
    <2>1. PICK n \in 0..Jitter :
            /\ now' = Later(n) /\ Spaces(n) /\ Polls
            /\ UNCHANGED lastJoin
            /\ \/ serviceState' \in {"Rollover", "Fault"}
               \/ serviceState' = "Cooldown" /\ phaseStarted' = now' /\ slept' = 0
               \/ serviceState' = "Joining" /\ joinedAttempted' = FALSE /\ rushed' = TRUE
      BY <1>0, <1>4, InterruptEffect
    <2>2. Since(now', now') = 0 /\ turn' = "report"
      BY <1>1, <2>1, SinceNow DEF Polls
    <2>3. spaced' = JoinRetry \/ Since(now', lastJoin') <= spaced'
      BY <1>0, <2>1, StepsFit, SpacingPasses
    <2>4. QED
      BY <1>1, <2>1, <2>2, <2>3 DEF RestInv
  <1>5. CASE JoinAccepted
    <2>1. PICK n \in 0..Most :
            /\ serviceState = "Joining" /\ JoinDue /\ Polls /\ serviceState' = "Ready" /\ lastJoin' = now'
            /\ Spaces(n) /\ UNCHANGED rushed
      BY <1>0, <1>5, JoinAcceptedEffect
    <2>2. turn = "poll" /\ turn' = "report"
      BY <2>1 DEF Polls
    <2>3. spaced = JoinRetry \/ rushed
      BY <1>0, <2>1, <2>2, GuardsAreWhole
    <2>4. n \in Nat
      BY StepsFit
    <2>5. spaced' = JoinRetry \/ rushed'
      BY <1>0, <2>1, <2>3, <2>4, AgesPass DEF Spaces
    <2>6. Since(now', lastJoin') = 0
      BY <1>1, <2>1, SinceNow
    <2>7. QED
      BY <1>1, <2>1, <2>2, <2>5, <2>6 DEF RestInv
  <1>6. CASE JoinFailed
    <2>1. PICK n \in 0..Most :
            /\ Polls /\ ~activated /\ joinedAttempted' = TRUE /\ lastJoin' = now'
            /\ \/ serviceState' \in {"Fault", "Rollover"}
               \/ /\ serviceState' = "Cooldown"
                  /\ slept' = Recovery \/ Since(now', phaseStarted') <= slept'
                  /\ slept' <= spaced' \/ spaced' = JoinRetry
               \/ serviceState' = "Joining" /\ UNCHANGED activated
      BY <1>0, <1>6, JoinFailedEffect
    <2>2. Since(now', lastJoin') = 0 /\ turn' = "report"
      BY <1>1, <2>1, SinceNow DEF Polls
    <2>3. spaced' = JoinRetry \/ Since(now', lastJoin') <= spaced'
      BY <1>1, <2>2
    <2>4. QED
      BY <2>1, <2>2, <2>3 DEF RestInv
  <1>7. CASE Transmit
    <2>1. PICK n \in 0..Most :
            /\ turn' = "asleep" /\ serviceState = "Ready" /\ Called(n)
            /\ Spaces(n) /\ UNCHANGED <<lastJoin, rushed>>
            /\ \/ serviceState' \in {"Ready", "Fault"}
               \/ serviceState' = "Joining" /\ joinedAttempted' = FALSE
               \/ serviceState' = "Cooldown" /\ phaseStarted' = now' /\ slept' = 0
      BY <1>0, <1>7, TransmitEffect
    <2>2. spaced = JoinRetry \/ rushed
      BY <1>0, <2>1 DEF RestInv
    <2>3. now' = Later(n)
      BY <2>1 DEF Called
    <2>4. /\ spaced' = JoinRetry \/ Since(now', lastJoin') <= spaced'
          /\ spaced = JoinRetry => spaced' = JoinRetry
      BY <1>0, <2>1, <2>3, StepsFit, SpacingPasses
    <2>5. serviceState' = "Cooldown" => Since(now', phaseStarted') = 0
      BY <1>1, <2>1, SinceNow
    <2>6. QED
      BY <1>1, <2>1, <2>2, <2>4, <2>5 DEF RestInv
  <1>8. CASE Defer
    <2>1. PICK d \in 0..Jitter :
            /\ turn' = "asleep" /\ now' = Later(d) /\ Spaces(d) /\ UNCHANGED lastJoin
            /\ \/ serviceState' = "Rollover"
               \/ serviceState' = "Cooldown" /\ phaseStarted' = now' /\ slept' = 0
      BY <1>0, <1>8, DeferEffect
    <2>2. spaced' = JoinRetry \/ Since(now', lastJoin') <= spaced'
      BY <1>0, <2>1, StepsFit, SpacingPasses
    <2>3. Since(now', now') = 0
      BY <1>1, SinceNow
    <2>4. QED
      BY <1>1, <2>1, <2>2, <2>3 DEF RestInv
  <1>9. CASE Build
    <2>1. PICK d \in 0..Jitter :
            /\ Polls /\ now' = Later(d) /\ phaseStarted' = now' /\ Spaces(d) /\ UNCHANGED lastJoin
            /\ \/ /\ serviceState = "Initializing" /\ UNCHANGED rushed
                  /\ \/ serviceState' \in {"Initializing", "Fault"}
                     \/ serviceState' = "Joining" /\ joinedAttempted' = FALSE
               \/ /\ Recover /\ slept' = 0
                  /\ \/ serviceState' \in {"Cooldown", "Fault"}
                     \/ serviceState' = "Joining" /\ joinedAttempted' = FALSE
      BY <1>0, <1>9, BuildEffect
    <2>2. turn' = "report" /\ Since(now', phaseStarted') = 0
      BY <1>1, <2>1, SinceNow DEF Polls
    <2>3. /\ spaced' = JoinRetry \/ Since(now', lastJoin') <= spaced'
          /\ spaced = JoinRetry => spaced' = JoinRetry
      BY <1>0, <2>1, StepsFit, SpacingPasses
    <2>4. CASE serviceState = "Initializing" /\ UNCHANGED rushed
      <3>1. spaced = JoinRetry \/ rushed
        BY <1>0, <2>4 DEF RestInv
      <3>2. serviceState' # "Cooldown"
        BY <2>1, <2>4 DEF Recover, Polled
      <3>3. serviceState' = "Joining" => joinedAttempted' = FALSE
        BY <2>1
      <3>4. QED
        BY <2>2, <2>3, <2>4, <3>1, <3>2, <3>3 DEF RestInv
    <2>5. CASE Recover /\ slept' = 0
      <3>1. spaced' = JoinRetry
        BY <1>0, <2>3, <2>5, GuardsAreWhole
      <3>2. serviceState' = "Joining" => joinedAttempted' = FALSE
        BY <2>1
      <3>3. QED
        BY <1>1, <2>2, <2>5, <3>1, <3>2 DEF RestInv
    <2>6. QED
      BY <2>1, <2>4, <2>5
  <1>10. CASE Quiet
    <2>1. UNCHANGED <<now, lastJoin, spaced, rushed>> /\ turn' # "poll"
      BY <1>0, <1>10, QuietEffect
    <2>2. Since(now', lastJoin') = Since(now, lastJoin)
      BY <2>1
    <2>3. spaced' = JoinRetry \/ Since(now', lastJoin') <= spaced'
      BY <1>0, <2>1, <2>2 DEF RestInv
    <2>4. \/ Cooldown(now)
          \/ serviceState' = "Cooldown" /\ UNCHANGED <<serviceState, slept, phaseStarted>>
          \/ serviceState' \in {"Rollover", "Stopped", "Fault"}
          \/ serviceState = "Initializing" /\ serviceState' = "Initializing"
          \/ serviceState = "Joining" /\ activated /\ serviceState' = "Ready"
          \/ serviceState = "Ready" /\ serviceState' = "Joining" /\ joinedAttempted' = FALSE
          \/ /\ serviceState \in {"Joining", "Ready"}
             /\ UNCHANGED <<serviceState, joinedAttempted, activated>>
      <3>1. CASE Resume \/ CheckSession \/ AwaitWrap \/ Rest
        BY <1>0, <3>1 DEF Resume, CheckSession, AwaitWrap, Rest, Polled
      <3>2. CASE NotYet
        BY <1>0, <3>2 DEF NotYet, Polled
      <3>3. CASE Idle \/ Stop
        BY <3>3 DEF Idle, Stop, vars
      <3>4. QED
        BY <1>10, <3>1, <3>2, <3>3 DEF Quiet
    <2>5. CASE Cooldown(now)
      <3>1. now \in 0..Wrap - 1 /\ now' = now
        BY <1>0, <2>1 DEF RadioTypeOK
      <3>2. serviceState' = "Cooldown" /\ phaseStarted' = now' /\ slept' = 0
        BY <1>1, <2>5, <3>1, CooldownEffect
      <3>3. Since(now', phaseStarted') = 0
        BY <1>1, <3>2, SinceNow
      <3>4. QED
        BY <1>1, <2>1, <2>3, <3>2, <3>3 DEF RestInv
    <2>6. CASE serviceState' = "Cooldown" /\ UNCHANGED <<serviceState, slept, phaseStarted>>
      <3>1. Since(now', phaseStarted') = Since(now, phaseStarted)
        BY <2>1, <2>6
      <3>2. QED
        BY <1>0, <2>1, <2>3, <2>6, <3>1 DEF RestInv
    <2>7. CASE serviceState' # "Cooldown" /\ ~Cooldown(now)
      BY <1>0, <2>1, <2>3, <2>4, <2>7 DEF RestInv
    <2>8. QED
      BY <2>4, <2>5, <2>6, <2>7
  <1>11. QED
    BY <1>2, <1>3, <1>4, <1>5, <1>6, <1>7, <1>8, <1>9, <1>10, NextIs

-----------------------------------------------------------------------------
Streaks == {"Hardware", "Other"}

(* Another outcome of the kind that is remembered, or a run of one. *)
LEMMA RememberKeeps ==
  ASSUME StreakInv, NEW outcome \in Outcomes
  PROVE  /\ Remember(outcome) \in Seq(Streaks) /\ Len(Remember(outcome)) <= Streak
         /\ Len(Remember(outcome)) >= 1
         /\ \A i \in 1..Len(Remember(outcome)) : Remember(outcome)[i] = Remember(outcome)[1]
         /\ outcome = "Hardware" => /\ Remember(outcome)[1] = "Hardware"
                                    /\ txFailures > 0 => \/ Len(Remember(outcome)) = Streak
                                                         \/ Len(Remember(outcome)) = Len(recent) + 1
PROOF
  <1> USE RadioAssumption
  <1> DEFINE kind == IF outcome = "Hardware" THEN outcome ELSE "Other"
             run  == IF recent # <<>> /\ Head(recent) = kind THEN recent ELSE <<>>
             base == IF Len(run) < Streak THEN run ELSE Tail(run)
  <1>1. kind \in Streaks
    BY DEF Streaks
  <1>2. /\ recent \in Seq(Streaks) /\ Len(recent) \in Nat /\ Len(recent) <= Streak
        /\ \A i \in 1..Len(recent) : recent[i] = recent[1]
    BY LenProperties DEF StreakInv, Streaks
  <1>3. /\ run \in Seq(Streaks) /\ Len(run) \in Nat /\ Len(run) <= Streak
        /\ \A i \in 1..Len(run) : run[i] = kind
    BY <1>1, <1>2, EmptySeq
  <1>4. /\ base \in Seq(Streaks) /\ Len(base) \in Nat /\ Len(base) < Streak
        /\ \A i \in 1..Len(base) : base[i] = kind
        /\ Len(base) = Streak - 1 \/ base = run
    <2>1. CASE Len(run) < Streak
      BY <1>3, <2>1
    <2>2. CASE ~(Len(run) < Streak)
      <3>1. Len(run) = Streak /\ run # <<>> /\ base = Tail(run)
        BY <1>3, <2>2, EmptySeq
      <3>2. /\ Tail(run) \in Seq(Streaks) /\ Len(Tail(run)) = Len(run) - 1
            /\ \A i \in 1..Len(Tail(run)) : Tail(run)[i] = run[i + 1]
        BY <1>3, <3>1, HeadTailProperties
      <3>3. QED
        BY <1>3, <3>1, <3>2
    <2>3. QED
      BY <2>1, <2>2
  <1>5. Remember(outcome) = IF kind = "Other" THEN <<kind>> ELSE Append(base, kind)
    BY DEF Remember
  <1> HIDE DEF base, run, kind
  <1>6. CASE kind = "Other"
    <2>1. Remember(outcome) = <<kind>> /\ <<kind>> \in Seq(Streaks) /\ Len(<<kind>>) = 1 /\ outcome # "Hardware"
      BY <1>1, <1>5, <1>6 DEF kind
    <2>2. QED
      BY <2>1
  <1>7. CASE kind # "Other"
    <2>1. /\ Append(base, kind) \in Seq(Streaks) /\ Len(Append(base, kind)) = Len(base) + 1
          /\ \A i \in 1..Len(base) : Append(base, kind)[i] = base[i]
          /\ Append(base, kind)[Len(base) + 1] = kind
      BY <1>1, <1>4, AppendProperties
    <2>2. \A i \in 1..Len(base) + 1 : Append(base, kind)[i] = kind
      BY <1>4, <2>1
    <2>3. Append(base, kind)[1] = kind
      BY <1>4, <2>2
    <2>4. outcome = "Hardware" => kind = "Hardware"
      BY DEF kind
    <2>5. outcome = "Hardware" /\ txFailures > 0 => run = recent
      BY <2>4 DEF StreakInv, run
    <2>6. QED
      BY <1>4, <1>5, <1>7, <2>1, <2>2, <2>3, <2>4, <2>5
  <1>8. QED
    BY <1>6, <1>7

LEMMA StreaksAreKept ==
  ASSUME IInv, [Next]_vars
  PROVE  StreakInv'
PROOF
  <1> USE RadioAssumption
  <1>0. RadioTypeOK /\ WrapInv /\ StreakInv
    BY DEF IInv
  <1>1. CASE UNCHANGED recent /\ txFailures' \in {0, txFailures}
    <2>1. CASE txFailures' = 0
      BY <1>0, <1>1, <2>1 DEF StreakInv
    <2>2. CASE UNCHANGED txFailures
      BY <1>0, <1>1, <2>2 DEF StreakInv
    <2>3. QED
      BY <1>1, <2>1, <2>2
  <1>2. CASE UNCHANGED vars
    BY <1>1, <1>2 DEF vars
  <1>3. CASE Pause \/ Interrupt
    BY <1>0, <1>1, <1>3, PauseEffect, InterruptEffect
  <1>4. CASE JoinFailed \/ Defer \/ Build \/ Quiet
    BY <1>0, <1>1, <1>4, JoinFailedEffect, DeferEffect, BuildEffect, QuietEffect
  <1>5. CASE JoinAccepted
    <2>1. txFailures' = 0 /\ recent' = <<>>
      BY <1>5 DEF JoinAccepted
    <2>2. QED
      BY <2>1, EmptySeq DEF StreakInv
  <1>6. CASE Transmit
    <2>1. PICK outcome \in Outcomes : Settle(outcome)
      BY <1>6 DEF Transmit, Outcomes
    <2>2. recent' = Remember(outcome)
      BY <2>1 DEF Settle
    <2>3. /\ recent' \in Seq(Streaks) /\ Len(recent') <= Streak /\ Len(recent') >= 1
          /\ \A i \in 1..Len(recent') : recent'[i] = recent'[1]
          /\ outcome = "Hardware" => /\ recent'[1] = "Hardware"
                                     /\ txFailures > 0 => \/ Len(recent') = Streak
                                                          \/ Len(recent') = Len(recent) + 1
      BY <1>0, <2>2, RememberKeeps
    <2>4. txFailures' = 0 \/ (outcome = "Hardware" /\ txFailures' = txFailures + 1 /\ ~(txFailures + 1 >= Streak))
      <3>1. CASE outcome = "Hardware"
        <4>1. \/ Cooldown(now')
              \/ txFailures' = txFailures + 1 /\ ~Enough(txFailures + 1)
          BY <2>1, <3>1 DEF Settle, TxStreak, UnavailableStreak
        <4>2. QED
          BY <3>1, <4>1 DEF Cooldown, Enough
      <3>2. CASE outcome = "Unavailable"
        <4>1. Cooldown(now') \/ txFailures' = TxStreak(outcome) + 0
          BY <2>1, <3>2 DEF Settle
        <4>2. TxStreak(outcome) + 0 = 0
          BY <3>2 DEF TxStreak
        <4>3. QED
          BY <4>1, <4>2 DEF Cooldown
      <3>3. CASE outcome \notin {"Hardware", "Unavailable"}
        BY <2>1, <3>3 DEF Settle, TxStreak
      <3>4. QED
        BY <3>1, <3>2, <3>3
    <2>5. CASE txFailures' = 0
      BY <2>3, <2>5 DEF StreakInv, Streaks
    <2>6. CASE outcome = "Hardware" /\ txFailures' = txFailures + 1 /\ ~(txFailures + 1 >= Streak)
      <3>1. txFailures \in 0..Streak - 1 /\ Len(recent) \in Nat /\ Len(recent') \in Nat
        BY <1>0, <2>3, LenProperties DEF StreakInv
      <3>2. txFailures' \in 0..Streak - 1
        BY <2>6, <3>1
      <3>3. Len(recent') >= txFailures + 1
        <4>1. CASE txFailures = 0
          BY <2>3, <3>1, <4>1
        <4>2. CASE txFailures > 0
          BY <1>0, <2>3, <2>6, <3>1, <4>2 DEF StreakInv
        <4>3. QED
          BY <3>1, <4>1, <4>2
      <3>4. QED
        BY <2>3, <2>6, <3>2, <3>3 DEF StreakInv, Streaks
    <2>7. QED
      BY <2>4, <2>5, <2>6
  <1>7. QED
    BY <1>2, <1>3, <1>4, <1>5, <1>6, NextIs

LEMMA NextIInv == IInv /\ [Next]_vars => IInv'
  BY Type, WrapsAreSeen, RestsAreKept, StreaksAreKept DEF IInv

-----------------------------------------------------------------------------
(* What lwServicePoll and lwTransmit keep true of the clock, the rests and    *)
(* the counters, at every step.                                              *)
THEOREM RadioInvariant == Spec => []IInv
  BY InitIInv, NextIInv, PTL DEF Spec

(* No library call of lwServicePoll or lwTransmit is in progress when         *)
(* millis() wraps, and a node from before a wrap is used only in the turn of   *)
(* the main loop whose poll made its first reading before that wrap: for       *)
(* every width of the counter, wherever in it the radio is, however it got     *)
(* there, and whatever ticks fall between any two readings of millis().        *)
THEOREM TimestampsSafe == Spec => []TimestampsAreSafe
PROOF
  <1>1. IInv => TimestampsAreSafe
    BY DEF IInv, WrapInv, TimestampsAreSafe
  <1>2. QED
    BY <1>1, RadioInvariant, PTL

(* The errors that lwTransmit counts towards a cooldown are the last outcomes *)
(* of this session, in a row.                                                *)
THEOREM HardwareStreakReal == Spec => []HardwareStreakIsReal
PROOF
  <1>1. IInv => HardwareStreakIsReal
    <2> SUFFICES ASSUME IInv, txFailures > 0
                 PROVE  /\ Len(recent) >= txFailures
                        /\ \A i \in Len(recent) - txFailures + 1 .. Len(recent) : recent[i] = "Hardware"
      BY DEF HardwareStreakIsReal
    <2>1. /\ Len(recent) \in Nat /\ txFailures \in Nat /\ Len(recent) >= txFailures
          /\ recent[1] = "Hardware" /\ \A i \in 1..Len(recent) : recent[i] = recent[1]
      BY LenProperties, RadioAssumption DEF IInv, StreakInv
    <2>2. QED
      BY <2>1
  <1>2. QED
    BY <1>1, RadioInvariant, PTL

(* lwServicePoll neither builds a new node nor joins before its rest is over,  *)
(* wherever the counter wraps, but for a node it has rebuilt without one.     *)
THEOREM RestsWhole == Spec => RestsAreWhole
PROOF
  <1>1. IInv /\ [Next]_vars => [RestedSteps]_vars
    <2> SUFFICES ASSUME IInv
                 PROVE  RestedSteps
      OBVIOUS
    <2>1. Recover => slept = Recovery
      BY GuardsAreWhole DEF IInv
    <2>2. JoinAccepted \/ JoinFailed => spaced = JoinRetry \/ rushed
      BY GuardsAreWhole DEF IInv, JoinAccepted, JoinFailed, Polled, Polls
    <2>3. QED
      BY <2>1, <2>2, RadioAssumption DEF RestedSteps
  <1>2. QED
    BY <1>1, RadioInvariant, PTL DEF Spec, RestsAreWhole
==============================================================================
