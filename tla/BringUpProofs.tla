--------------------------- MODULE BringUpProofs ----------------------------
(***************************************************************************)
(* Two promises of bring-up.  The two uses of DIO1, for every bound on          *)
(* initializations and whatever the clock check does before it:               *)
(* PinServesBothUses speaks of a transmission and of an open window; that it  *)
(* holds there rests on how each earlier step left the pin, which PinInv says *)
(* for every step of RadioLib.  And the clock check, for every rate, tolerance *)
(* and preemption and however the counters wrap: VerifiedIsAccurate speaks of *)
(* its end; ClockInv says what the counters show of a window all along it.    *)
(***************************************************************************)
EXTENDS BringUp, TLAPS

Windows == {"enable", "window", "unmask"}          \* attached, and New the edge
Quiet   == {"ready", "transmit", "check", "mask"}  \* polled
Early   == {"off", "init", "pinmode", "begun"}

PinTypeOK ==
  /\ rpc \in Early \cup Quiet \cup Windows \cup {"attach", "detach", "restore", "fault"}
  /\ irq \in BOOLEAN /\ handler \in BOOLEAN /\ healthy \in BOOLEAN /\ failed \in BOOLEAN
  /\ edge \in {"None", "Old", "New"} /\ pad \in {"Input", "Rising", "NoDirection"}
  /\ stale = FALSE

(* status_ remembers every failure since init; the first call of the radio    *)
(* finds nothing reported; and what is reported as success was one.           *)
StatusInv == /\ healthy <=> ~failed
             /\ state = "Starting" => rpc = "off"
             /\ rpc = "off" => reported = "None"
             /\ reported = "Ok" => rpc # "init" /\ (rpc = "ready" => healthy)

(* The callback is attached during a window and in no other step, and until   *)
(* the first window nothing enables the interrupt.                            *)
CallbackInv == /\ handler <=> (rpc \in Windows \cup {"detach"})
               /\ rpc \in Early => ~irq

(* The pin as each step leaves it while no call has failed.                   *)
PinInv == healthy =>
  /\ rpc \in Quiet \cup {"begun"} => pad = "Input" /\ ~irq
  /\ rpc \in {"attach", "detach", "restore"} => ~irq
  /\ rpc \in Windows \cup {"attach"} => edge # "Old"
  /\ rpc \in Windows => pad = "Rising"
  /\ rpc \in {"window", "unmask"} => irq

IInv == PinTypeOK /\ StatusInv /\ CallbackInv /\ PinInv

-----------------------------------------------------------------------------
THEOREM InitIInv == Init => IInv
  BY DEF Init, PinInit, IInv, PinTypeOK, StatusInv, CallbackInv, PinInv, Early, Quiet, Windows

(* What the direct GPIO calls do to the pin, as long as none of them fails.   *)
Typed == /\ irq' \in BOOLEAN /\ edge' \in {"None", "Old", "New"} /\ pad' \in {"Input", "Rising", "NoDirection"}
         /\ healthy' \in BOOLEAN /\ failed' \in BOOLEAN /\ (healthy' <=> ~failed')
Masked  == Typed /\ pad' = pad /\ (~irq => ~irq') /\ (healthy' => healthy /\ ~irq' /\ edge' = "None")
Polling == Typed /\ (~irq => ~irq') /\ (healthy' => healthy /\ ~irq' /\ pad' = "Input")
Enabled == Typed /\ pad' = pad /\ (healthy' => healthy /\ irq' /\ edge' = "None")

LEMMA MaskEffect ==
  ASSUME PinTypeOK, StatusInv, maskDio1Interrupt
  PROVE  Masked
  BY DEF PinTypeOK, StatusInv, maskDio1Interrupt, Disable, Clear, recordStatus, Masked, Typed

LEMMA RestoreEffect ==
  ASSUME PinTypeOK, StatusInv, restoreDio1Polling
  PROVE  Polling
  BY DEF PinTypeOK, StatusInv, restoreDio1Polling, Disable, Clear, recordStatus, Polling, Typed

LEMMA EnableEffect ==
  ASSUME PinTypeOK, StatusInv, enableDio1Interrupt
  PROVE  Enabled
  BY DEF PinTypeOK, StatusInv, enableDio1Interrupt, Clear, recordStatus, Enabled, Typed

-----------------------------------------------------------------------------
LEMMA PinStepIInv ==
  ASSUME IInv, PinNext, UNCHANGED <<clock, state>>
  PROVE  IInv'
PROOF
  <1> USE DEF IInv, Windows, Quiet, Early
  <1>1. CASE Initialize
    BY <1>1 DEF Initialize, Goes, PinTypeOK, StatusInv, CallbackInv, PinInv
  <1>2. CASE PinMode
    <2>1. Polling
      BY <1>2, RestoreEffect DEF PinMode
    <2>2. QED
      BY <1>2, <2>1 DEF PinMode, Goes, Polling, Typed, PinTypeOK, StatusInv, CallbackInv, PinInv
  <1>3. CASE Begun
    BY <1>3 DEF Begun, PinTypeOK, StatusInv, CallbackInv, PinInv
  <1>4. CASE Transact
    BY <1>4 DEF Transact, PinTypeOK, StatusInv, CallbackInv, PinInv
  <1>5. CASE Transmitted
    BY <1>5 DEF Transmitted, PinTypeOK, StatusInv, CallbackInv, PinInv
  <1>6. CASE Mask
    <2>1. Masked
      BY <1>6, MaskEffect DEF Mask
    <2>2. QED
      BY <1>6, <2>1 DEF Mask, Goes, Masked, Typed, PinTypeOK, StatusInv, CallbackInv, PinInv
  <1>7. CASE ArduinoAttach
    BY <1>7 DEF ArduinoAttach, Goes, PinTypeOK, StatusInv, CallbackInv, PinInv
  <1>8. CASE EnableInterrupt
    <2>1. Enabled
      BY <1>8, EnableEffect DEF EnableInterrupt
    <2>2. QED
      BY <1>8, <2>1 DEF EnableInterrupt, Goes, Enabled, Typed, PinTypeOK, StatusInv, CallbackInv, PinInv
  <1>9. CASE Close
    BY <1>9 DEF Close, Goes, PinTypeOK, StatusInv, CallbackInv, PinInv
  <1>10. CASE ArduinoDetach
    BY <1>10 DEF ArduinoDetach, Goes, PinTypeOK, StatusInv, CallbackInv, PinInv
  <1>11. CASE Restore
    <2>1. Polling
      BY <1>11, RestoreEffect DEF Restore
    <2>2. QED
      BY <1>11, <2>1 DEF Restore, Goes, Polling, Typed, PinTypeOK, StatusInv, CallbackInv, PinInv
  <1>12. CASE Check
    BY <1>12 DEF Check, lwRadioHalHealthy, PinTypeOK, StatusInv, CallbackInv, PinInv
  <1>13. CASE Edge
    BY <1>13 DEF Edge, PinTypeOK, StatusInv, CallbackInv, PinInv
  <1>14. CASE Interrupt
    BY <1>14 DEF Interrupt, PinTypeOK, StatusInv, CallbackInv, PinInv
  <1>15. QED
    BY <1>1, <1>2, <1>3, <1>4, <1>5, <1>6, <1>7, <1>8, <1>9, <1>10, <1>11, <1>12, <1>13, <1>14
       DEF PinNext, PinStep

THEOREM NextIInv == IInv /\ [Next]_vars => IInv'
PROOF
  <1> SUFFICES ASSUME IInv, [Next]_vars PROVE IInv'
    OBVIOUS
  <1> USE DEF IInv, PinTypeOK, StatusInv, CallbackInv, PinInv
  <1>1. CASE ClockNext /\ UNCHANGED <<pin, state>>
    BY <1>1 DEF pin
  <1>2. CASE ManagerFault
    BY <1>2 DEF ManagerFault, pin
  <1>3. CASE LwServiceStart
    BY <1>3 DEF LwServiceStart, Early, Quiet, Windows
  <1>4. CASE PinNext /\ UNCHANGED <<clock, state>>
    BY <1>4, PinStepIInv
  <1>5. CASE Faulted
    BY <1>5 DEF Faulted, vars, pin
  <1>6. CASE UNCHANGED vars
    BY <1>6 DEF vars, pin
  <1>7. QED
    BY <1>1, <1>2, <1>3, <1>4, <1>5, <1>6 DEF Next

THEOREM IInvImplies == IInv => PinServesBothUses
  BY DEF IInv, PinTypeOK, StatusInv, CallbackInv, PinInv, PinServesBothUses, Windows, Quiet, Early

(* The pin serves transmissions and receive windows alike, and no failure of   *)
(* its calls is reported as success, for every number of initializations.     *)
THEOREM PinAlwaysServes == FairSpec => []PinServesBothUses
  <1>1. Init /\ [][Next]_vars => []PinServesBothUses
    BY InitIInv, NextIInv, IInvImplies, PTL
  <1>2. QED
    BY <1>1, PTL DEF FairSpec

-----------------------------------------------------------------------------
(* The clock check.  The longest preemption.                                 *)
Longest == CHOOSE k \in Pauses \cup {0} :
             /\ \A p \in Pauses : p <= k
             /\ Sub + Polls + MaxPauses * (k + 1) <= Sub * (RtcWrap + Window)

ClockTypeOK ==
  /\ cpc \in {"begin", "config", "start", "poll", "end", "recheck", "done"}
  /\ rate \in Rates /\ registers \in BOOLEAN /\ rtcSpeed \in {0, 1, 2}
  /\ rtc \in 0..RtcWrap - 1 /\ phase \in 0..Sub - 1 /\ stimer \in 0..StimerWrap - 1
  /\ start \in [rtc : 0..RtcWrap - 1, stimer : 0..StimerWrap - 1]
  /\ reads \in Nat /\ polls \in 0..Polls /\ waited \in Nat /\ attempt \in 1..Attempts
  /\ verified \in BOOLEAN /\ (verified => cpc = "done")
  /\ disturbed \subseteq 1..Attempts /\ pauses \in 0..MaxPauses

(* What the counters show of a window: H hundredths and D ticks since its first *)
(* sample, in T steps, and no more of a difference than that sample allows.     *)
(* An undisturbed window is known exactly.                                     *)
Steps(H) == Sub * H + phase
Shown(H, D) == rtc = (start.rtc + H) % RtcWrap /\ stimer = (start.stimer + D) % StimerWrap
Drift(T, D) == /\ 2 * (D - rate * T) <= SpanLimit + 1
               /\ 2 * (rate * T - D) <= 2 * (rate * (Sub - 1)) + SpanLimit
Bounded(T) == T <= Sub - 1 + polls + pauses * (Longest + 1)
Exact(T, D) == /\ T - polls \in 0..Sub - 1 /\ D = rate * polls /\ waited = rate * polls
               /\ T <= Sub * Window /\ (cpc = "poll" => T < Sub * Window)
Within(H, D) == /\ Shown(H, D) /\ Drift(Steps(H), D) /\ Bounded(Steps(H))
                /\ attempt \notin disturbed => Exact(Steps(H), D)
WindowInv == cpc \in {"poll", "end"} /\ rtcSpeed = 1 => \E H \in Nat, D \in Nat : Within(H, D)

(* A right clock has lost only windows in which something came in between.    *)
ChanceInv == rate = Nominal /\ rtcSpeed = 1 /\ registers =>
               /\ 1..attempt - 1 \subseteq disturbed
               /\ cpc = "done" /\ ~verified => disturbed = 1..Attempts

AccurateInv == verified \/ (cpc = "recheck" /\ rtcSpeed = 1) => Accurate

ClockInv == ClockTypeOK /\ WindowInv /\ ChanceInv /\ AccurateInv

-----------------------------------------------------------------------------
(* What ClockAssumption says of the bounds of the check, in the form leaves use. *)
LEMMA ClockConstants ==
  /\ Sub \in Nat /\ Sub > 0 /\ Nominal \in Nat /\ Nominal > 0 /\ Rates \subseteq Nat /\ \A r \in Rates : r > 0
  /\ Window \in Nat /\ Window > 0 /\ WindowMax \in Nat /\ Window <= WindowMax /\ Tolerance \in Nat
  /\ Parts \in Nat /\ Parts > 0
  /\ RtcWrap \in Nat /\ Window < RtcWrap /\ RtcWrap > 0 /\ StimerWrap \in Nat /\ StimerWrap > 0 /\ SpanLimit \in Nat
  /\ Attempts \in Nat /\ Attempts > 0 /\ Polls \in Nat /\ PollTicks \in Nat
  /\ Pauses \subseteq Nat /\ MaxPauses \in Nat
  BY ClockAssumption

(* The longest preemption, and that the RTC does not come round twice to a window. *)
LEMMA LongestIs ==
  /\ Longest \in Nat /\ \A p \in Pauses \cup {0} : p <= Longest
  /\ Sub + Polls + MaxPauses * (Longest + 1) <= Sub * (RtcWrap + Window)
PROOF
  <1>1. \E k \in Pauses \cup {0} : /\ \A p \in Pauses : p <= k
                                   /\ Sub + Polls + MaxPauses * (k + 1) <= Sub * (RtcWrap + Window)
    BY ClockAssumption
  <1>2. /\ Longest \in Pauses \cup {0} /\ \A p \in Pauses : p <= Longest
        /\ Sub + Polls + MaxPauses * (Longest + 1) <= Sub * (RtcWrap + Window)
    BY <1>1 DEF Longest
  <1>3. QED
    BY <1>2, ClockConstants

(* Quotient and remainder by a circumference. *)
LEMMA Division ==
  ASSUME NEW a \in Int, NEW w \in Nat \ {0}
  PROVE  a \div w \in Int /\ a % w \in 0 .. w - 1 /\ a = w * (a \div w) + (a % w)
PROOF
  <1>1. w \in Int /\ w > 0
    OBVIOUS
  <1>2. a \div w \in Int
    BY <1>1
  <1>3. a % w \in 0 .. w - 1
    BY <1>1
  <1>4. a = w * (a \div w) + (a % w)
    BY <1>1
  <1>5. QED
    BY <1>2, <1>3, <1>4

(* They are the only ones. *)
LEMMA DivisionIs ==
  ASSUME NEW w \in Nat \ {0}, NEW q \in Int, NEW r \in 0 .. w - 1
  PROVE  (w * q + r) \div w = q /\ (w * q + r) % w = r
PROOF
  <1> DEFINE a == w * q + r
  <1>1. a \in Int
    OBVIOUS
  <1>2. PICK p \in Int, s \in 0 .. w - 1 : p = a \div w /\ s = a % w /\ a = w * p + s
    BY <1>1, Division
  <1>3. w * p + s = w * q + r
    BY <1>2
  <1> HIDE DEF a
  <1>4. ~ (p >= q + 1)
    <2>1. SUFFICES ASSUME p >= q + 1 PROVE FALSE
      OBVIOUS
    <2>2. w * (q + 1) <= w * p /\ w * (q + 1) = w * q + w
      BY <2>1
    <2>3. QED
      BY <1>3, <2>2
  <1>5. ~ (q >= p + 1)
    <2>1. SUFFICES ASSUME q >= p + 1 PROVE FALSE
      OBVIOUS
    <2>2. w * (p + 1) <= w * q /\ w * (p + 1) = w * p + w
      BY <2>1
    <2>3. QED
      BY <1>3, <2>2
  <1>6. p = q /\ s = r
    BY <1>3, <1>4, <1>5
  <1>7. QED
    BY <1>2, <1>6 DEF a

(* Counters that wrap add up. *)
LEMMA CircleAdds ==
  ASSUME NEW a \in Int, NEW b \in Int, NEW w \in Nat \ {0}
  PROVE  ((a % w) + b) % w = (a + b) % w
PROOF
  <1>1. PICK p \in Int, r \in 0 .. w - 1 : r = a % w /\ a = w * p + r
    BY Division
  <1>2. r + b \in Int
    OBVIOUS
  <1>3. PICK q \in Int, s \in 0 .. w - 1 : s = (r + b) % w /\ r + b = w * q + s
    <2>1. /\ (r + b) \div w \in Int /\ (r + b) % w \in 0 .. w - 1
          /\ r + b = w * ((r + b) \div w) + ((r + b) % w)
      BY <1>2, Division
    <2>2. QED
      BY <2>1
  <1>4. a + b = w * (p + q) + s /\ p + q \in Int
    <2>1. w * (p + q) = w * p + w * q /\ w * p \in Int /\ w * q \in Int
      OBVIOUS
    <2>2. a = w * p + r /\ r + b = w * q + s
      BY <1>1, <1>3
    <2>3. QED
      BY <2>1, <2>2
  <1>5. (w * (p + q) + s) % w = s
    BY <1>4, DivisionIs
  <1>6. (a + b) % w = s
    BY <1>4, <1>5
  <1>7. ((a % w) + b) % w = s
    BY <1>1, <1>3
  <1>8. QED
    BY <1>6, <1>7

(* What is less than a circumference is itself, and again after one round. *)
LEMMA CircleSmall ==
  ASSUME NEW w \in Nat \ {0}, NEW r \in 0 .. w - 1
  PROVE  r % w = r /\ (w + r) % w = r
PROOF
  <1>1. w \in Int /\ w > 0 /\ r \in Int /\ 0 <= r /\ r < w
    OBVIOUS
  <1>2. r % w = r
    BY <1>1
  <1>3. (w + r) % w = r
    BY <1>1
  <1>4. QED
    BY <1>2, <1>3

(* Two movements of a counter are one. *)
LEMMA CircleOn ==
  ASSUME NEW w \in Nat \ {0}, NEW s \in Int, NEW a \in Int, NEW b \in Int
  PROVE  (((s + a) % w) + b) % w = (s + (a + b)) % w
PROOF
  <1>1. s + a \in Int
    OBVIOUS
  <1>2. (((s + a) % w) + b) % w = ((s + a) + b) % w
    BY <1>1, CircleAdds
  <1>3. (s + a) + b = s + (a + b)
    OBVIOUS
  <1>4. QED
    BY <1>2, <1>3

(* A counter stays in its range. *)
LEMMA InCircle ==
  ASSUME NEW a \in Int, NEW w \in Nat \ {0}
  PROVE  a % w \in 0 .. w - 1
  BY Division

(* A difference of wrapping counters, as clockVerifyRateWindow takes those of RTC and STIMER. *)
LEMMA CircleLess ==
  ASSUME NEW w \in Nat \ {0}, NEW s \in 0 .. w - 1, NEW d \in Nat
  PROVE  /\ (((s + d) % w) - s) % w = d % w
         /\ (((s + d) % w) + w - s) % w = d % w
PROOF
  <1> DEFINE c == (s + d) % w
  <1>1. c \in Int /\ -s \in Int /\ w - s \in Int /\ s + d \in Int
    BY InCircle
  <1>2. (c + (-s)) % w = ((s + d) + (-s)) % w
    BY <1>1, CircleAdds
  <1>3. (c + (w - s)) % w = ((s + d) + (w - s)) % w
    BY <1>1, CircleAdds
  <1> HIDE DEF c
  <1>4. c + (-s) = c - s /\ (s + d) + (-s) = d
    BY <1>1
  <1>5. c + (w - s) = c + w - s /\ (s + d) + (w - s) = w + d
    BY <1>1
  <1>6. (w + d) % w = d % w
    <2>1. w % w = 0
      <3>1. (w * 1 + 0) % w = 0
        BY DivisionIs
      <3>2. w * 1 + 0 = w
        OBVIOUS
      <3>3. QED
        BY <3>1, <3>2
    <2>2. ((w % w) + d) % w = (w + d) % w
      <3>1. w \in Int /\ d \in Int
        OBVIOUS
      <3>2. QED
        BY <3>1, CircleAdds
    <2>3. 0 + d = d
      OBVIOUS
    <2>4. QED
      BY <2>1, <2>2, <2>3
  <1>7. (c - s) % w = d % w /\ (c + w - s) % w = d % w
    BY <1>2, <1>3, <1>4, <1>5, <1>6
  <1>8. QED
    BY <1>7 DEF c

(* Time leaves the counters in their ranges. *)
LEMMA PassesType ==
  ASSUME ClockTypeOK, NEW k \in Nat, Passes(k)
  PROVE  rtc' \in 0..RtcWrap - 1 /\ phase' \in 0..Sub - 1 /\ stimer' \in 0..StimerWrap - 1
PROOF
  <1> DEFINE steps == phase + k * rtcSpeed
  <1>1. steps \in Int /\ k * rate \in Int /\ rate \in Int /\ Sub \in Nat \ {0} /\ RtcWrap \in Nat \ {0}
        /\ StimerWrap \in Nat \ {0} /\ rtc \in Int /\ stimer \in Int
    BY ClockConstants DEF ClockTypeOK
  <1>2. phase' = steps % Sub /\ rtc' = (rtc + steps \div Sub) % RtcWrap
        /\ stimer' = (stimer + k * rate) % StimerWrap
    BY DEF Passes
  <1>3. steps \div Sub \in Int
    BY <1>1, Division
  <1> HIDE DEF steps
  <1>4. rtc + steps \div Sub \in Int /\ stimer + k * rate \in Int
    BY <1>1, <1>3
  <1>5. QED
    BY <1>1, <1>2, <1>4, InCircle

(* k steps of a working crystal. *)
LEMMA PassesSteps ==
  ASSUME ClockTypeOK, rtcSpeed = 1, NEW k \in Nat, Passes(k)
  PROVE  LET q == (phase + k) \div Sub
         IN  /\ q \in Nat /\ Sub * q + phase' = phase + k
             /\ rtc' = (rtc + q) % RtcWrap /\ stimer' = (stimer + k * rate) % StimerWrap
PROOF
  <1> DEFINE steps == phase + k
             q == steps \div Sub
  <1>1. steps \in Nat /\ Sub \in Nat \ {0} /\ steps \in Int
    BY ClockConstants DEF ClockTypeOK
  <1>2. phase + k * rtcSpeed = steps
    BY DEF ClockTypeOK
  <1>3. phase' = steps % Sub /\ rtc' = (rtc + q) % RtcWrap /\ stimer' = (stimer + k * rate) % StimerWrap
    BY <1>2 DEF Passes
  <1>4. q \in Int /\ phase' \in 0 .. Sub - 1 /\ steps = Sub * q + phase'
    BY <1>1, <1>3, Division
  <1> HIDE DEF steps, q
  <1>5. q >= 0
    <2>1. SUFFICES ASSUME q <= -1 PROVE FALSE
      BY <1>4
    <2>2. Sub * q <= Sub * (-1) /\ Sub * (-1) = -Sub /\ Sub * q \in Int
      BY <1>1, <1>4, <2>1
    <2>3. phase' <= Sub - 1 /\ phase' \in Int /\ Sub \in Int
      BY <1>1, <1>4
    <2>4. Sub * q <= -Sub /\ Sub * q \in Int
      BY <2>2, <2>3
    <2>5. steps = Sub * q + phase'
      BY <1>4
    <2>6. Sub * q + phase' < 0
      BY <2>3, <2>4
    <2>7. QED
      BY <1>1, <2>5, <2>6
  <1>6. QED
    BY <1>3, <1>4, <1>5 DEF steps, q

(* What the counters show of a window after k more steps. *)
LEMMA ShownOn ==
  ASSUME ClockTypeOK, rtcSpeed = 1, NEW k \in Nat, Passes(k), NEW H \in Nat, NEW D \in Nat, Shown(H, D)
  PROVE  LET q == (phase + k) \div Sub
         IN  /\ q \in Nat /\ Sub * (H + q) + phase' = Steps(H) + k
             /\ rtc' = (start.rtc + (H + q)) % RtcWrap
             /\ D + k * rate \in Nat /\ stimer' = (start.stimer + (D + k * rate)) % StimerWrap
PROOF
  <1> DEFINE q == (phase + k) \div Sub
  <1>1. /\ q \in Nat /\ Sub * q + phase' = phase + k
        /\ rtc' = (rtc + q) % RtcWrap /\ stimer' = (stimer + k * rate) % StimerWrap
    BY PassesSteps
  <1> HIDE DEF q
  <1>2. /\ start.rtc \in Int /\ start.stimer \in Int /\ rate \in Nat /\ k * rate \in Nat
        /\ RtcWrap \in Nat \ {0} /\ StimerWrap \in Nat \ {0} /\ Sub \in Nat /\ phase \in Nat
    BY ClockConstants DEF ClockTypeOK
  <1>3. rtc' = (start.rtc + (H + q)) % RtcWrap
    <2>1. rtc = (start.rtc + H) % RtcWrap /\ H \in Int /\ q \in Int
      BY <1>1 DEF Shown
    <2>2. (((start.rtc + H) % RtcWrap) + q) % RtcWrap = (start.rtc + (H + q)) % RtcWrap
      BY <1>2, <2>1, CircleOn
    <2>3. QED
      BY <1>1, <2>1, <2>2
  <1>4. stimer' = (start.stimer + (D + k * rate)) % StimerWrap
    <2>1. stimer = (start.stimer + D) % StimerWrap /\ D \in Int /\ k * rate \in Int
      BY <1>2 DEF Shown
    <2>2. (((start.stimer + D) % StimerWrap) + k * rate) % StimerWrap
            = (start.stimer + (D + k * rate)) % StimerWrap
      BY <1>2, <2>1, CircleOn
    <2>3. QED
      BY <1>1, <2>1, <2>2
  <1>5. Sub * (H + q) = Sub * H + Sub * q
    BY <1>1, <1>2
  <1>6. phase' \in Int /\ Sub * H \in Int /\ Sub * q \in Int
    BY <1>1, <1>2, PassesType DEF ClockTypeOK
  <1>7. Sub * (H + q) + phase' = Steps(H) + k
    <2>1. Sub * q + phase' = phase + k
      BY <1>1
    <2>2. Steps(H) = Sub * H + phase
      BY DEF Steps
    <2>3. QED
      BY <1>2, <1>5, <1>6, <2>1, <2>2
  <1>8. D + k * rate \in Nat
    BY <1>2
  <1>9. QED
    BY <1>1, <1>3, <1>4, <1>7, <1>8 DEF q

-----------------------------------------------------------------------------
(* What is true of a window is true of the shortest one.                      *)
LEMMA Slopes ==
  ASSUME NEW a \in Int, NEW b \in Int, NEW c \in Nat, NEW w \in Nat, NEW h \in Nat, w <= h,
         a * h - c < b * h
  PROVE  a * w - c <= b * w
PROOF
  <1>1. a * w \in Int /\ b * w \in Int /\ a * h \in Int /\ b * h \in Int
    OBVIOUS
  <1>2. CASE a <= b
    <2>1. a * w <= b * w
      BY <1>2
    <2>2. QED
      BY <1>1, <2>1
  <1>3. CASE a > b
    <2>1. PICK e \in Nat : e = a - b
      BY <1>3
    <2>2. e * w <= e * h /\ e * w \in Int /\ e * h \in Int
      OBVIOUS
    <2>3. a = b + e
      BY <2>1
    <2>4. a * w = b * w + e * w /\ a * h = b * h + e * h
      BY <2>3
    <2>5. QED
      BY <1>1, <2>2, <2>4
  <1>4. QED
    BY <1>2, <1>3

(* The comparison of a quotient, as ppm is compared with 2000. *)
LEMMA QuotientSmall ==
  ASSUME NEW a \in Nat, NEW w \in Nat \ {0}, NEW t \in Nat
  PROVE  /\ a \div w <= t => a < (t + 1) * w
         /\ a <= t * w => a \div w <= t
PROOF
  <1>1. PICK q \in Int, r \in 0 .. w - 1 : q = a \div w /\ a = w * q + r
    BY Division
  <1>2. ASSUME q <= t PROVE a < (t + 1) * w
    <2>1. w * q <= w * t /\ w * q \in Int /\ w * t \in Int
      BY <1>2
    <2>2. (t + 1) * w = w * t + w
      OBVIOUS
    <2>3. QED
      BY <1>1, <2>1, <2>2
  <1>3. ASSUME a <= t * w, q >= t + 1 PROVE FALSE
    <2>1. w * (t + 1) <= w * q /\ w * (t + 1) = t * w + w /\ t * w \in Int /\ w * q \in Int
      BY <1>3
    <2>2. QED
      BY <1>1, <1>3, <2>1
  <1>4. q <= t \/ q >= t + 1
    BY <1>1
  <1>5. QED
    BY <1>1, <1>2, <1>3, <1>4

(* The midpoint of a sample, which rounds down. *)
LEMMA HalfIs ==
  ASSUME NEW a \in Nat
  PROVE  a \div 2 \in Nat /\ 2 * (a \div 2) <= a /\ a <= 2 * (a \div 2) + 1
PROOF
  <1>1. PICK q \in Int, r \in 0 .. 1 : q = a \div 2 /\ a = 2 * q + r
    BY Division
  <1>2. QED
    BY <1>1

(* Scaling to parts keeps an order. *)
LEMMA Scaled ==
  ASSUME NEW a \in Nat, NEW x \in Int, NEW y \in Int, x <= y
  PROVE  a * x \in Int /\ a * y \in Int /\ a * x <= a * y
  OBVIOUS

(* A window that was measured as h hundredths and d ticks, within what the    *)
(* samples allow, and accepted.                                              *)
LEMMA AcceptedIsAccurate ==
  ASSUME rate \in Nat, NEW h \in Nat, h >= Window, NEW d \in Nat,
         d <= rate * (Sub * h) + rate * (Sub - 1) + SpanLimit,
         d >= rate * (Sub * h) - rate * (Sub - 1) - SpanLimit,
         InTolerance(d, h)
  PROVE  Accurate
PROOF
  <1> DEFINE N == Nominal * Sub
             A == Parts * (rate * Sub)
             R == rate * (Sub - 1)
             C == Parts * (R + SpanLimit)
             B == (Parts + Tolerance + 1) * N
             B2 == (Parts - Tolerance - 1) * N
             expected == h * Sub * Nominal
             error == IF d > expected THEN d - expected ELSE expected - d
  <1>1. /\ Nominal \in Nat /\ Nominal > 0 /\ Sub \in Nat /\ Sub > 0 /\ SpanLimit \in Nat /\ Tolerance \in Nat
        /\ Window \in Nat /\ Window > 0 /\ Parts \in Nat /\ Parts > 0
    BY ClockConstants
  <1>2. N \in Nat /\ N > 0 /\ R \in Nat /\ rate * Sub \in Nat
    BY <1>1
  <1>3. A \in Int /\ C \in Nat /\ B \in Int /\ B2 \in Int
    BY <1>1, <1>2
  <1>4. expected = N * h /\ expected \in Nat /\ expected > 0
    BY <1>1
  <1>5. error \in Nat /\ Parts * error \in Nat
    <2>1. error \in Nat
      BY <1>4
    <2> HIDE DEF error
    <2>2. QED
      BY <1>1, <2>1
  <1>6. (Parts * error) \div expected <= Tolerance
    BY DEF InTolerance
  <1> HIDE DEF error, expected
  <1>7. Parts * error < (Tolerance + 1) * expected
    BY <1>1, <1>4, <1>5, <1>6, QuotientSmall
  <1>8. d - expected <= error /\ expected - d <= error
    BY <1>4 DEF error
  <1>9. (Tolerance + 1) * expected \in Int /\ B * h = Parts * expected + (Tolerance + 1) * expected
        /\ B2 * h = Parts * expected - (Tolerance + 1) * expected
    <2>1. /\ (Tolerance + 1) * expected = Tolerance * expected + expected
          /\ Tolerance * expected \in Int
      BY <1>1, <1>4
    <2>2. B = Parts * N + N + Tolerance * N /\ B2 = Parts * N - N - Tolerance * N /\ Tolerance * N \in Int
      BY <1>1, <1>2
    <2>3. (Tolerance * N) * h = Tolerance * expected
      BY <1>1, <1>2, <1>4
    <2> HIDE DEF B, B2, N
    <2>4. PICK m \in Int, n \in Int : m = Parts * N /\ n = Tolerance * N
      BY <1>1, <1>2, <2>2
    <2>5. B = m + N + n /\ B2 = m - N - n
      BY <2>2, <2>4
    <2>6. (m + N + n) * h = m * h + N * h + n * h /\ (m - N - n) * h = m * h - N * h - n * h
      BY <1>2
    <2>7. m * h = Parts * expected /\ n * h = Tolerance * expected /\ Parts * expected \in Int
      <3>1. m * h = Parts * (N * h)
        BY <1>1, <1>2, <2>4
      <3>2. QED
        BY <1>1, <1>4, <2>3, <2>4, <3>1
    <2>8. B * h = Parts * expected + expected + Tolerance * expected
          /\ B2 * h = Parts * expected - expected - Tolerance * expected
      BY <1>4, <2>5, <2>6, <2>7
    <2>9. QED
      BY <1>4, <2>1, <2>7, <2>8
  <1>10. Parts * d < B * h /\ Parts * d > B2 * h /\ B * h \in Int /\ B2 * h \in Int
    <2>1. /\ Parts * d <= Parts * (expected + error) /\ Parts * (expected - error) <= Parts * d
          /\ Parts * d \in Int
      BY <1>1, <1>4, <1>5, <1>8, Scaled
    <2>2. /\ Parts * (expected + error) = Parts * expected + Parts * error
          /\ Parts * (expected - error) = Parts * expected - Parts * error
          /\ Parts * expected \in Int
      BY <1>1, <1>4, <1>5
    <2> HIDE DEF B, B2
    <2>3. B * h \in Int /\ B2 * h \in Int
      BY <1>3
    <2>4. QED
      BY <1>5, <1>7, <1>9, <2>1, <2>2, <2>3
  <1>11. Parts * (rate * (Sub * h)) = A * h /\ A * h \in Int
    BY <1>1
  <1>12. A * h - C < B * h /\ B2 * h - C < A * h
    <2>1. rate * (Sub * h) \in Int
      BY <1>1
    <2>2. PICK m \in Int, g \in Int : m = rate * (Sub * h) /\ g = R + SpanLimit
      BY <1>1, <1>2, <2>1
    <2>3. Parts * m = A * h /\ Parts * g = C
      BY <1>11, <2>2
    <2> HIDE DEF A, B, B2, C
    <2>4. Parts * (m - g) <= Parts * d /\ Parts * d <= Parts * (m + g) /\ Parts * d \in Int
      <3>1. m - g <= d /\ d <= m + g
        <4> HIDE DEF R
        <4>1. d <= m + R + SpanLimit /\ d >= m - R - SpanLimit
          BY <2>2 DEF R
        <4>2. QED
          BY <1>1, <1>2, <2>2, <4>1
      <3>2. QED
        BY <1>1, <3>1, Scaled
    <2>5. Parts * (m - g) = Parts * m - Parts * g /\ Parts * (m + g) = Parts * m + Parts * g
          /\ Parts * m \in Int /\ Parts * g \in Int
      BY <1>1
    <2>6. A * h - C <= Parts * d /\ Parts * d <= A * h + C
      BY <2>3, <2>4, <2>5
    <2>7. QED
      BY <1>3, <1>10, <1>11, <2>4, <2>6
  <1> HIDE DEF A, B, B2, C
  <1>13. A * Window - C <= B * Window /\ B2 * Window - C <= A * Window
    BY <1>1, <1>3, <1>12, Slopes
  <1>14. /\ A * Window = Parts * (rate * (Sub * Window)) /\ rate * (Sub * Window) \in Int
         /\ B * Window = (Parts + Tolerance + 1) * (Nominal * (Sub * Window))
         /\ B2 * Window = (Parts - Tolerance - 1) * (Nominal * (Sub * Window))
    BY <1>1 DEF A, B, B2
  <1>15. /\ rate * (Sub * (Window - 1) + 1) = rate * (Sub * Window) - R
         /\ rate * (Sub * (Window + 1) - 1) = rate * (Sub * Window) + R
    BY <1>1
  <1>16. /\ (Parts + Tolerance + 1) * (Nominal * (Sub * Window)) \in Int
         /\ (Parts - Tolerance - 1) * (Nominal * (Sub * Window)) \in Int
    BY <1>1
  <1> HIDE DEF R
  <1>17. QED
    BY <1>1, <1>2, <1>13, <1>14, <1>15, <1>16 DEF Accurate, C

-----------------------------------------------------------------------------
(* What a sample that ends a window shows, the RTC read before or after the    *)
(* preemption within it: h hundredths and d ticks, of T steps.                *)
Measured(s, h, d, T) ==
  /\ s.rtc = (start.rtc + h) % RtcWrap /\ s.stimer = (start.stimer + d) % StimerWrap
  /\ Sub * h <= T /\ T <= Sub * h + Sub - 1
  /\ d - rate * T <= SpanLimit /\ rate * T - d <= rate * (Sub - 1) + SpanLimit

(* A sample ends a window that the counters show within what it allows. *)
LEMMA SampleSeen ==
  ASSUME ClockTypeOK, rtcSpeed = 1, NEW H \in Nat, NEW D \in Nat, Shown(H, D), Drift(Steps(H), D),
         NEW k \in Nat, SampleOk(k * rate), NEW late \in BOOLEAN
  PROVE  \E h \in Nat, d \in Nat, T \in Nat :
           /\ Measured(Sample(k, late), h, d, T) /\ T <= Steps(H) + k
           /\ k = 0 => h = H /\ d = D
PROOF
  <1> DEFINE half == (k * rate) \div 2
             q == (phase + k) \div Sub
             d == D + half
             s == Sample(k, late)
  <1>1. /\ start.rtc \in Int /\ start.stimer \in Int /\ rate \in Nat /\ k * rate \in Nat
        /\ RtcWrap \in Nat \ {0} /\ StimerWrap \in Nat \ {0} /\ Sub \in Nat \ {0} /\ phase \in 0 .. Sub - 1
        /\ SpanLimit \in Nat
    BY ClockConstants DEF ClockTypeOK
  <1>2. half \in Nat /\ 2 * half <= k * rate /\ k * rate <= 2 * half + 1 /\ k * rate <= SpanLimit
    BY <1>1, HalfIs DEF SampleOk
  <1>3. d \in Nat /\ (k = 0 => d = D)
    <2>1. k = 0 => half = 0
      BY <1>1, <1>2
    <2> HIDE DEF half
    <2>2. QED
      BY <1>2, <2>1
  <1>4. s.stimer = (start.stimer + d) % StimerWrap
    <2>1. s.stimer = (stimer + half) % StimerWrap
      BY DEF Sample
    <2>2. stimer = (start.stimer + D) % StimerWrap /\ D \in Int /\ half \in Int
      BY <1>2 DEF Shown
    <2> HIDE DEF half, s
    <2>3. (((start.stimer + D) % StimerWrap) + half) % StimerWrap = (start.stimer + (D + half)) % StimerWrap
      BY <1>1, <2>2, CircleOn
    <2>4. QED
      BY <2>1, <2>2, <2>3
  <1>5. Steps(H) \in Nat /\ Sub * H <= Steps(H) /\ Steps(H) <= Sub * H + Sub - 1 /\ Steps(H) = Sub * H + phase
    BY <1>1 DEF Steps
  <1>6. /\ rate * Steps(H) \in Int /\ rate * (Sub - 1) \in Nat
        /\ 2 * (D - rate * Steps(H)) <= SpanLimit + 1
        /\ 2 * (rate * Steps(H) - D) <= 2 * (rate * (Sub - 1)) + SpanLimit
    BY <1>1, <1>5 DEF Drift
  <1>7. CASE ~late
    <2>1. s.rtc = (start.rtc + H) % RtcWrap
      BY <1>7 DEF Sample, Shown
    <2>2. d - rate * Steps(H) <= SpanLimit /\ rate * Steps(H) - d <= rate * (Sub - 1) + SpanLimit
      <3> HIDE DEF half
      <3>1. QED
        BY <1>1, <1>2, <1>6
    <2> HIDE DEF d, s
    <2>3. Measured(s, H, d, Steps(H)) /\ Steps(H) <= Steps(H) + k
      BY <1>4, <1>5, <2>1, <2>2 DEF Measured
    <2>4. QED
      BY <1>3, <1>5, <2>3 DEF s
  <1>8. CASE late
    <2> DEFINE T == Steps(H) + k
    <2>1. s.rtc = (rtc + q) % RtcWrap
      <3>1. phase + k * rtcSpeed = phase + k
        BY <1>1
      <3>2. QED
        BY <1>8, <3>1 DEF Sample
    <2> DEFINE r == (phase + k) % Sub
    <2>2. q \in Int /\ r \in 0 .. Sub - 1 /\ phase + k = Sub * q + r
      <3>1. phase + k \in Int
        BY <1>1
      <3>2. QED
        BY <1>1, <3>1, Division
    <2> HIDE DEF q, half, r
    <2>3. q \in Nat
      <3>1. SUFFICES ASSUME q <= -1 PROVE FALSE
        BY <2>2
      <3>2. Sub * q <= Sub * (-1) /\ Sub * (-1) = -Sub /\ Sub * q \in Int
        BY <1>1, <2>2, <3>1
      <3>3. Sub * q <= -Sub /\ Sub * q \in Int /\ Sub \in Int /\ r \in Int /\ r <= Sub - 1
        BY <1>1, <2>2, <3>2
      <3>4. Sub * q + r < 0
        BY <3>3
      <3>5. QED
        BY <1>1, <2>2, <3>4
    <2>4. s.rtc = (start.rtc + (H + q)) % RtcWrap
      <3>1. (((start.rtc + H) % RtcWrap) + q) % RtcWrap = (start.rtc + (H + q)) % RtcWrap
        BY <1>1, <2>3, CircleOn
      <3>2. QED
        BY <2>1, <3>1 DEF Shown
    <2>5. T = Sub * (H + q) + r /\ T \in Nat
      <3>1. Sub * (H + q) = Sub * H + Sub * q /\ Sub * H \in Int /\ Sub * q \in Int
        BY <1>1, <2>3
      <3>2. QED
        BY <1>1, <1>5, <2>2, <3>1
    <2>6. Sub * (H + q) <= T /\ T <= Sub * (H + q) + Sub - 1
      <3>1. Sub * (H + q) \in Int /\ Sub \in Int /\ r \in Int /\ 0 <= r /\ r <= Sub - 1
        BY <1>1, <2>2, <2>3
      <3> HIDE DEF T
      <3>2. QED
        BY <2>5, <3>1
    <2>7. rate * T = rate * Steps(H) + k * rate
      BY <1>1, <1>5
    <2>8. d - rate * T <= SpanLimit /\ rate * T - d <= rate * (Sub - 1) + SpanLimit
      <3> HIDE DEF T
      <3>1. QED
        BY <1>1, <1>2, <1>6, <2>7
    <2>9. k = 0 => q = 0
      <3>1. SUFFICES ASSUME k = 0, q >= 1 PROVE FALSE
        BY <2>3
      <3>2. Sub * 1 <= Sub * q /\ Sub * q \in Int
        BY <1>1, <2>3, <3>1
      <3>3. QED
        BY <1>1, <2>2, <3>1, <3>2
    <2> HIDE DEF d, s, T
    <2>10. Measured(s, H + q, d, T) /\ H + q \in Nat /\ (k = 0 => H + q = H)
      BY <1>4, <2>3, <2>4, <2>6, <2>8, <2>9 DEF Measured
    <2>11. T <= Steps(H) + k
      BY <1>5 DEF T
    <2>12. QED
      BY <1>3, <2>5, <2>10, <2>11 DEF s
  <1>9. QED
    BY <1>7, <1>8

(* The counters come round, but not so that another window looks like one that *)
(* can be accepted.                                                          *)
LEMMA MeasuredIs ==
  ASSUME ClockTypeOK, NEW s, NEW h \in Nat, NEW d \in Nat, NEW T \in Nat, Measured(s, h, d, T),
         T <= Sub - 1 + Polls + MaxPauses * (Longest + 1)
  PROVE  /\ h < Window => Elapsed(s) < Window
         /\ Elapsed(s) >= Window => Elapsed(s) = h
         /\ h < RtcWrap => Elapsed(s) = h
         /\ h <= WindowMax => (s.stimer - start.stimer) % StimerWrap = d
         /\ Elapsed(s) \in Nat
PROOF
  <1>1. /\ start.rtc \in 0 .. RtcWrap - 1 /\ start.stimer \in 0 .. StimerWrap - 1
        /\ rate \in Nat /\ rate \in Rates /\ RtcWrap \in Nat \ {0} /\ StimerWrap \in Nat \ {0} /\ Sub \in Nat \ {0}
        /\ Window \in Nat /\ Window < RtcWrap /\ WindowMax \in Nat /\ SpanLimit \in Nat
    BY ClockConstants DEF ClockTypeOK
  <1>2. Elapsed(s) = h % RtcWrap
    <2>1. (((start.rtc + h) % RtcWrap) + RtcWrap - start.rtc) % RtcWrap = h % RtcWrap
      BY <1>1, CircleLess
    <2>2. QED
      BY <2>1 DEF Elapsed, Measured
  <1>3. (s.stimer - start.stimer) % StimerWrap = d % StimerWrap
    <2>1. (((start.stimer + d) % StimerWrap) - start.stimer) % StimerWrap = d % StimerWrap
      BY <1>1, CircleLess
    <2>2. QED
      BY <2>1 DEF Measured
  <1>4. h < RtcWrap + Window
    <2>1. SUFFICES ASSUME h >= RtcWrap + Window PROVE FALSE
      BY <1>1
    <2>2. Sub * (RtcWrap + Window) <= Sub * h /\ Sub * (RtcWrap + Window) \in Int /\ Sub * h \in Int
      BY <1>1, <2>1
    <2>3. Sub * h <= T
      BY DEF Measured
    <2>4. MaxPauses * (Longest + 1) \in Int /\ Polls \in Int
      BY LongestIs, ClockConstants
    <2>5. QED
      BY <1>1, <2>2, <2>3, <2>4, LongestIs
  <1>5. h < RtcWrap => h % RtcWrap = h
    <2>1. SUFFICES ASSUME h < RtcWrap PROVE h % RtcWrap = h
      OBVIOUS
    <2>2. h \in 0 .. RtcWrap - 1
      BY <1>1, <2>1
    <2>3. QED
      BY <1>1, <2>2, CircleSmall
  <1>6. h >= RtcWrap => h % RtcWrap = h - RtcWrap
    <2>1. SUFFICES ASSUME h >= RtcWrap PROVE h % RtcWrap = h - RtcWrap
      OBVIOUS
    <2>2. h - RtcWrap \in 0 .. RtcWrap - 1
      BY <1>1, <1>4, <2>1
    <2>3. (RtcWrap + (h - RtcWrap)) % RtcWrap = h - RtcWrap
      BY <1>1, <2>2, CircleSmall
    <2>4. RtcWrap + (h - RtcWrap) = h
      BY <1>1
    <2>5. QED
      BY <2>3, <2>4
  <1>7. h <= WindowMax => d % StimerWrap = d
    <2>1. SUFFICES ASSUME h <= WindowMax PROVE d % StimerWrap = d
      OBVIOUS
    <2>2. Sub * h <= Sub * WindowMax /\ Sub * h \in Int /\ Sub * WindowMax \in Int
          /\ Sub * (WindowMax + 1) = Sub * WindowMax + Sub
      BY <1>1, <2>1
    <2>3. T <= Sub * (WindowMax + 1) - 1
      BY <1>1, <2>2 DEF Measured
    <2>4. rate * T <= rate * (Sub * (WindowMax + 1) - 1) /\ rate * T \in Int
          /\ rate * (Sub * (WindowMax + 1) - 1) \in Int
      BY <1>1, <2>2, <2>3
    <2>5. rate * (Sub * (WindowMax + 1) - 1) + SpanLimit < StimerWrap
      BY <1>1, ClockAssumption
    <2>6. d - rate * T <= SpanLimit
      BY DEF Measured
    <2>7. d < StimerWrap
      BY <1>1, <2>4, <2>5, <2>6
    <2>8. d \in 0 .. StimerWrap - 1
      BY <1>1, <2>7
    <2>9. QED
      BY <1>1, <2>8, CircleSmall
  <1> HIDE DEF Elapsed
  <1>8. CASE h < RtcWrap
    BY <1>2, <1>3, <1>5, <1>7, <1>8
  <1>9. CASE h >= RtcWrap
    BY <1>1, <1>2, <1>3, <1>4, <1>6, <1>7, <1>9
  <1>10. QED
    BY <1>1, <1>8, <1>9

-----------------------------------------------------------------------------
(* A window k steps later. *)
LEMMA ShownAfter ==
  ASSUME ClockTypeOK, rtcSpeed = 1, NEW k \in Nat, Passes(k), UNCHANGED <<start, rate>>,
         NEW H \in Nat, NEW D \in Nat, Shown(H, D), Drift(Steps(H), D)
  PROVE  \E h \in Nat, d \in Nat : /\ Shown(h, d)' /\ Drift(Steps(h), d)'
                                   /\ Steps(h)' = Steps(H) + k /\ d = D + k * rate
PROOF
  <1>1. PICK q \in Nat : /\ Sub * (H + q) + phase' = Steps(H) + k
                         /\ rtc' = (start.rtc + (H + q)) % RtcWrap
    BY ShownOn
  <1>2. D + k * rate \in Nat /\ stimer' = (start.stimer + (D + k * rate)) % StimerWrap
    BY ShownOn
  <1>3. PICK h \in Nat, d \in Nat : h = H + q /\ d = D + k * rate
    BY <1>2
  <1>4. /\ Steps(H) \in Nat /\ rate \in Nat /\ SpanLimit \in Nat /\ Sub \in Nat
    BY ClockConstants DEF ClockTypeOK, Steps
  <1>5. Shown(h, d)'
    BY <1>1, <1>2, <1>3 DEF Shown
  <1>6. Steps(h)' = Steps(H) + k
    BY <1>1, <1>3 DEF Steps
  <1>7. /\ d - rate * (Steps(H) + k) = D - rate * Steps(H)
        /\ rate * (Steps(H) + k) - d = rate * Steps(H) - D
    <2>1. rate * (Steps(H) + k) = rate * Steps(H) + k * rate /\ rate * Steps(H) \in Int /\ k * rate \in Int
      BY <1>4
    <2>2. QED
      BY <1>3, <2>1
  <1>8. Drift(Steps(h), d)'
    <2>1. Drift(Steps(H) + k, d)
      BY <1>7 DEF Drift
    <2>2. QED
      BY <1>6, <2>1 DEF Drift
  <1>9. QED
    BY <1>3, <1>5, <1>6, <1>8

(* A window is no longer than its polls and what came in between. *)
LEMMA BoundedAfter ==
  ASSUME ClockTypeOK, NEW T \in Int, Bounded(T), NEW k \in Pauses \cup {0}, NEW n \in {0, 1},
         polls' = polls + n,
         \/ k = 0 /\ pauses' = pauses
         \/ pauses' = pauses + 1
  PROVE  Bounded(T + k + n)'
PROOF
  <1>1. /\ Longest \in Nat /\ k \in Nat /\ k <= Longest /\ pauses \in Nat /\ polls \in Nat /\ Sub \in Nat
        /\ pauses * (Longest + 1) \in Int
    BY LongestIs, ClockConstants DEF ClockTypeOK
  <1>2. T <= Sub - 1 + polls + pauses * (Longest + 1)
    BY DEF Bounded
  <1>3. CASE k = 0 /\ pauses' = pauses
    BY <1>1, <1>2, <1>3 DEF Bounded
  <1>4. CASE pauses' = pauses + 1
    <2>1. pauses' * (Longest + 1) = pauses * (Longest + 1) + Longest + 1
      BY <1>1, <1>4
    <2>2. T + k + n <= Sub - 1 + (polls + n) + (pauses * (Longest + 1) + Longest + 1)
      BY <1>1, <1>2
    <2>3. QED
      BY <2>1, <2>2 DEF Bounded
  <1>5. QED
    BY <1>3, <1>4

(* A read that was in error counts as a preemption, whatever its length. *)
LEMMA BoundedByRetry ==
  ASSUME ClockTypeOK, NEW T \in Int, Bounded(T), NEW k \in Pauses \cup {0},
         polls' = polls, pauses' = pauses + 1
  PROVE  Bounded(T + k + 1)'
PROOF
  <1>1. /\ Longest \in Nat /\ k \in Nat /\ k <= Longest /\ pauses \in Nat /\ polls \in Nat /\ Sub \in Nat
        /\ pauses * (Longest + 1) \in Int
    BY LongestIs, ClockConstants DEF ClockTypeOK
  <1>2. T <= Sub - 1 + polls + pauses * (Longest + 1)
    BY DEF Bounded
  <1>3. pauses' * (Longest + 1) = pauses * (Longest + 1) + Longest + 1
    BY <1>1
  <1>4. T + k + 1 <= Sub - 1 + polls + (pauses * (Longest + 1) + Longest + 1)
    BY <1>1, <1>2
  <1>5. QED
    BY <1>3, <1>4 DEF Bounded

(* A window given up in which something came in between.                      *)
LEMMA LostWindow ==
  ASSUME ClockTypeOK, ChanceInv, NextWindow, UNCHANGED <<rate, rtcSpeed, registers>>,
         disturbed \subseteq disturbed', disturbed' \subseteq 1..Attempts,
         rate = Nominal /\ rtcSpeed = 1 /\ registers => attempt \in disturbed'
  PROVE  ChanceInv'
PROOF
  <1>1. SUFFICES ASSUME rate = Nominal /\ rtcSpeed = 1 /\ registers
                 PROVE  /\ 1..attempt' - 1 \subseteq disturbed'
                        /\ cpc' = "done" /\ ~verified' => disturbed' = 1..Attempts
    BY DEF ChanceInv
  <1>2. 1..attempt - 1 \subseteq disturbed' /\ attempt \in disturbed' /\ attempt \in 1..Attempts /\ Attempts \in Nat
    BY <1>1, ClockConstants DEF ChanceInv, ClockTypeOK
  <1>3. 1..attempt \subseteq disturbed'
    BY <1>2
  <1>4. CASE attempt = Attempts
    BY <1>2, <1>3, <1>4 DEF NextWindow, Done
  <1>5. CASE attempt # Attempts
    <2>1. cpc' = "start" /\ attempt' = attempt + 1
      BY <1>5 DEF NextWindow
    <2>2. attempt' - 1 = attempt
      BY <1>2, <2>1
    <2>3. QED
      BY <1>3, <2>1, <2>2
  <1>6. QED
    BY <1>4, <1>5

(* Another window, or none. *)
LEMMA NextWindowType ==
  ASSUME ClockTypeOK, NextWindow, cpc # "done"
  PROVE  /\ cpc' \in {"start", "done"} /\ verified' = FALSE /\ attempt' \in 1..Attempts
         /\ reads' = 0 /\ polls' = 0 /\ start' \in [rtc : 0..RtcWrap - 1, stimer : 0..StimerWrap - 1]
PROOF
  <1>1. ~verified /\ attempt \in 1..Attempts /\ Attempts \in Nat /\ verified \in BOOLEAN
    BY ClockConstants DEF ClockTypeOK
  <1>2. NoSample \in [rtc : 0..RtcWrap - 1, stimer : 0..StimerWrap - 1]
    BY ClockConstants DEF NoSample
  <1>3. CASE attempt = Attempts
    BY <1>1, <1>2, <1>3 DEF NextWindow, Done
  <1>4. CASE attempt # Attempts
    BY <1>1, <1>2, <1>4 DEF NextWindow
  <1>5. QED
    BY <1>3, <1>4

(* Only HFRC matters to it, and its rate does not change. *)
LEMMA AccurateStays ==
  ASSUME rate' = rate
  PROVE  Accurate' <=> Accurate
  BY DEF Accurate

(* What is remembered of a preemption. *)
LEMMA PreemptionType ==
  ASSUME ClockTypeOK, NEW k \in Pauses \cup {0}, Preempted(k) \/ Disturb
  PROVE  /\ disturbed' \subseteq 1..Attempts /\ disturbed \subseteq disturbed' /\ pauses' \in 0..MaxPauses
         /\ \/ k = 0 /\ pauses' = pauses
            \/ pauses' = pauses + 1 /\ attempt \in disturbed'
PROOF
  <1>1. pauses \in Nat /\ pauses <= MaxPauses /\ MaxPauses \in Nat /\ attempt \in 1..Attempts /\ disturbed \subseteq 1..Attempts
    BY ClockConstants DEF ClockTypeOK
  <1>2. CASE Disturb
    <2>1. pauses < MaxPauses /\ disturbed' = disturbed \cup {attempt} /\ pauses' = pauses + 1
      BY <1>2 DEF Disturb
    <2>2. QED
      BY <1>1, <2>1
  <1>3. CASE k = 0 /\ Undisturbed
    BY <1>1, <1>3 DEF Undisturbed
  <1>4. QED
    BY <1>2, <1>3 DEF Preempted

(* What waiting leaves. *)
LEMMA WaitsType ==
  ASSUME ClockTypeOK, NEW k \in Nat, Waits(k)
  PROVE  /\ rtc' \in 0..RtcWrap - 1 /\ phase' \in 0..Sub - 1 /\ stimer' \in 0..StimerWrap - 1
         /\ waited' \in Nat /\ Passes(k) /\ waited' = waited + k * rate
PROOF
  <1>1. Passes(k) /\ waited' = waited + k * rate
    BY DEF Waits
  <1>2. waited \in Nat /\ k * rate \in Nat
    BY ClockConstants DEF ClockTypeOK
  <1>3. QED
    BY <1>1, <1>2, PassesType

-----------------------------------------------------------------------------
(* One lemma per step.  A crystal that fails leaves nothing to keep but types. *)
LEMMA XtalFailsStep ==
  ASSUME ClockInv, XtalFails
  PROVE  ClockInv'
PROOF
  <1>1. ClockTypeOK /\ AccurateInv
    BY DEF ClockInv
  <1>2. /\ cpc # "done" /\ rtcSpeed' \in {0, 2}
        /\ UNCHANGED <<cpc, rate, registers, rtc, phase, stimer, start, reads, polls, waited, attempt,
                       verified, disturbed, pauses>>
    BY DEF XtalFails
  <1>3. ClockTypeOK'
    BY <1>1, <1>2 DEF ClockTypeOK
  <1>4. WindowInv' /\ ChanceInv'
    BY <1>2 DEF WindowInv, ChanceInv
  <1>5. AccurateInv'
    BY <1>1, <1>2, AccurateStays DEF AccurateInv
  <1>6. QED
    BY <1>3, <1>4, <1>5 DEF ClockInv

(* Crystal start, selection and HFADJ. *)
LEMMA AdjustStep ==
  ASSUME ClockInv, Adjust
  PROVE  ClockInv'
PROOF
  <1>1. ClockTypeOK /\ ChanceInv
    BY DEF ClockInv
  <1>2. /\ cpc = "begin"
        /\ \/ cpc' = "config" /\ verified' = verified /\ registers' = registers
           \/ cpc' = "done" /\ verified' = FALSE /\ registers' = FALSE
        /\ UNCHANGED <<rate, rtcSpeed, rtc, phase, stimer, start, reads, polls, waited, attempt, disturbed, pauses>>
    BY DEF Adjust, Done, Stays
  <1>3. ~verified
    BY <1>1, <1>2 DEF ClockTypeOK
  <1>4. ClockTypeOK'
    <2>1. cpc' \in {"config", "done"} /\ registers' \in BOOLEAN /\ verified' = FALSE
      BY <1>1, <1>2, <1>3 DEF ClockTypeOK
    <2>2. QED
      BY <1>1, <1>2, <2>1 DEF ClockTypeOK
  <1>5. WindowInv'
    BY <1>2 DEF WindowInv
  <1>6. ChanceInv'
    BY <1>1, <1>2 DEF ChanceInv
  <1>7. AccurateInv'
    BY <1>2, <1>3 DEF AccurateInv
  <1>8. QED
    BY <1>4, <1>5, <1>6, <1>7 DEF ClockInv

(* The registers before the windows. *)
LEMMA CheckConfigurationStep ==
  ASSUME ClockInv, CheckConfiguration
  PROVE  ClockInv'
PROOF
  <1>1. ClockTypeOK /\ ChanceInv
    BY DEF ClockInv
  <1>2. /\ cpc = "config"
        /\ \/ cpc' = "start" /\ verified' = verified
           \/ cpc' = "done" /\ verified' = FALSE /\ ~(registers /\ rtcSpeed = 1)
        /\ UNCHANGED <<rate, registers, rtcSpeed, rtc, phase, stimer, start, reads, polls, waited, attempt,
                       disturbed, pauses>>
    BY DEF CheckConfiguration, Done, Stays, hardware, clockCheckConfiguration, XtalFailure
  <1>3. ~verified
    BY <1>1, <1>2 DEF ClockTypeOK
  <1>4. ClockTypeOK'
    <2>1. cpc' \in {"start", "done"} /\ verified' = FALSE
      BY <1>1, <1>2, <1>3 DEF ClockTypeOK
    <2>2. QED
      BY <1>1, <1>2, <2>1 DEF ClockTypeOK
  <1>5. WindowInv'
    BY <1>2 DEF WindowInv
  <1>6. ChanceInv'
    BY <1>1, <1>2 DEF ChanceInv
  <1>7. AccurateInv'
    BY <1>2, <1>3 DEF AccurateInv
  <1>8. QED
    BY <1>4, <1>5, <1>6, <1>7 DEF ClockInv

(* The registers again: the crystal still works, so the accepted window counted. *)
LEMMA RecheckStep ==
  ASSUME ClockInv, Recheck
  PROVE  ClockInv'
PROOF
  <1>1. ClockTypeOK /\ ChanceInv /\ AccurateInv
    BY DEF ClockInv
  <1>2. /\ cpc = "recheck" /\ cpc' = "done" /\ verified' = (registers /\ rtcSpeed = 1)
        /\ UNCHANGED <<rate, registers, rtcSpeed, rtc, phase, stimer, start, reads, polls, waited, attempt,
                       disturbed, pauses>>
    BY DEF Recheck, Done, Stays, hardware, clockCheckConfiguration, XtalFailure
  <1>3. verified' \in BOOLEAN
    BY <1>1, <1>2 DEF ClockTypeOK
  <1>4. ClockTypeOK'
    BY <1>1, <1>2, <1>3 DEF ClockTypeOK
  <1>5. WindowInv'
    BY <1>2 DEF WindowInv
  <1>6. ChanceInv'
    BY <1>1, <1>2 DEF ChanceInv
  <1>7. AccurateInv'
    BY <1>1, <1>2, AccurateStays DEF AccurateInv
  <1>8. QED
    BY <1>4, <1>5, <1>6, <1>7 DEF ClockInv

(* The first sample: the RTC and the midpoint of STIMER belong to one moment, nearly. *)
LEMMA ReadStartStep ==
  ASSUME ClockInv, ReadStart
  PROVE  ClockInv'
PROOF
  <1>1. ClockTypeOK /\ ChanceInv
    BY DEF ClockInv
  <1>2. PICK k \in Pauses \cup {0}, late \in BOOLEAN :
          SampleOk(k * rate) /\ (late => k > 0) /\ start' = Sample(k, late) /\ Passes(k) /\ Preempted(k)
    BY DEF ReadStart
  <1>3. /\ cpc = "start" /\ cpc' = "poll" /\ reads' = 0 /\ polls' = 0 /\ waited' = 0
        /\ UNCHANGED <<rate, registers, rtcSpeed, attempt, verified>>
    BY DEF ReadStart, Reading, hardware
  <1>4. /\ disturbed' \subseteq 1..Attempts /\ disturbed \subseteq disturbed' /\ pauses' \in 0..MaxPauses
        /\ \/ k = 0 /\ pauses' = pauses
           \/ pauses' = pauses + 1 /\ attempt \in disturbed'
    BY <1>1, <1>2, PreemptionType
  <1> DEFINE half == (k * rate) \div 2
             steps == phase + k * rtcSpeed
  <1>5. /\ k \in Nat /\ rate \in Nat /\ k * rate \in Nat /\ rtcSpeed \in Nat
        /\ RtcWrap \in Nat \ {0} /\ StimerWrap \in Nat \ {0} /\ Sub \in Nat \ {0} /\ phase \in 0 .. Sub - 1
        /\ SpanLimit \in Nat /\ rtc \in 0 .. RtcWrap - 1 /\ stimer \in 0 .. StimerWrap - 1
    BY <1>1, ClockConstants DEF ClockTypeOK
  <1>6. half \in Nat /\ 2 * half <= k * rate /\ k * rate <= 2 * half + 1 /\ k * rate <= SpanLimit
    BY <1>2, <1>5, HalfIs DEF SampleOk
  <1>7. /\ start' \in [rtc : 0..RtcWrap - 1, stimer : 0..StimerWrap - 1]
        /\ start'.stimer = (stimer + half) % StimerWrap
        /\ start'.rtc = IF late THEN (rtc + steps \div Sub) % RtcWrap ELSE rtc
    <2>1. start' = [rtc |-> IF late THEN (rtc + steps \div Sub) % RtcWrap ELSE rtc,
                    stimer |-> (stimer + half) % StimerWrap]
      BY <1>2 DEF Sample
    <2>2. (stimer + half) % StimerWrap \in 0 .. StimerWrap - 1
      <3> HIDE DEF half
      <3>1. stimer + half \in Int
        BY <1>5, <1>6
      <3>2. QED
        BY <1>5, <3>1, InCircle
    <2>3. (rtc + steps \div Sub) % RtcWrap \in 0 .. RtcWrap - 1
      <3>1. steps \in Int
        BY <1>5
      <3> HIDE DEF steps
      <3>2. steps \div Sub \in Int
        BY <1>5, <3>1, Division
      <3>3. rtc + steps \div Sub \in Int
        BY <1>5, <3>2
      <3>4. QED
        BY <1>5, <3>3, InCircle
    <2> HIDE DEF half, steps
    <2>4. QED
      BY <1>5, <2>1, <2>2, <2>3
  <1>8. rtc' \in 0..RtcWrap - 1 /\ phase' \in 0..Sub - 1 /\ stimer' \in 0..StimerWrap - 1
    BY <1>1, <1>2, <1>5, PassesType
  <1>9. ClockTypeOK'
    BY <1>1, <1>3, <1>4, <1>7, <1>8, ClockConstants DEF ClockTypeOK
  <1>10. ChanceInv'
    BY <1>1, <1>3, <1>4 DEF ChanceInv
  <1>11. AccurateInv'
    BY <1>1, <1>3 DEF AccurateInv, ClockTypeOK
  <1>12. WindowInv'
    <2>1. SUFFICES ASSUME rtcSpeed = 1 PROVE \E H \in Nat, D \in Nat : Within(H, D)'
      BY <1>3 DEF WindowInv
    <2>2. PICK q \in Nat : /\ q = (phase + k) \div Sub /\ Sub * q + phase' = phase + k
                           /\ rtc' = (rtc + q) % RtcWrap
      BY <1>1, <1>2, <1>5, <2>1, PassesSteps
    <2>3. stimer' = (stimer + k * rate) % StimerWrap
      BY <1>2 DEF Passes
    <2>4. steps = phase + k
      BY <1>5, <2>1
    <2>5. PICK D \in Nat : D = k * rate - half /\ (k = 0 => D = 0)
      <3>1. k = 0 => k * rate = 0
        BY <1>5
      <3> HIDE DEF half
      <3>2. k * rate - half \in Nat /\ (k * rate = 0 => k * rate - half = 0)
        BY <1>5, <1>6
      <3>3. QED
        BY <3>1, <3>2
    <2>6. stimer' = (start'.stimer + D) % StimerWrap
      <3> HIDE DEF half
      <3>1. (((stimer + half) % StimerWrap) + D) % StimerWrap = (stimer + (half + D)) % StimerWrap
        <4>1. stimer \in Int /\ half \in Int /\ D \in Int /\ StimerWrap \in Nat \ {0}
          BY <1>5, <1>6, <2>5
        <4>2. QED
          BY <4>1, CircleOn
      <3>2. half + D = k * rate
        BY <1>5, <1>6, <2>5
      <3>3. QED
        BY <1>7, <2>3, <3>1, <3>2
    <2>7. PICK h \in Nat, T \in 0 .. phase + k :
            /\ rtc' = (start'.rtc + h) % RtcWrap /\ T = Sub * h + phase' /\ (k = 0 => T = phase)
            /\ D - rate * T <= k * rate - half /\ rate * T - D <= half + rate * (Sub - 1)
      <3>1. CASE ~late
        <4>1. start'.rtc = rtc
          BY <1>7, <3>1
        <4>2. phase + k \in 0 .. phase + k
          BY <1>5
        <4>3. rate * (phase + k) = rate * phase + k * rate /\ rate * phase \in Nat
          BY <1>5
        <4>4. rate * phase <= rate * (Sub - 1) /\ rate * (Sub - 1) \in Nat
          BY <1>5
        <4> HIDE DEF half
        <4>5. D - rate * (phase + k) <= k * rate - half /\ rate * (phase + k) - D <= half + rate * (Sub - 1)
          BY <1>5, <1>6, <2>5, <4>3, <4>4
        <4>6. k = 0 => phase + k = phase
          BY <1>5
        <4>7. QED
          BY <2>2, <4>1, <4>2, <4>5, <4>6
      <3>2. CASE late
        <4>1. start'.rtc = rtc'
          BY <1>7, <2>2, <2>4, <3>2
        <4>2. rtc' = (start'.rtc + 0) % RtcWrap
          <5>1. PICK c \in 0 .. RtcWrap - 1 : c = rtc'
            BY <1>8
          <5>2. c % RtcWrap = c
            <6>1. RtcWrap \in Nat \ {0}
              BY <1>5
            <6>2. QED
              BY <5>1, <6>1, CircleSmall
          <5>3. c + 0 = c
            <6>1. RtcWrap \in Int
              BY <1>5
            <6>2. c \in Int
              BY <5>1, <6>1
            <6>3. QED
              BY <6>2
          <5>4. QED
            BY <4>1, <5>1, <5>2, <5>3
        <4>3. PICK p \in 0 .. Sub - 1 : p = phase'
          BY <1>8
        <4>4. p \in 0 .. phase + k /\ p = Sub * 0 + p
          <5>1. Sub * q \in Nat /\ p \in Nat /\ phase + k \in Nat /\ Sub * 0 = 0
            BY <1>5, <2>2, <4>3
          <5>2. Sub * q + p = phase + k
            BY <2>2, <4>3
          <5>3. p <= phase + k
            BY <5>1, <5>2
          <5>4. QED
            BY <5>1, <5>3
        <4>5. rate * p <= rate * (Sub - 1) /\ rate * p \in Nat /\ rate * (Sub - 1) \in Nat
          <5>1. p \in Nat /\ Sub - 1 \in Nat /\ p <= Sub - 1
            BY <1>5, <4>3
          <5>2. QED
            BY <1>5, <5>1
        <4> HIDE DEF half
        <4>6. D - rate * p <= k * rate - half /\ rate * p - D <= half + rate * (Sub - 1)
          BY <1>5, <1>6, <2>5, <4>5
        <4>7. k # 0
          BY <1>2, <1>5, <3>2
        <4>8. QED
          BY <4>2, <4>3, <4>4, <4>6, <4>7
      <3>3. QED
        BY <3>1, <3>2
    <2>8. Steps(h)' = T
      BY <2>7 DEF Steps
    <2>9. Shown(h, D)'
      BY <2>6, <2>7 DEF Shown
    <2>10. Drift(T, D)'
      <3>1. rate * T \in Int /\ rate * (Sub - 1) \in Nat
        BY <1>5
      <3>2. /\ 2 * (D - rate * T) <= SpanLimit + 1
            /\ 2 * (rate * T - D) <= 2 * (rate * (Sub - 1)) + SpanLimit
        <4> HIDE DEF half
        <4>1. QED
          BY <1>5, <1>6, <2>5, <2>7, <3>1
      <3>3. QED
        BY <1>3, <3>2 DEF Drift
    <2>11. Bounded(T)'
      <3>1. Longest \in Nat /\ k <= Longest /\ pauses \in Nat
        BY <1>1, LongestIs DEF ClockTypeOK
      <3>2. CASE k = 0
        <4>1. pauses' * (Longest + 1) \in Nat
          <5>1. pauses' \in Nat /\ Longest + 1 \in Nat
            BY <1>4, <3>1
          <5>2. QED
            BY <5>1
        <4>2. QED
          BY <1>3, <1>5, <2>7, <3>2, <4>1 DEF Bounded
      <3>3. CASE pauses' = pauses + 1
        <4>1. pauses' * (Longest + 1) = pauses * (Longest + 1) + Longest + 1 /\ pauses * (Longest + 1) \in Nat
          BY <3>1, <3>3
        <4>2. QED
          BY <1>3, <1>5, <2>7, <3>1, <4>1 DEF Bounded
      <3>4. QED
        BY <1>4, <3>2, <3>3
    <2>12. attempt' \notin disturbed' => Exact(T, D)'
      <3>1. SUFFICES ASSUME attempt' \notin disturbed' PROVE Exact(T, D)'
        OBVIOUS
      <3>2. k = 0 /\ D = 0 /\ T = phase
        BY <1>3, <1>4, <2>5, <2>7, <3>1
      <3>3. rate * 0 = 0 /\ T - 0 = T
        BY <1>5
      <3>4. T < Sub * Window /\ T \in 0 .. Sub - 1 /\ Sub * Window \in Nat
        <4>1. Sub * 1 <= Sub * Window /\ Sub * Window \in Nat
          BY <1>5, ClockConstants
        <4>2. QED
          BY <1>5, <3>2, <4>1
      <3>5. QED
        BY <1>3, <3>2, <3>3, <3>4 DEF Exact
    <2>13. QED
      BY <2>8, <2>9, <2>10, <2>11, <2>12 DEF Within
  <1>13. QED
    BY <1>9, <1>10, <1>11, <1>12 DEF ClockInv

(* A window goes on. *)
LEMMA WindowGoes ==
  ASSUME ClockTypeOK, rtcSpeed = 1, NEW k \in Nat, Passes(k), UNCHANGED <<start, rate>>,
         NEW H \in Nat, NEW D \in Nat, Within(H, D),
         NEW T \in Nat, T = Steps(H) + k, NEW E \in Nat, E = D + k * rate,
         Bounded(T)', attempt' \notin disturbed' => Exact(T, E)'
  PROVE  \E h \in Nat, d \in Nat : Within(h, d)'
PROOF
  <1>1. Shown(H, D) /\ Drift(Steps(H), D)
    BY DEF Within
  <1>2. PICK h \in Nat, d \in Nat : /\ Shown(h, d)' /\ Drift(Steps(h), d)'
                                    /\ Steps(h)' = Steps(H) + k /\ d = D + k * rate
    BY <1>1, ShownAfter
  <1>3. Steps(h)' = T /\ d = E
    BY <1>2
  <1>4. Bounded(Steps(h))'
    BY <1>3 DEF Bounded
  <1>5. attempt' \notin disturbed' => Exact(Steps(h), d)'
    BY <1>3 DEF Exact
  <1>6. QED
    BY <1>2, <1>4, <1>5 DEF Within

(* Steps are counted. *)
LEMMA StepsType ==
  ASSUME ClockTypeOK, NEW H \in Nat
  PROVE  Steps(H) \in Nat
  BY ClockConstants DEF ClockTypeOK, Steps

(* The type invariant when a window is given up. *)
LEMMA LostType ==
  ASSUME ClockTypeOK, UNCHANGED <<rate, registers, rtcSpeed>>,
         rtc' \in 0..RtcWrap - 1, phase' \in 0..Sub - 1, stimer' \in 0..StimerWrap - 1, waited' \in Nat,
         disturbed' \subseteq 1..Attempts, pauses' \in 0..MaxPauses, NextWindow, cpc # "done"
  PROVE  ClockTypeOK'
PROOF
  <1>1. /\ cpc' \in {"start", "done"} /\ verified' = FALSE /\ attempt' \in 1..Attempts
        /\ reads' = 0 /\ polls' = 0 /\ start' \in [rtc : 0..RtcWrap - 1, stimer : 0..StimerWrap - 1]
    BY NextWindowType
  <1>2. polls' \in 0..Polls /\ reads' \in Nat
    BY <1>1, ClockConstants
  <1>3. /\ cpc' \in {"begin", "config", "start", "poll", "end", "recheck", "done"}
        /\ rate' \in Rates /\ registers' \in BOOLEAN /\ rtcSpeed' \in {0, 1, 2}
        /\ verified' \in BOOLEAN /\ (verified' => cpc' = "done")
    BY <1>1 DEF ClockTypeOK
  <1>4. QED
    BY <1>1, <1>2, <1>3 DEF ClockTypeOK

(* A read that failed, at either end of the window. *)
LEMMA NotReadStep ==
  ASSUME ClockInv, NotRead
  PROVE  ClockInv'
PROOF
  <1>1. ClockTypeOK /\ ChanceInv /\ WindowInv
    BY DEF ClockInv
  <1>2. PICK k \in Pauses \cup {0} : Waits(k + 1)
    BY DEF NotRead
  <1>3. /\ cpc \in {"start", "end"} /\ UNCHANGED <<rate, registers, rtcSpeed>> /\ Disturb
        /\ \/ /\ UNCHANGED <<cpc, start, polls, attempt, verified>> /\ reads' = reads + 1
           \/ cpc = "start" /\ NextWindow
           \/ /\ cpc = "end" /\ cpc' = "poll" /\ reads' = 0 /\ UNCHANGED <<start, polls, attempt, verified>>
    BY DEF NotRead, Reading, hardware
  <1>4. k \in Nat /\ k + 1 \in Nat /\ rate \in Nat /\ Sub \in Nat /\ cpc # "done" /\ verified = FALSE
        /\ reads \in Nat /\ polls \in 0 .. Polls /\ attempt \in 1 .. Attempts
        /\ start \in [rtc : 0..RtcWrap - 1, stimer : 0..StimerWrap - 1]
    BY <1>1, <1>3, ClockConstants DEF ClockTypeOK
  <1>5. /\ rtc' \in 0..RtcWrap - 1 /\ phase' \in 0..Sub - 1 /\ stimer' \in 0..StimerWrap - 1
        /\ waited' \in Nat /\ Passes(k + 1)
    BY <1>1, <1>2, <1>4, WaitsType
  <1>6. /\ disturbed' \subseteq 1..Attempts /\ disturbed \subseteq disturbed' /\ pauses' \in 0..MaxPauses
        /\ pauses' = pauses + 1 /\ attempt \in disturbed'
    <2>1. pauses' = pauses + 1 /\ attempt \in disturbed'
      BY <1>3 DEF Disturb
    <2>2. QED
      BY <1>1, <1>3, <2>1, PreemptionType
  <1>7. CASE cpc = "start" /\ NextWindow
    <2>1. /\ cpc' \in {"start", "done"} /\ verified' = FALSE /\ attempt' \in 1..Attempts
          /\ reads' = 0 /\ polls' = 0 /\ start' \in [rtc : 0..RtcWrap - 1, stimer : 0..StimerWrap - 1]
      BY <1>1, <1>4, <1>7, NextWindowType
    <2>2. ClockTypeOK'
      BY <1>1, <1>3, <1>4, <1>5, <1>6, <1>7, LostType
    <2>3. ChanceInv'
      BY <1>1, <1>3, <1>6, <1>7, LostWindow
    <2>4. WindowInv' /\ AccurateInv'
      BY <2>1 DEF WindowInv, AccurateInv
    <2>5. QED
      BY <2>2, <2>3, <2>4 DEF ClockInv
  <1>8. CASE /\ UNCHANGED <<start, polls, attempt, verified>> /\ reads' \in Nat
             /\ cpc' = cpc \/ (cpc = "end" /\ cpc' = "poll")
    <2>1. cpc' \in {"start", "poll", "end"}
      BY <1>3, <1>8
    <2>2. ClockTypeOK'
      BY <1>1, <1>3, <1>4, <1>5, <1>6, <1>8, <2>1 DEF ClockTypeOK
    <2>3. ChanceInv'
      BY <1>1, <1>3, <1>6, <1>8, <2>1 DEF ChanceInv
    <2>4. AccurateInv'
      BY <1>4, <1>8, <2>1 DEF AccurateInv
    <2>5. WindowInv'
      <3>1. SUFFICES ASSUME cpc' # "start", rtcSpeed = 1 PROVE \E h \in Nat, d \in Nat : Within(h, d)'
        BY <1>3, <2>1 DEF WindowInv
      <3>2. cpc = "end"
        BY <1>3, <1>8, <3>1
      <3>3. PICK H \in Nat, D \in Nat : Within(H, D)
        BY <1>1, <3>1, <3>2 DEF WindowInv
      <3>4. Steps(H) \in Nat /\ Bounded(Steps(H))
        BY <1>1, <3>3, StepsType DEF Within
      <3>5. PICK t \in Int : t = Steps(H)
        BY <3>4
      <3>6. PICK T \in Nat, E \in Nat : T = t + k + 1 /\ T = Steps(H) + (k + 1) /\ E = D + (k + 1) * rate
        BY <1>4, <3>4, <3>5
      <3>7. Bounded(t)
        BY <3>4, <3>5
      <3>8. Bounded(t + k + 1)'
        BY <1>1, <1>6, <1>8, <3>7, BoundedByRetry
      <3>9. Bounded(T)'
        BY <3>6, <3>8
      <3>10. attempt' \in disturbed'
        BY <1>6, <1>8
      <3>11. QED
        BY <1>1, <1>3, <1>4, <1>5, <1>8, <3>1, <3>3, <3>6, <3>9, <3>10, WindowGoes
    <2>6. QED
      BY <2>2, <2>3, <2>4, <2>5 DEF ClockInv
  <1>9. QED
    BY <1>3, <1>4, <1>7, <1>8

(* A millisecond more, or too many: never too many for a right clock undisturbed. *)
LEMMA PollStep ==
  ASSUME ClockInv, Poll
  PROVE  ClockInv'
PROOF
  <1>1. ClockTypeOK /\ ChanceInv /\ WindowInv
    BY DEF ClockInv
  <1>2. /\ cpc = "poll" /\ UNCHANGED <<rate, registers, rtcSpeed>>
        /\ \/ /\ polls < Polls /\ cpc' = "end" /\ polls' = polls + 1
              /\ \E k \in Pauses \cup {0} : Waits(k + 1) /\ Preempted(k)
              /\ UNCHANGED <<start, reads, attempt, verified>>
           \/ ~(polls < Polls /\ waited < PollTicks) /\ NextWindow /\ Waits(Sub) /\ Undisturbed
    BY DEF Poll, hardware
  <1>3. /\ rate \in Nat /\ Sub \in Nat \ {0} /\ verified = FALSE /\ Window \in Nat /\ Polls \in Nat /\ PollTicks \in Nat
        /\ reads \in Nat /\ polls \in 0 .. Polls /\ attempt \in 1 .. Attempts /\ waited \in Nat
        /\ start \in [rtc : 0..RtcWrap - 1, stimer : 0..StimerWrap - 1]
        /\ disturbed \subseteq 1..Attempts /\ Nominal \in Nat \ {0}
    BY <1>1, <1>2, ClockConstants DEF ClockTypeOK
  <1>4. ASSUME polls < Polls, cpc' = "end", polls' = polls + 1, UNCHANGED <<start, reads, attempt, verified>>,
               NEW k \in Pauses \cup {0}, Waits(k + 1), Preempted(k)
        PROVE  ClockInv'
    <2>1. k \in Nat /\ k + 1 \in Nat
      BY <1>4, ClockConstants
    <2>2. /\ rtc' \in 0..RtcWrap - 1 /\ phase' \in 0..Sub - 1 /\ stimer' \in 0..StimerWrap - 1
          /\ waited' \in Nat /\ Passes(k + 1) /\ waited' = waited + (k + 1) * rate
      BY <1>1, <1>4, <2>1, WaitsType
    <2>3. /\ disturbed' \subseteq 1..Attempts /\ disturbed \subseteq disturbed' /\ pauses' \in 0..MaxPauses
          /\ \/ k = 0 /\ pauses' = pauses
             \/ pauses' = pauses + 1 /\ attempt \in disturbed'
      BY <1>1, <1>4, PreemptionType
    <2>4. polls' \in 0 .. Polls
      BY <1>3, <1>4
    <2>5. ClockTypeOK'
      BY <1>1, <1>2, <1>3, <1>4, <2>2, <2>3, <2>4 DEF ClockTypeOK
    <2>6. ChanceInv'
      BY <1>1, <1>2, <1>4, <2>3 DEF ChanceInv
    <2>7. AccurateInv'
      BY <1>3, <1>4 DEF AccurateInv
    <2>8. WindowInv'
      <3>1. SUFFICES ASSUME rtcSpeed = 1 PROVE \E h \in Nat, d \in Nat : Within(h, d)'
        BY <1>2 DEF WindowInv
      <3>2. PICK H \in Nat, D \in Nat : Within(H, D)
        BY <1>1, <1>2, <3>1 DEF WindowInv
      <3>3. Steps(H) \in Nat /\ Bounded(Steps(H))
        BY <1>1, <3>2, StepsType DEF Within
      <3>4. PICK t \in Int : t = Steps(H) /\ t \in Nat
        BY <3>3
      <3>5. PICK T \in Nat, E \in Nat : T = t + k + 1 /\ T = Steps(H) + (k + 1) /\ E = D + (k + 1) * rate
        BY <1>3, <2>1, <3>3, <3>4
      <3>6. Bounded(t)
        BY <3>3, <3>4
      <3>7. Bounded(t + k + 1)'
        BY <1>1, <1>4, <2>3, <3>6, BoundedAfter
      <3>8. Bounded(T)'
        BY <3>5, <3>7
      <3>9. attempt' \notin disturbed' => Exact(T, E)'
        <4>1. SUFFICES ASSUME attempt' \notin disturbed' PROVE Exact(T, E)'
          OBVIOUS
        <4>2. k = 0 /\ attempt \notin disturbed
          BY <1>4, <2>3, <4>1
        <4>3. /\ t - polls \in 0..Sub - 1 /\ D = rate * polls /\ waited = rate * polls
              /\ t < Sub * Window
          BY <1>2, <3>2, <3>4, <4>2 DEF Within, Exact
        <4>4. T = t + 1 /\ E = D + rate /\ waited' = waited + rate
          BY <1>3, <2>2, <3>5, <4>2
        <4>5. rate * (polls + 1) = rate * polls + rate /\ Sub * Window \in Nat
          BY <1>3
        <4>6. /\ T - (polls + 1) \in 0..Sub - 1 /\ E = rate * (polls + 1) /\ waited' = rate * (polls + 1)
              /\ T <= Sub * Window
          BY <1>3, <4>3, <4>4, <4>5
        <4>7. QED
          BY <1>2, <1>4, <4>6 DEF Exact
      <3>10. QED
        BY <1>1, <1>2, <1>4, <2>1, <2>2, <3>1, <3>2, <3>5, <3>8, <3>9, WindowGoes
    <2>9. QED
      BY <2>5, <2>6, <2>7, <2>8 DEF ClockInv
  <1>5. ASSUME ~(polls < Polls /\ waited < PollTicks), NextWindow, Waits(Sub), Undisturbed
        PROVE  ClockInv'
    <2>1. /\ rtc' \in 0..RtcWrap - 1 /\ phase' \in 0..Sub - 1 /\ stimer' \in 0..StimerWrap - 1
          /\ waited' \in Nat
      BY <1>1, <1>3, <1>5, WaitsType
    <2>2. disturbed' = disturbed /\ pauses' = pauses
      BY <1>5 DEF Undisturbed
    <2>3. /\ cpc' \in {"start", "done"} /\ verified' = FALSE /\ attempt' \in 1..Attempts
          /\ reads' = 0 /\ polls' = 0 /\ start' \in [rtc : 0..RtcWrap - 1, stimer : 0..StimerWrap - 1]
      BY <1>1, <1>2, <1>5, NextWindowType
    <2>4. ClockTypeOK'
      <3>1. disturbed' \subseteq 1..Attempts /\ pauses' \in 0..MaxPauses /\ cpc # "done"
        BY <1>1, <1>2, <2>2 DEF ClockTypeOK
      <3>2. QED
        BY <1>1, <1>2, <1>5, <2>1, <3>1, LostType
    <2>5. rate = Nominal /\ rtcSpeed = 1 /\ registers => attempt \in disturbed'
      <3>1. SUFFICES ASSUME rate = Nominal, rtcSpeed = 1, attempt \notin disturbed PROVE FALSE
        BY <2>2
      <3>2. PICK H \in Nat, D \in Nat : Within(H, D)
        BY <1>1, <1>2, <3>1 DEF WindowInv
      <3>3. PICK t \in Nat : t = Steps(H)
        BY <1>1, StepsType
      <3>4. t - polls \in 0..Sub - 1 /\ waited = rate * polls /\ t < Sub * Window
        BY <1>2, <3>1, <3>2, <3>3 DEF Within, Exact
      <3>5. Sub * Window \in Nat /\ polls \in Nat
        BY <1>3
      <3>6. polls < Sub * Window
        BY <1>3, <3>3, <3>4, <3>5
      <3>7. Sub * Window <= Polls /\ Nominal * (Sub * Window) <= PollTicks
        BY ClockAssumption
      <3>8. Nominal * polls < Nominal * (Sub * Window) /\ Nominal * polls \in Nat /\ Nominal * (Sub * Window) \in Nat
        <4>1. Nominal * (polls + 1) <= Nominal * (Sub * Window) /\ Nominal * (polls + 1) = Nominal * polls + Nominal
              /\ Nominal * polls \in Nat /\ Nominal * (Sub * Window) \in Nat
          BY <1>3, <3>5, <3>6
        <4>2. QED
          BY <1>3, <4>1
      <3>9. QED
        BY <1>3, <1>5, <3>1, <3>4, <3>5, <3>6, <3>7, <3>8
    <2>6. ChanceInv'
      BY <1>1, <1>2, <1>3, <1>5, <2>2, <2>5, LostWindow
    <2>7. WindowInv' /\ AccurateInv'
      BY <2>3 DEF WindowInv, AccurateInv
    <2>8. QED
      BY <2>4, <2>6, <2>7 DEF ClockInv
  <1>6. QED
    BY <1>2, <1>4, <1>5

(* An undisturbed window that a right clock has completed is accepted. *)
LEMMA RightIsAccepted ==
  ASSUME ClockTypeOK, rate = Nominal, NEW T \in Nat, NEW D \in Nat, NEW H \in Nat, Exact(T, D),
         H >= Window, Sub * H <= T
  PROVE  H = Window /\ InTolerance(D, H)
PROOF
  <1>1. /\ Sub \in Nat \ {0} /\ Nominal \in Nat \ {0} /\ Window \in Nat \ {0} /\ Tolerance \in Nat /\ Parts \in Nat /\ polls \in Nat
    BY ClockConstants DEF ClockTypeOK
  <1>2. T - polls \in 0..Sub - 1 /\ D = Nominal * polls /\ T <= Sub * Window
    BY DEF Exact
  <1>3. /\ Sub * Window <= Sub * H /\ Sub * Window \in Nat /\ Sub * H \in Nat
    BY <1>1
  <1>4. T = Sub * Window /\ Sub * H = Sub * Window
    BY <1>1, <1>2, <1>3
  <1>5. H = Window
    <2>1. SUFFICES ASSUME H >= Window + 1 PROVE FALSE
      BY <1>1
    <2>2. Sub * (Window + 1) <= Sub * H /\ Sub * (Window + 1) = Sub * Window + Sub
      BY <1>1, <2>1
    <2>3. QED
      BY <1>1, <1>3, <1>4, <2>2
  <1> DEFINE expected == H * Sub * Nominal
             error == IF D > expected THEN D - expected ELSE expected - D
  <1>6. PICK p \in 0 .. Sub - 1 : p = Sub * Window - polls
    BY <1>2, <1>4
  <1>7. expected = Nominal * (Sub * Window) /\ expected \in Nat \ {0}
    BY <1>1, <1>5
  <1>8. expected - D = Nominal * p /\ Nominal * p \in Nat
    <2>1. polls = Sub * Window - p /\ p \in Nat
      BY <1>1, <1>3, <1>6
    <2>2. Nominal * (Sub * Window - p) = Nominal * (Sub * Window) - Nominal * p /\ Nominal * p \in Nat
          /\ Nominal * (Sub * Window) \in Nat
      BY <1>1, <1>3, <2>1
    <2> HIDE DEF expected
    <2>3. QED
      BY <1>2, <1>7, <2>1, <2>2
  <1> HIDE DEF expected
  <1>9. error = Nominal * p
    BY <1>7, <1>8
  <1>10. Parts * error <= Tolerance * expected /\ Parts * error \in Nat
    <2>1. Parts * (Sub - 1) <= Tolerance * (Sub * Window)
      BY ClockAssumption
    <2>2. Parts * p <= Tolerance * (Sub * Window) /\ Parts * p \in Nat /\ Tolerance * (Sub * Window) \in Nat
      BY <1>1, <1>3, <1>6, <2>1
    <2>3. PICK a \in Nat, b \in Nat : a = Parts * p /\ b = Tolerance * (Sub * Window) /\ a <= b
      BY <2>2
    <2>4. Nominal * a <= Nominal * b /\ Nominal * a \in Nat
      BY <1>1, <2>3
    <2>5. Nominal * a = Parts * (Nominal * p)
      BY <1>1, <1>6, <2>3
    <2>6. Nominal * b = Tolerance * (Nominal * (Sub * Window))
      BY <1>1, <1>3, <2>3
    <2>7. QED
      BY <1>7, <1>9, <2>4, <2>5, <2>6
  <1> HIDE DEF error
  <1>11. (Parts * error) \div expected <= Tolerance
    BY <1>1, <1>7, <1>10, QuotientSmall
  <1>12. InTolerance(D, H)
    BY <1>11 DEF InTolerance, expected, error
  <1>13. QED
    BY <1>5, <1>12

(* What a measured window says that is long enough and accepted. *)
LEMMA MeasuredIsAccurate ==
  ASSUME ClockTypeOK, NEW s, NEW h \in Nat, NEW d \in Nat, NEW T \in Nat, Measured(s, h, d, T),
         h >= Window, InTolerance(d, h)
  PROVE  Accurate
PROOF
  <1>1. rate \in Nat /\ Sub \in Nat \ {0} /\ SpanLimit \in Nat
    BY ClockConstants DEF ClockTypeOK
  <1>2. /\ Sub * h <= T /\ T <= Sub * h + Sub - 1 /\ Sub * h \in Nat
        /\ d - rate * T <= SpanLimit /\ rate * T - d <= rate * (Sub - 1) + SpanLimit
    BY <1>1 DEF Measured
  <1>3. PICK m \in Nat : m = Sub * h
    BY <1>2
  <1>4. rate * m <= rate * T /\ rate * T <= rate * (m + (Sub - 1)) /\ rate * m \in Nat /\ rate * T \in Nat
    BY <1>1, <1>2, <1>3
  <1>5. rate * (m + (Sub - 1)) = rate * m + rate * (Sub - 1) /\ rate * (Sub - 1) \in Nat
    BY <1>1
  <1>6. /\ d <= rate * m + rate * (Sub - 1) + SpanLimit
        /\ d >= rate * m - rate * (Sub - 1) - SpanLimit
    BY <1>1, <1>2, <1>4, <1>5
  <1>7. QED
    BY <1>1, <1>3, <1>6, AcceptedIsAccurate

(* What the end of a window reads, with the crystal working. *)
LEMMA EndSeen ==
  ASSUME ClockTypeOK, rtcSpeed = 1, NEW H \in Nat, NEW D \in Nat, Within(H, D),
         NEW k \in Pauses \cup {0}, NEW late \in BOOLEAN, SampleOk(k * rate), Preempted(k)
  PROVE  \E h \in Nat, d \in Nat, T \in Nat :
           /\ Measured(Sample(k, late), h, d, T)
           /\ T <= Sub - 1 + Polls + MaxPauses * (Longest + 1)
           /\ k = 0 => h = H /\ d = D
PROOF
  <1>1. k \in Nat /\ k <= Longest /\ Longest \in Nat
    BY LongestIs, ClockConstants
  <1>2. Shown(H, D) /\ Drift(Steps(H), D) /\ Bounded(Steps(H))
    BY DEF Within
  <1>3. PICK h \in Nat, d \in Nat, T \in Nat :
          /\ Measured(Sample(k, late), h, d, T) /\ T <= Steps(H) + k
          /\ k = 0 => h = H /\ d = D
    BY <1>1, <1>2, SampleSeen
  <1>4. Steps(H) \in Nat /\ Steps(H) <= Sub - 1 + polls + pauses * (Longest + 1)
    BY <1>2, StepsType DEF Bounded
  <1>5. /\ polls \in Nat /\ polls <= Polls /\ Polls \in Nat /\ pauses \in Nat /\ pauses <= MaxPauses
        /\ MaxPauses \in Nat /\ Sub \in Nat
    BY ClockConstants DEF ClockTypeOK
  <1>6. pauses * (Longest + 1) + k <= MaxPauses * (Longest + 1)
    <2>1. pauses * (Longest + 1) <= MaxPauses * (Longest + 1) /\ pauses * (Longest + 1) \in Nat
          /\ MaxPauses * (Longest + 1) \in Nat
      BY <1>1, <1>5
    <2>2. CASE k = 0
      BY <2>1, <2>2
    <2>3. CASE pauses < MaxPauses
      <3>1. (pauses + 1) * (Longest + 1) <= MaxPauses * (Longest + 1)
        BY <1>1, <1>5, <2>3
      <3>2. (pauses + 1) * (Longest + 1) = pauses * (Longest + 1) + Longest + 1
        BY <1>1, <1>5
      <3>3. QED
        BY <1>1, <2>1, <3>1, <3>2
    <2>4. QED
      BY <2>2, <2>3 DEF Preempted, Disturb
  <1>7. pauses * (Longest + 1) \in Nat /\ MaxPauses * (Longest + 1) \in Nat
    BY <1>1, <1>5
  <1>8. T <= Sub - 1 + Polls + MaxPauses * (Longest + 1)
    BY <1>1, <1>3, <1>4, <1>5, <1>6, <1>7
  <1>9. QED
    BY <1>3, <1>8

(* The sample of a poll: not yet over, accepted or lost. *)
LEMMA ReadEndStep ==
  ASSUME ClockInv, ReadEnd
  PROVE  ClockInv'
PROOF
  <1>1. ClockTypeOK /\ ChanceInv /\ WindowInv
    BY DEF ClockInv
  <1>2. PICK k \in Pauses \cup {0}, late \in BOOLEAN :
          LET s == Sample(k, late)
              hundredths == Elapsed(s)
              ticks == (s.stimer - start.stimer) % StimerWrap
          IN  /\ SampleOk(k * rate) /\ (late => k > 0) /\ Preempted(k)
              /\ IF hundredths < Window
                 THEN cpc' = "poll" /\ Waits(k) /\ UNCHANGED <<start, polls, attempt, verified>>
                 ELSE IF hundredths <= WindowMax /\ InTolerance(ticks, hundredths)
                 THEN cpc' = "recheck" /\ Waits(k) /\ UNCHANGED <<start, polls, attempt, verified>>
                 ELSE NextWindow /\ Waits(k + Sub)
    BY DEF ReadEnd
  <1> DEFINE s == Sample(k, late)
             e == Elapsed(s)
             ticks == (s.stimer - start.stimer) % StimerWrap
  <1>3. /\ SampleOk(k * rate) /\ Preempted(k)
        /\ \/ e < Window /\ cpc' = "poll" /\ Waits(k) /\ UNCHANGED <<start, polls, attempt, verified>>
           \/ /\ ~(e < Window) /\ e <= WindowMax /\ InTolerance(ticks, e)
              /\ cpc' = "recheck" /\ Waits(k) /\ UNCHANGED <<start, polls, attempt, verified>>
           \/ /\ ~(e < Window) /\ ~(e <= WindowMax /\ InTolerance(ticks, e))
              /\ NextWindow /\ Waits(k + Sub)
    BY <1>2
  <1>4. cpc = "end" /\ reads' = 0 /\ UNCHANGED <<rate, registers, rtcSpeed>>
    BY DEF ReadEnd, Reading, hardware
  <1> HIDE DEF s, e, ticks
  <1>5. /\ rate \in Nat /\ Sub \in Nat \ {0} /\ verified = FALSE /\ Window \in Nat /\ WindowMax \in Nat /\ Window <= WindowMax
        /\ Window < RtcWrap /\ RtcWrap \in Nat /\ polls \in 0 .. Polls /\ attempt \in 1 .. Attempts /\ waited \in Nat
        /\ start \in [rtc : 0..RtcWrap - 1, stimer : 0..StimerWrap - 1]
        /\ k \in Nat /\ k + Sub \in Nat
    BY <1>1, <1>4, ClockConstants DEF ClockTypeOK
  <1>6. /\ disturbed' \subseteq 1..Attempts /\ disturbed \subseteq disturbed' /\ pauses' \in 0..MaxPauses
        /\ \/ k = 0 /\ pauses' = pauses
           \/ pauses' = pauses + 1 /\ attempt \in disturbed'
    BY <1>1, <1>3, PreemptionType
  <1>7. ASSUME cpc' \in {"poll", "recheck"}, Waits(k), UNCHANGED <<start, polls, attempt, verified>>
        PROVE  ClockTypeOK' /\ ChanceInv' /\ Passes(k) /\ waited' = waited + k * rate
    <2>1. /\ rtc' \in 0..RtcWrap - 1 /\ phase' \in 0..Sub - 1 /\ stimer' \in 0..StimerWrap - 1
          /\ waited' \in Nat /\ Passes(k) /\ waited' = waited + k * rate
      BY <1>1, <1>5, <1>7, WaitsType
    <2>2. ClockTypeOK'
      BY <1>1, <1>4, <1>5, <1>6, <1>7, <2>1 DEF ClockTypeOK
    <2>3. ChanceInv'
      BY <1>1, <1>4, <1>6, <1>7 DEF ChanceInv
    <2>4. QED
      BY <2>1, <2>2, <2>3
  <1>8. ASSUME rtcSpeed = 1
        PROVE  \E H \in Nat, D \in Nat, h \in Nat, d \in Nat, T \in Nat :
                 /\ Within(H, D) /\ Measured(s, h, d, T)
                 /\ k = 0 => h = H /\ d = D
                 /\ h < Window => e < Window
                 /\ e >= Window => e = h
                 /\ h < RtcWrap => e = h
                 /\ h <= WindowMax => ticks = d
                 /\ e \in Nat
    <2>1. PICK H \in Nat, D \in Nat : Within(H, D)
      BY <1>1, <1>4, <1>8 DEF WindowInv
    <2>2. PICK h \in Nat, d \in Nat, T \in Nat :
           /\ Measured(s, h, d, T)
           /\ T <= Sub - 1 + Polls + MaxPauses * (Longest + 1)
           /\ k = 0 => h = H /\ d = D
      BY <1>1, <1>3, <1>8, <2>1, EndSeen DEF s
    <2>3. /\ h < Window => e < Window
          /\ e >= Window => e = h
          /\ h < RtcWrap => e = h
          /\ h <= WindowMax => ticks = d
          /\ e \in Nat
      BY <1>1, <2>2, MeasuredIs DEF e, ticks
    <2>4. QED
      BY <2>1, <2>2, <2>3
  (* The window is not over yet. *)
  <1>9. CASE e < Window /\ cpc' = "poll" /\ Waits(k) /\ UNCHANGED <<start, polls, attempt, verified>>
    <2>1. ClockTypeOK' /\ ChanceInv' /\ Passes(k) /\ waited' = waited + k * rate
      BY <1>7, <1>9
    <2>2. AccurateInv'
      BY <1>5, <1>9 DEF AccurateInv
    <2>3. WindowInv'
      <3>1. SUFFICES ASSUME rtcSpeed = 1 PROVE \E h \in Nat, d \in Nat : Within(h, d)'
        BY <1>4 DEF WindowInv
      <3>2. PICK H \in Nat, D \in Nat, h \in Nat, d \in Nat, T0 \in Nat :
                 /\ Within(H, D) /\ (k = 0 => h = H /\ d = D) /\ (h < RtcWrap => e = h)
        BY <1>8, <3>1
      <3>3. Steps(H) \in Nat /\ Bounded(Steps(H))
        BY <1>1, <3>2, StepsType DEF Within
      <3>4. PICK t \in Int : t = Steps(H) /\ t \in Nat
        BY <3>3
      <3>5. PICK T \in Nat, E \in Nat : T = t + k + 0 /\ T = Steps(H) + k /\ E = D + k * rate
        BY <1>5, <3>3, <3>4
      <3>6. Bounded(t)
        BY <3>3, <3>4
      <3>7. polls' = polls + 0
        BY <1>5, <1>9 DEF ClockTypeOK
      <3>8. Bounded(t + k + 0)'
        BY <1>1, <1>6, <3>6, <3>7, BoundedAfter
      <3>9. Bounded(T)'
        BY <3>5, <3>8
      <3>10. attempt' \notin disturbed' => Exact(T, E)'
        <4>1. SUFFICES ASSUME attempt' \notin disturbed' PROVE Exact(T, E)'
          OBVIOUS
        <4>2. k = 0 /\ attempt \notin disturbed
          BY <1>6, <1>9, <4>1
        <4>3. /\ t - polls \in 0..Sub - 1 /\ D = rate * polls /\ waited = rate * polls
              /\ t <= Sub * Window
          BY <3>2, <3>4, <4>2 DEF Within, Exact
        <4>4. T = t /\ E = D /\ waited' = waited
          BY <1>5, <2>1, <3>5, <4>2
        <4>5. t < Sub * Window
          <5>1. Sub * H <= t /\ t <= Sub * H + Sub - 1 /\ Sub * H \in Nat
            BY <1>1, <1>5, <3>4 DEF Steps, ClockTypeOK
          <5>2. H <= Window
            <6>1. SUFFICES ASSUME H >= Window + 1 PROVE FALSE
              BY <1>5
            <6>2. Sub * (Window + 1) <= Sub * H /\ Sub * (Window + 1) = Sub * Window + Sub /\ Sub * Window \in Nat
              BY <1>5, <6>1
            <6>3. QED
              BY <1>5, <4>3, <5>1, <6>2
          <5>3. H + 1 <= Window
            BY <1>5, <1>9, <3>2, <4>2, <5>2
          <5>4. Sub * (H + 1) <= Sub * Window /\ Sub * (H + 1) = Sub * H + Sub /\ Sub * Window \in Nat
            BY <1>5, <5>3
          <5>5. QED
            BY <1>5, <5>1, <5>4
        <4>6. QED
          BY <1>4, <1>9, <4>3, <4>4, <4>5 DEF Exact
      <3>11. QED
        BY <1>1, <1>4, <1>5, <1>9, <2>1, <3>1, <3>2, <3>5, <3>9, <3>10, WindowGoes
    <2>4. QED
      BY <2>1, <2>2, <2>3 DEF ClockInv
  (* It is over, and accepted. *)
  <1>10. CASE /\ ~(e < Window) /\ e <= WindowMax /\ InTolerance(ticks, e)
              /\ cpc' = "recheck" /\ Waits(k) /\ UNCHANGED <<start, polls, attempt, verified>>
    <2>1. ClockTypeOK' /\ ChanceInv'
      BY <1>7, <1>10
    <2>2. WindowInv'
      BY <1>10 DEF WindowInv
    <2>3. AccurateInv'
      <3>1. SUFFICES ASSUME rtcSpeed = 1 PROVE Accurate'
        BY <1>4, <1>5, <1>10 DEF AccurateInv
      <3>2. PICK h \in Nat, d \in Nat, T \in Nat :
                 /\ Measured(s, h, d, T) /\ e \in Nat /\ (e >= Window => e = h) /\ (h <= WindowMax => ticks = d)
        BY <1>8, <3>1
      <3>3. e = h /\ ticks = d /\ h >= Window
        BY <1>5, <1>10, <3>2
      <3>4. Accurate
        BY <1>1, <1>10, <3>2, <3>3, MeasuredIsAccurate
      <3>5. QED
        BY <1>4, <3>4, AccurateStays
    <2>4. QED
      BY <2>1, <2>2, <2>3 DEF ClockInv
  (* It is over, and lost. *)
  <1>11. CASE /\ ~(e < Window) /\ ~(e <= WindowMax /\ InTolerance(ticks, e))
              /\ NextWindow /\ Waits(k + Sub)
    <2>1. /\ rtc' \in 0..RtcWrap - 1 /\ phase' \in 0..Sub - 1 /\ stimer' \in 0..StimerWrap - 1
          /\ waited' \in Nat
      BY <1>1, <1>5, <1>11, WaitsType
    <2>2. ClockTypeOK'
      BY <1>1, <1>4, <1>6, <1>11, <2>1, LostType
    <2>3. rate = Nominal /\ rtcSpeed = 1 /\ registers => attempt \in disturbed'
      <3>1. SUFFICES ASSUME rate = Nominal, rtcSpeed = 1, attempt \notin disturbed' PROVE FALSE
        OBVIOUS
      <3>2. k = 0 /\ attempt \notin disturbed
        BY <1>6, <3>1
      <3>3. PICK h \in Nat, d \in Nat :
              /\ Within(h, d) /\ e \in Nat /\ (e >= Window => e = h) /\ (h <= WindowMax => ticks = d)
        BY <1>8, <3>1, <3>2
      <3>4. e = h /\ h >= Window
        BY <1>5, <1>11, <3>3
      <3>5. PICK T \in Nat : T = Steps(h)
        BY <1>1, StepsType
      <3>6. Exact(T, d)
        BY <3>2, <3>3, <3>5 DEF Within
      <3>7. Sub * h <= T
        <4>1. Sub * h \in Nat /\ phase \in Nat /\ T = Sub * h + phase
          BY <1>1, <1>5, <3>5 DEF Steps, ClockTypeOK
        <4>2. QED
          BY <4>1
      <3>8. h = Window /\ InTolerance(d, h)
        BY <1>1, <3>1, <3>4, <3>6, <3>7, RightIsAccepted
      <3>9. QED
        BY <1>5, <1>11, <3>3, <3>4, <3>8
    <2>4. ChanceInv'
      BY <1>1, <1>4, <1>6, <1>11, <2>3, LostWindow
    <2>5. WindowInv' /\ AccurateInv'
      <3>1. cpc' \in {"start", "done"} /\ verified' = FALSE
        BY <1>1, <1>4, <1>11, NextWindowType
      <3>2. QED
        BY <3>1 DEF WindowInv, AccurateInv
    <2>6. QED
      BY <2>2, <2>4, <2>5 DEF ClockInv
  <1>12. QED
    BY <1>3, <1>9, <1>10, <1>11

-----------------------------------------------------------------------------
(* The counters of the check are let go, its verdict is not. *)
LEMMA ServiceStartStep ==
  ASSUME ClockInv, LwServiceStart
  PROVE  ClockInv'
PROOF
  <1>1. ClockTypeOK /\ AccurateInv
    BY DEF ClockInv
  <1>2. /\ cpc = "done" /\ verified /\ rtc' = 0 /\ phase' = 0 /\ stimer' = 0 /\ start' = NoSample /\ reads' = 0
        /\ polls' = 0 /\ waited' = 0 /\ attempt' = 1 /\ disturbed' = {} /\ pauses' = 0
        /\ UNCHANGED <<cpc, rate, registers, rtcSpeed, verified>>
    BY DEF LwServiceStart
  <1>3. /\ 0 \in 0..RtcWrap - 1 /\ 0 \in 0..Sub - 1 /\ 0 \in 0..StimerWrap - 1 /\ 0 \in 0..Polls /\ 1 \in 1..Attempts
        /\ 0 \in 0..MaxPauses /\ 0 \in Nat
    BY ClockConstants
  <1>4. NoSample \in [rtc : 0..RtcWrap - 1, stimer : 0..StimerWrap - 1]
    BY <1>3 DEF NoSample
  <1>5. ClockTypeOK'
    BY <1>1, <1>2, <1>3, <1>4 DEF ClockTypeOK
  <1>6. WindowInv'
    BY <1>2 DEF WindowInv
  <1>7. ChanceInv'
    <2>1. 1..1 - 1 = {}
      OBVIOUS
    <2>2. QED
      BY <1>2, <2>1 DEF ChanceInv
  <1>8. AccurateInv'
    BY <1>1, <1>2, AccurateStays DEF AccurateInv
  <1>9. QED
    BY <1>5, <1>6, <1>7, <1>8 DEF ClockInv

(* Everything else leaves the clock alone. *)
LEMMA ClockStays ==
  ASSUME ClockInv, UNCHANGED clock
  PROVE  ClockInv'
PROOF
  <1>1. UNCHANGED <<cpc, rate, registers, rtcSpeed, rtc, phase, stimer, start, reads, polls, waited, attempt,
                    verified, disturbed, pauses>>
    BY DEF clock
  <1>2. ClockTypeOK'
    BY <1>1 DEF ClockInv, ClockTypeOK
  <1>3. ChanceInv'
    BY <1>1 DEF ClockInv, ChanceInv
  <1>4. AccurateInv'
    BY <1>1, AccurateStays DEF ClockInv, AccurateInv
  <1>5. WindowInv'
    <2>1. SUFFICES ASSUME cpc \in {"poll", "end"}, rtcSpeed = 1 PROVE \E H \in Nat, D \in Nat : Within(H, D)'
      BY <1>1 DEF WindowInv
    <2>2. PICK H \in Nat, D \in Nat : Within(H, D)
      BY <2>1 DEF ClockInv, WindowInv
    <2>3. Within(H, D)'
      BY <1>1, <2>2 DEF Within, Shown, Steps, Drift, Bounded, Exact
    <2>4. QED
      BY <2>3
  <1>6. QED
    BY <1>2, <1>3, <1>4, <1>5 DEF ClockInv

(* The start of clockBegin. *)
THEOREM InitClockInv == Init => ClockInv
PROOF
  <1> SUFFICES ASSUME ClockInit PROVE ClockInv
    BY DEF Init
  <1>1. /\ cpc = "begin" /\ rate \in Rates /\ registers \in BOOLEAN /\ rtcSpeed = 1
        /\ start = NoSample /\ reads = 0 /\ polls = 0 /\ waited = 0 /\ attempt = 1
        /\ verified = FALSE /\ disturbed = {} /\ pauses = 0
    BY DEF ClockInit
  <1>2. /\ 0 \in 0..RtcWrap - 1 /\ 0 \in 0..StimerWrap - 1 /\ 0 \in 0..Polls /\ 1 \in 1..Attempts
        /\ 0 \in 0..MaxPauses /\ 0 \in Nat
    BY ClockConstants
  <1>3. rtc \in 0..RtcWrap - 1 /\ phase \in 0..Sub - 1 /\ stimer \in 0..StimerWrap - 1
    BY ClockAssumption DEF ClockInit
  <1>4. NoSample \in [rtc : 0..RtcWrap - 1, stimer : 0..StimerWrap - 1]
    BY <1>2 DEF NoSample
  <1>5. ClockTypeOK
    BY <1>1, <1>2, <1>3, <1>4 DEF ClockTypeOK
  <1>6. 1..1 - 1 = {}
    OBVIOUS
  <1>7. WindowInv /\ ChanceInv /\ AccurateInv
    BY <1>1, <1>6 DEF WindowInv, ChanceInv, AccurateInv
  <1>8. QED
    BY <1>5, <1>7 DEF ClockInv

(* No step of bring-up breaks it: the check, the crystal, the radio or its pin. *)
THEOREM NextClockInv == ClockInv /\ [Next]_vars => ClockInv'
PROOF
  <1> SUFFICES ASSUME ClockInv, [Next]_vars PROVE ClockInv'
    OBVIOUS
  <1>1. CASE ClockNext
    BY <1>1, XtalFailsStep, AdjustStep, CheckConfigurationStep, NotReadStep, ReadStartStep, PollStep, ReadEndStep,
       RecheckStep DEF ClockNext, ClockStep
  <1>2. CASE LwServiceStart
    BY <1>2, ServiceStartStep
  <1>3. CASE UNCHANGED clock
    BY <1>3, ClockStays
  <1>4. QED
    BY <1>1, <1>2, <1>3 DEF Next, ManagerFault, Faulted, vars

(* The invariant has the property as two of its parts. *)
THEOREM ClockInvImplies == ClockInv => VerifiedIsAccurate
  BY DEF ClockInv, AccurateInv, ChanceInv, VerifiedIsAccurate, XtalFailure

(* clockBegin reports a verified clock only if the rate of HFRC is within the  *)
(* tolerance, whatever wraps, preempts or fails; and it refuses a right clock   *)
(* only if something came in between in every one of its windows.             *)
THEOREM VerifiedClocksAreAccurate == FairSpec => []VerifiedIsAccurate
  <1>1. Init /\ [][Next]_vars => []VerifiedIsAccurate
    BY InitClockInv, NextClockInv, ClockInvImplies, PTL
  <1>2. QED
    BY <1>1, PTL DEF FairSpec
=============================================================================
