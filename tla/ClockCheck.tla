----------------------------- MODULE ClockCheck -----------------------------
(***************************************************************************)
(* clockBegin of core_service.cpp: the crystal is started and selected, the  *)
(* oscillator HFRC adjusted to it, and then their rates are compared, STIMER  *)
(* (HFRC) against the RTC (crystal).  Time passes in steps of 1/Sub hundredth *)
(* of a second of true time; STIMER counts rate ticks in one.  Both counters  *)
(* wrap.  A read can be preempted, a hardware call can fail, the crystal can  *)
(* fail at any moment and leave the RTC to a crude oscillator, or stopped.    *)
(***************************************************************************)
EXTENDS Integers, FiniteSets

CONSTANTS
  Sub, Nominal,          \* steps per hundredth; STIMER ticks per step of a correct clock
  Rates,                 \* what HFRC really does after the adjustment
  Tolerance, Parts,      \* 2000 in 1000000
  Window, WindowMax,     \* 2000 and 2100 hundredths
  RtcWrap, StimerWrap,   \* 360000 hundredths, 2^32 ticks
  SpanLimit,             \* 6000 ticks
  Reads, Attempts,       \* 5 reads of a sample, 3 windows
  Polls, PollTicks,      \* 30000 polls, and 30000 ms counted by HFRC
  Pauses, MaxPauses,     \* lengths of a preemption, in steps; bound: how often one comes
  Starts                 \* bound: [rtc, stimer] at the first sample

(* No window is so long that the RTC comes round to it again, and STIMER does  *)
(* not come round in one that is accepted; and a right clock has polls, time    *)
(* and tolerance enough for a window that nothing disturbs.                   *)
ASSUME ClockAssumption ==
  /\ Sub \in Nat \ {0} /\ Nominal \in Nat \ {0} /\ Rates \subseteq Nat \ {0}
  /\ Window \in Nat \ {0} /\ WindowMax \in Nat /\ Window <= WindowMax
  /\ Tolerance \in Nat /\ Parts \in Nat \ {0}
  /\ RtcWrap \in Nat /\ Window < RtcWrap /\ StimerWrap \in Nat \ {0} /\ SpanLimit \in Nat
  /\ Reads \in Nat \ {0} /\ Attempts \in Nat \ {0} /\ Polls \in Nat /\ PollTicks \in Nat
  /\ Pauses \subseteq Nat /\ MaxPauses \in Nat
  /\ Starts \subseteq [rtc : 0..RtcWrap - 1, stimer : 0..StimerWrap - 1]
  /\ \E k \in Pauses \cup {0} : /\ \A p \in Pauses : p <= k
                              /\ Sub + Polls + MaxPauses * (k + 1) <= Sub * (RtcWrap + Window)
  /\ \A r \in Rates, p \in Pauses : r * p < StimerWrap
  /\ \A r \in Rates : r * (Sub * (WindowMax + 1) - 1) + SpanLimit < StimerWrap
  /\ Sub * Window <= Polls /\ Nominal * (Sub * Window) <= PollTicks
  /\ Parts * (Sub - 1) <= Tolerance * (Sub * Window)

VARIABLES
  cpc,                   \* begin, config, start, poll, end, recheck, done
  rate, registers,       \* hardware: HFRC ticks per step; what clockCheckConfiguration reads
  rtcSpeed,              \* steps that the RTC counts in a step: 1 from a crystal that works
  rtc, phase, stimer,    \* the counters; phase is the step within a hundredth
  start,                 \* the first sample of the window
  reads, polls, waited, attempt,
  verified,
  disturbed, pauses      \* history: the windows in which something came in between, how often
clock == <<cpc, rate, registers, rtcSpeed, rtc, phase, stimer, start, reads, polls, waited, attempt,
           verified, disturbed, pauses>>
hardware == <<rate, registers>>

XtalFailure == rtcSpeed # 1
NoSample == [rtc |-> 0, stimer |-> 0]

ClockInit ==
  /\ cpc = "begin" /\ rate \in Rates /\ registers \in BOOLEAN /\ rtcSpeed = 1
  /\ \E s \in Starts, p \in 0..Sub - 1 : rtc = s.rtc /\ stimer = s.stimer /\ phase = p
  /\ start = NoSample /\ reads = 0 /\ polls = 0 /\ waited = 0 /\ attempt = 1
  /\ verified = FALSE /\ disturbed = {} /\ pauses = 0

(* k steps of true time. *)
Passes(k) ==
  LET steps == phase + k * rtcSpeed
  IN  /\ phase' = steps % Sub /\ rtc' = (rtc + steps \div Sub) % RtcWrap
      /\ stimer' = (stimer + k * rate) % StimerWrap
Stays == UNCHANGED <<rtc, phase, stimer>>
Waits(k) == Passes(k) /\ waited' = waited + k * rate
Undisturbed == UNCHANGED <<disturbed, pauses>>
Disturb == /\ pauses < MaxPauses
           /\ disturbed' = disturbed \cup {attempt} /\ pauses' = pauses + 1
Preempted(k) == IF k = 0 THEN Undisturbed ELSE Disturb

(* The crystal fails: HFRC is no longer corrected, the RTC runs from another   *)
(* oscillator or stops.                                                      *)
XtalFails == /\ rtcSpeed = 1 /\ cpc # "done"
             /\ rtcSpeed' \in {0, 2}
             /\ UNCHANGED <<cpc, rate, registers, rtc, phase, stimer, start, reads, polls, waited,
                            attempt, verified, disturbed, pauses>>

-----------------------------------------------------------------------------
Done(ok) == cpc' = "done" /\ verified' = ok

(* Crystal start, selection and HFADJ: any of the calls can fail.             *)
Adjust == /\ cpc = "begin"
          /\ \/ cpc' = "config" /\ verified' = verified /\ registers' = registers
             \/ Done(FALSE) /\ registers' = FALSE
          /\ Stays /\ UNCHANGED <<rate, rtcSpeed, start, reads, polls, waited, attempt, disturbed, pauses>>

clockCheckConfiguration == registers /\ ~XtalFailure
CheckConfiguration ==
  /\ cpc = "config"
  /\ IF clockCheckConfiguration THEN cpc' = "start" /\ verified' = verified ELSE Done(FALSE)
  /\ Stays /\ UNCHANGED <<hardware, rtcSpeed, start, reads, polls, waited, attempt, disturbed, pauses>>
Recheck ==
  /\ cpc = "recheck" /\ Done(clockCheckConfiguration)
  /\ Stays /\ UNCHANGED <<hardware, rtcSpeed, start, reads, polls, waited, attempt, disturbed, pauses>>

(* clockVerifyRate: after 10 ms another window, or the check has failed.       *)
NextWindow ==
  /\ IF attempt = Attempts THEN Done(FALSE) /\ attempt' = attempt
     ELSE cpc' = "start" /\ attempt' = attempt + 1 /\ verified' = verified
  /\ reads' = 0 /\ polls' = 0 /\ start' = NoSample

(* One attempt of clockReadRateSample: the RTC is read between two reads of    *)
(* STIMER, k steps apart if the thread is preempted; or its read is in error.  *)
Reading == cpc \in {"start", "end"} /\ UNCHANGED <<hardware, rtcSpeed>>
SampleOk_AnySpan(span) == TRUE                                           \* mutant
SampleOk(span) == span <= SpanLimit
Sample(k, late) ==
  [rtc |-> IF late THEN (rtc + (phase + k * rtcSpeed) \div Sub) % RtcWrap ELSE rtc,
   stimer |-> (stimer + (k * rate) \div 2) % StimerWrap]
NotRead ==
  /\ Reading
  /\ \E k \in Pauses \cup {0} : (k > 0 => ~SampleOk(k * rate)) /\ Waits(k + 1)
  /\ Disturb
  /\ IF reads + 1 < Reads THEN reads' = reads + 1 /\ UNCHANGED <<cpc, start, polls, attempt, verified>>
     ELSE IF cpc = "start" THEN NextWindow
     ELSE cpc' = "poll" /\ reads' = 0 /\ UNCHANGED <<start, polls, attempt, verified>>
ReadStart ==
  /\ Reading /\ cpc = "start"
  /\ \E k \in Pauses \cup {0}, late \in BOOLEAN :
       SampleOk(k * rate) /\ (late => k > 0) /\ start' = Sample(k, late) /\ Passes(k) /\ Preempted(k)
  /\ cpc' = "poll" /\ reads' = 0 /\ polls' = 0 /\ waited' = 0
  /\ UNCHANGED <<attempt, verified>>

(* clockVerifyRateWindow: wait a millisecond and sample, until the window is   *)
(* over by the RTC, or too many polls or too much HFRC time say that it stands. *)
Poll ==
  /\ cpc = "poll"
  /\ IF polls < Polls /\ waited < PollTicks
     THEN /\ \E k \in Pauses \cup {0} : Waits(k + 1) /\ Preempted(k)
          /\ cpc' = "end" /\ polls' = polls + 1 /\ UNCHANGED <<start, reads, attempt, verified>>
     ELSE NextWindow /\ Waits(Sub) /\ Undisturbed
  /\ UNCHANGED <<hardware, rtcSpeed>>

Elapsed(s) == (s.rtc + RtcWrap - start.rtc) % RtcWrap
InTolerance(ticks, hundredths) ==
  LET expected == hundredths * Sub * Nominal
      error == IF ticks > expected THEN ticks - expected ELSE expected - ticks
  IN  (Parts * error) \div expected <= Tolerance
ReadEnd ==
  /\ Reading /\ cpc = "end" /\ reads' = 0
  /\ \E k \in Pauses \cup {0}, late \in BOOLEAN :
       LET s == Sample(k, late)
           hundredths == Elapsed(s)
           ticks == (s.stimer - start.stimer) % StimerWrap
       IN  /\ SampleOk(k * rate) /\ (late => k > 0) /\ Preempted(k)
           /\ IF hundredths < Window
              THEN cpc' = "poll" /\ Waits(k) /\ UNCHANGED <<start, polls, attempt, verified>>
              ELSE IF hundredths <= WindowMax /\ InTolerance(ticks, hundredths)
              THEN cpc' = "recheck" /\ Waits(k) /\ UNCHANGED <<start, polls, attempt, verified>>
              ELSE NextWindow /\ Waits(k + Sub)

ClockStep == Adjust \/ CheckConfiguration \/ NotRead \/ ReadStart \/ Poll \/ ReadEnd \/ Recheck
ClockNext == ClockStep \/ XtalFails

-----------------------------------------------------------------------------
(* A clock that was verified is right: the rate of HFRC against true time is   *)
(* within the tolerance, the resolution of the RTC and the span of its samples *)
(* over a window, whatever was preempted or wrapped, and though the crystal may *)
(* fail during the check.  And a right clock is verified: with hardware that   *)
(* works, only something that came in between in every window makes it fail.  *)
Accurate ==
  LET expected == Nominal * (Sub * Window)
  IN  /\ Parts * (rate * (Sub * (Window - 1) + 1) - SpanLimit) <= (Parts + Tolerance + 1) * expected
      /\ Parts * (rate * (Sub * (Window + 1) - 1) + SpanLimit) >= (Parts - Tolerance - 1) * expected
VerifiedIsAccurate ==
  /\ verified => Accurate
  /\ cpc = "done" /\ ~verified /\ registers /\ ~XtalFailure /\ rate = Nominal =>
       disturbed = 1..Attempts
=============================================================================
