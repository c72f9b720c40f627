----------------------------- MODULE MCBringUp ------------------------------
(* A window of six hundredths over an RTC that wraps at twelve and a STIMER at *)
(* 128 ticks: both wrap within a window from the one start and not from the    *)
(* other.  The clock is right, or off by 60 percent against 20 allowed; a       *)
(* preemption of one step can pass within a sample, one of three spoils it.    *)
EXTENDS BringUp
StartValues == {[rtc |-> 9, stimer |-> 90], [rtc |-> 0, stimer |-> 100]}
=============================================================================
