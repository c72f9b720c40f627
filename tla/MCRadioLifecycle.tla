-------------------------- MODULE MCRadioLifecycle --------------------------
(* A clock that leaves room between two wraps for a cooldown, two attempts to   *)
(* recover and the ticks that fall into them; two in a row is many.         *)
EXTENDS RadioLifecycle
=============================================================================
