------------------------------ MODULE RadioPin ------------------------------
(***************************************************************************)
(* The firmware's GPIO layer for DIO1, the pin by which the radio reports    *)
(* (Apollo3RadioHal of lorawan_service.cpp), under what RadioLib does with    *)
(* it: a transmission polls the pin, a receive window takes its edge as an    *)
(* interrupt.  The pin cannot be read while its interrupt direction is none,  *)
(* which is how the Arduino core leaves it after a window.                    *)
(*                                                                         *)
(* A critical section is one action: an edge or interrupt within it counts    *)
(* before or after it.  Each call of the vendor's GPIO functions can fail,    *)
(* and then does nothing.                                                    *)
(***************************************************************************)
EXTENDS Integers

CONSTANT MaxInit                 \* 3 attempts to initialize

VARIABLES
  rpc,        \* main: off, init, pinmode, begun, ready, transmit, mask, attach, enable, window,
              \*       unmask, detach, restore, check, fault
  irq,        \* the pin's interrupt is enabled
  edge,       \* a latched edge: None, Old (from before the window was set up), New
  pad,        \* Input, Rising, or NoDirection, in which reads return zero
  handler,    \* the Arduino core holds RadioLib's callback
  created,    \* the core has made its interrupt object
  healthy,    \* status_ is AM_HAL_STATUS_SUCCESS
  failed,     \* history: a GPIO call failed since init
  stale,      \* history: the callback ran for an old edge while all was well
  attempts,   \* initAttempts, recoveryAttempts
  reported    \* how the last lwBegin or transaction ended: None, Ok, Gpio, Other
pin == <<rpc, irq, edge, pad, handler, created, healthy, failed, stale, attempts, reported>>

PinInit ==
  /\ rpc = "off" /\ irq = FALSE /\ edge = "None" /\ pad = "NoDirection"
  /\ handler = FALSE /\ created = FALSE /\ healthy = TRUE /\ failed = FALSE /\ stale = FALSE
  /\ attempts = 0 /\ reported = "None"

-----------------------------------------------------------------------------
(* The direct GPIO calls; F are the ones that fail.  status_ keeps the first   *)
(* failure until the next init.                                              *)
recordStatus(F) == healthy' = (healthy /\ F = {}) /\ failed' = (failed \/ F # {})
Disable(F) == irq' = (irq /\ "disable" \in F)
Clear(F) == edge' = IF "clear" \in F THEN edge ELSE "None"

maskDio1Interrupt_Unclear == \E F \in SUBSET {"disable"} :                \* mutant
                       Disable(F) /\ recordStatus(F) /\ UNCHANGED <<pad, edge>>
maskDio1Interrupt == \E F \in SUBSET {"disable", "clear"} :
                       Disable(F) /\ Clear(F) /\ recordStatus(F) /\ UNCHANGED pad
restoreDio1Polling ==
  \E F \in SUBSET {"disable", "pinconfig", "clear"} :
    /\ Disable(F) /\ Clear(F) /\ recordStatus(F)
    /\ pad' = IF "pinconfig" \in F THEN pad ELSE "Input"
enableDio1Interrupt ==
  \E F \in SUBSET {"clear", "enable"} :
    /\ "enable" \in F => healthy /\ "clear" \notin F
    /\ Clear(F) /\ recordStatus(F)
    /\ irq' = (irq \/ (healthy /\ F = {})) /\ UNCHANGED pad

-----------------------------------------------------------------------------
(* lwBegin, from lwServicePoll or lwRecover: RadioLib's module init calls the  *)
(* layer's init and then makes DIO1 an input, and any later step may fail.    *)
Tried_Reset == 1                                                        \* mutant
Tried == attempts + 1
Goes(from, to) == rpc = from /\ rpc' = to
Initialize == /\ Goes("init", "pinmode") /\ healthy' = TRUE /\ failed' = FALSE
              /\ UNCHANGED <<irq, edge, pad, handler, created, stale, attempts, reported>>
PinMode == /\ Goes("pinmode", "begun") /\ restoreDio1Polling
           /\ UNCHANGED <<handler, created, stale, attempts, reported>>
Begun ==
  /\ rpc = "begun"
  /\ reported' \in IF healthy THEN {"Ok", "Other"} ELSE {"Gpio"}
  /\ IF reported' = "Ok" THEN rpc' = "ready" /\ attempts' = 0
     ELSE attempts' = Tried /\ rpc' = IF attempts' < MaxInit THEN "init" ELSE "fault"
  /\ UNCHANGED <<irq, edge, pad, handler, created, healthy, failed, stale>>

(* A join or a transaction, checked before and after; the callback of each     *)
(* window is set and removed by RadioLib.                                     *)
Transact == /\ rpc = "ready"
            /\ IF healthy THEN rpc' = "transmit" /\ reported' = "None" ELSE rpc' = "fault" /\ reported' = "Gpio"
            /\ UNCHANGED <<irq, edge, pad, handler, created, healthy, failed, stale, attempts>>
Transmitted == /\ rpc = "transmit" /\ rpc' \in {"mask", "check"}
               /\ UNCHANGED <<irq, edge, pad, handler, created, healthy, failed, stale, attempts, reported>>
Mask == /\ (Goes("mask", "attach") \/ Goes("unmask", "detach")) /\ maskDio1Interrupt
        /\ UNCHANGED <<handler, created, stale, attempts, reported>>
ArduinoAttach ==       \* makes the interrupt object at its first call, which enables the interrupt
  /\ Goes("attach", "enable") /\ handler' = TRUE /\ created' = TRUE /\ pad' = "Rising"
  /\ irq' = (irq \/ ~created)
  /\ UNCHANGED <<edge, healthy, failed, stale, attempts, reported>>
EnableInterrupt == /\ Goes("enable", "window") /\ enableDio1Interrupt
                   /\ UNCHANGED <<handler, created, stale, attempts, reported>>
Close == /\ Goes("window", "unmask")
         /\ UNCHANGED <<irq, edge, pad, handler, created, healthy, failed, stale, attempts, reported>>
ArduinoDetach ==
  /\ Goes("detach", "restore") /\ handler' = FALSE /\ pad' = "NoDirection"
  /\ UNCHANGED <<irq, edge, created, healthy, failed, stale, attempts, reported>>
Restore == /\ (Goes("restore", "mask") \/ Goes("restore", "check")) /\ restoreDio1Polling
           /\ UNCHANGED <<handler, created, stale, attempts, reported>>
lwRadioHalHealthy == healthy
Check ==               \* three hardware errors lead back to lwBegin after a cooldown
  /\ rpc = "check"
  /\ IF lwRadioHalHealthy THEN reported' \in {"Ok", "Other"} /\ rpc' \in {"ready", "init"}
     ELSE reported' = "Gpio" /\ rpc' = "fault"
  /\ (rpc' = "init" => reported' = "Other")
  /\ UNCHANGED <<irq, edge, pad, handler, created, healthy, failed, stale, attempts>>

(* The radio moves the pin at any time; an enabled interrupt takes the edge.   *)
Edge == /\ rpc # "off" /\ pad # "NoDirection"
        /\ edge' = IF rpc \in {"attach", "enable", "window", "unmask"} THEN "New" ELSE "Old"
        /\ UNCHANGED <<rpc, irq, pad, handler, created, healthy, failed, stale, attempts, reported>>
Interrupt == /\ irq /\ edge # "None" /\ edge' = "None"
             /\ stale' = (stale \/ (handler /\ healthy /\ edge = "Old"))
             /\ UNCHANGED <<rpc, irq, pad, handler, created, healthy, failed, attempts, reported>>

PinStep == Initialize \/ PinMode \/ Begun \/ Transact \/ Transmitted \/ Mask \/ ArduinoAttach
             \/ EnableInterrupt \/ Close \/ ArduinoDetach \/ Restore \/ Check
PinNext == PinStep \/ Edge \/ Interrupt

-----------------------------------------------------------------------------
(* As long as no GPIO call has failed: a transmission can see its completion   *)
(* on the pin and no interrupt takes it away; a receive window has its         *)
(* interrupt and its callback; and the callback never runs for an edge from     *)
(* before the window was set up, in the first window too, where making the     *)
(* interrupt object enables the interrupt early.  A failure is never reported  *)
(* as success, however many calls succeed after it.                           *)
PinServesBothUses ==
  /\ rpc = "transmit" /\ ~failed => pad = "Input" /\ ~irq /\ ~handler
  /\ rpc = "window" /\ ~failed => pad = "Rising" /\ irq /\ handler
  /\ ~stale
  /\ reported = "Ok" /\ rpc \in {"ready", "init"} => ~failed
=============================================================================
