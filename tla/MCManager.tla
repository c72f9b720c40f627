----------------------------- MODULE MCManager -----------------------------
(* One field of settings, with a third value that is invalid, and two sets   *)
(* of downlinks: requests and confirmations under three ids, so that a cache *)
(* of two evicts, and every type of command under two ids, so that any two   *)
(* may conflict.                                                             *)
EXTENDS Manager
CONSTANTS c1, c2

MCSettings == [mode : 0..2]
MCDefault == [mode |-> 0]
MCValid(s) == s.mode \in 0..1
Cmd(id, type, arg) == [id |-> id, type |-> type, arg |-> arg]
RestartCommands ==
  {Cmd(1, "RequestReset", None), Cmd(2, "RequestReboot", None), Cmd(2, "SetBatch", [mode |-> 1]),
   Cmd(3, "ConfirmReset", c1), Cmd(3, "ConfirmReboot", c1)}
AllCommands ==
  {Cmd(1, "RequestReset", None), Cmd(1, "SetBatch", [mode |-> 1]), Cmd(1, "GetStatus", None),
   Cmd(1, "ConfirmReboot", c1), Cmd(2, "RequestReboot", None), Cmd(2, "SetBatch", [mode |-> 2]),
   Cmd(2, "ResetSettings", None), Cmd(2, "ConfirmReset", c1), Cmd(2, "GetConfiguration", None)}
=============================================================================
