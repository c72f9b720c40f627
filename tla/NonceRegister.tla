--------------------------- MODULE NonceRegister ---------------------------
(***************************************************************************)
(* What lorawan_service.cpp expects of the nonce store behind              *)
(* storageNonceSave, storageNonceLoad, storageNonceBegin and               *)
(* storageFactoryErase: one register whose content survives a power loss   *)
(* and never goes back, unless an authorised factory erase forgets it.     *)
(* The store may give up (Refused): it then restores nothing at all rather *)
(* than an older content.  This is the abstract specification: DevNonce    *)
(* uses the store as such a register, and NonceJournal shows that the two  *)
(* flash pages implement one.                                              *)
(***************************************************************************)

CONSTANTS Content,           \* what a nonce record can hold
          Supersedes(_, _),  \* Supersedes(a, b): a may replace b
          None,              \* an erased journal
          Refused            \* a journal that storageNonceBegin rejects

VARIABLES reg,               \* what the next storageNonceBegin will find
          authorised         \* a confirmed factory erase is in progress

Init == reg \in Content \cup {None} /\ authorised = FALSE

(* A save completes, or a power loss finds its record already readable. *)
Store == /\ reg # Refused
         /\ reg' \in Content
         /\ reg # None => Supersedes(reg', reg)
         /\ UNCHANGED authorised

(* A flash error or a power loss leaves a record that cannot be read. *)
Damage == reg' = Refused /\ UNCHANGED authorised

(* Only a confirmed factory reset may discard nonce history. *)
Authorise == ~authorised /\ authorised' = TRUE /\ UNCHANGED reg
Forget    == /\ authorised
             /\ reg' \in Content \cup {None, Refused}
             /\ authorised' \in BOOLEAN

Next == Store \/ Damage \/ Authorise \/ Forget

Spec == Init /\ [][Next]_<<reg, authorised>>
=============================================================================
