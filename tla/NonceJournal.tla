---------------------------- MODULE NonceJournal ----------------------------
(***************************************************************************)
(* The nonce journal of storage_service.cpp: two erase pages of append-    *)
(* only records, whose last two slots hold the intent that authorises the  *)
(* erase of the other page and the activation that hands authority over.   *)
(*                                                                         *)
(* A save is a plan of flash operations, each a step of its own.  A power  *)
(* loss or a driver error can leave any operation done, not begun, or half *)
(* done; after a power loss nonceStoreScan has to make sense of the pages. *)
(***************************************************************************)
EXTENDS Integers, Sequences, FiniteSets

CONSTANTS DataSlots,   \* NONCE_DATA_SLOTS
          SeqSpan,     \* 2^32: sequence numbers wrap
          MaxValue,    \* bound on the successive contents that are saved
          MaxResets,   \* bound on the factory resets
          Starts,      \* first sequence numbers of a page that is reclaimed
          Erased,      \* a slot that reads as all ones
          Torn,        \* a slot whose body fails its CRC
          None, Refused

(* A factory reset that is interrupted may leave old records, whose numbers   *)
(* then lie further back: numbers are compared over half the span.            *)
ASSUME JournalAssumption ==
  /\ DataSlots \in Nat \ {0, 1} /\ MaxValue \in Nat \ {0} /\ MaxResets \in Nat
  /\ SeqSpan \in Nat /\ (MaxResets + 1) * (2 * DataSlots + 6) < SeqSpan \div 2
  /\ Starts \subseteq 0 .. SeqSpan - 1

Pages    == {0, 1}
Slots    == 0 .. DataSlots + 1
Intent   == DataSlots        \* slot of the reclamation intent
Activate == DataSlots + 1    \* slot of the activation
Values   == 0..MaxValue      \* nonce contents, in the order they are saved
Offsets  == Pages \X Slots

Record == [magic : {"data", "snapshot", "intent", "activate"}, seq : 0 .. SeqSpan - 1,
           value : Values, target : Pages \cup {2}, parent : 0 .. SeqSpan, committed : BOOLEAN]
Data(seq, value) == [magic |-> "data", seq |-> seq, value |-> value,
                     target |-> 2, parent |-> SeqSpan, committed |-> FALSE]
Transition(magic, seq, value, target, parent) ==
  [magic |-> magic, seq |-> seq, value |-> value,
   target |-> target, parent |-> parent, committed |-> FALSE]

ASSUME NotRecords == /\ {Erased, Torn} \cap Record = {} /\ Erased # Torn
                     /\ {None, Refused} \cap Values = {} /\ None # Refused /\ None \notin Offsets

VARIABLES
  flash,       \* flash[page][slot]
  power,       \* "off", "on" (mounted, nonceStoreBegin returned TRUE) or "failed"
  latest,      \* gNonceLatestOffset
  sequence,    \* gNonceSequence
  pending,     \* gNonceReclaimIntent
  saved,       \* gNonceSaved; None without gNonceStoreHasRecord
  request,     \* the argument of the nonceStoreSave in progress, or None
  plan,        \* the flash operations it still has to perform
  authorised,  \* storageFactoryErase is in progress
  resets,      \* history: how often it was
  durable      \* history: what a restart would restore, Recovered(flash)

mirror == <<latest, sequence, pending, saved>>
vars   == <<flash, power, latest, sequence, pending, saved, request, plan, authorised, resets, durable>>
pages  == <<flash, durable>>

-----------------------------------------------------------------------------
(* nonceStoreScan, as a function of the pages. *)

Succ(seq, k) == (seq + k) % SeqSpan

(* static_cast<int32_t>(a - b) > 0 *)
Newer(a, b) == a # b /\ (a - b) % SeqSpan < SeqSpan \div 2

(* nonceRecordBodyValid: the commit word is not part of the body. *)
BodyValid_NeedsCommit(r) == r \notin {Erased, Torn} /\ r.committed   \* mutant
BodyValid(r) == r \notin {Erased, Torn}

Matches(r, magic, intent, seq) ==
  BodyValid(r) /\ r.magic = magic /\ r.seq = seq /\ r.target = intent.target
    /\ r.parent = intent.seq /\ r.value = intent.value

(* The newest intact intent tells which page may be ignored. *)
IsAuthority(f, p) ==
  LET r == f[p][Intent]
  IN  BodyValid(r) /\ r.magic = "intent" /\ r.target = 1 - p /\ r.parent = r.seq
Owners(f) == LET ps == {p \in Pages : IsAuthority(f, p)}
             IN  {p \in ps : \A q \in ps : ~Newer(f[q][Intent].seq, f[p][Intent].seq)}

(* No transmission uses the target page before the activation is written.   *)
Reclaiming_UntilCopied(f, p) ==                                       \* mutant
  f[p][Activate] = Erased /\ f[1 - p][0] = Erased
Reclaiming(f, p) == f[p][Activate] = Erased
Activated(f, p) ==
  LET intent == f[p][Intent]
  IN  /\ Matches(f[p][Activate], "activate", intent, Succ(intent.seq, 2))
      /\ Matches(f[1 - p][0], "snapshot", intent, Succ(intent.seq, 1))

(* A record that the current page may hold at offset o. *)
Expected(r, o, isPendingIntent) ==
  BodyValid(r) /\ (r.magic = "data" \/ (r.magic = "snapshot" /\ o[2] = 0) \/ isPendingIntent)

Before(o, q) == o[1] < q[1] \/ (o[1] = q[1] /\ o[2] < q[2])

Refusal == [accepts |-> FALSE, latest |-> None, sequence |-> 0, pending |-> None, saved |-> None]
Scan(f) ==
  LET owners  == Owners(f)
      working == {p \in owners : Reclaiming(f, p)}
      done    == owners \ working
      active  == IF owners = {} THEN Pages ELSE working \cup {1 - p : p \in done}
      pend    == {<<p, Intent>> : p \in working}
      used    == {o \in active \X Slots : f[o[1]][o[2]] # Erased}
      At(o)   == f[o[1]][o[2]]
      floor   == {f[p][Activate].seq : p \in done}   \* an activation is a number already seen
      fresh   == {o \in used : \A n \in floor : Newer(At(o).seq, n)}
      newest  == IF fresh = {} THEN CHOOSE o \in used : \A q \in used : ~Before(q, o)
                 ELSE CHOOSE o \in fresh : \A q \in fresh : ~Newer(At(q).seq, At(o).seq)
  IN  IF \/ \E p \in done : ~Activated(f, p)
         \/ \E o \in used : ~Expected(At(o), o, o \in pend)
         \/ owners # {} /\ used = {}
      THEN Refusal
      ELSE [accepts  |-> TRUE,
            latest   |-> IF used = {} THEN None ELSE newest,
            sequence |-> IF fresh # {} THEN At(newest).seq
                         ELSE IF floor # {} THEN CHOOSE n \in floor : TRUE ELSE 0,
            pending  |-> IF pend = {} THEN None ELSE CHOOSE o \in pend : TRUE,
            saved    |-> IF used = {} THEN None ELSE At(newest).value]

(* What a restart restores: storageNonceBegin, then storageNonceLoad. *)
Recovered(f) == LET found == Scan(f) IN IF found.accepts THEN found.saved ELSE Refused

-----------------------------------------------------------------------------
(* Flash operations.  The last one of a record or a page is a RAM update.   *)

Erase(p)           == [op |-> "erase", at |-> <<p, 0>>]
Body(o, r)         == [op |-> "body", at |-> o, record |-> r]
Commit(o)          == [op |-> "commit", at |-> o]
Remember(o, s, i, v) == [op |-> "remember", at |-> o, sequence |-> s, pending |-> i, saved |-> v]

(* nonceWriteRecord: the body, then the commit word, then a read-back. *)
WriteRecord(o, r) == <<Body(o, r), Commit(o)>>

(* nonceResumeReclamation, for the intent record i at offset o. *)
Resume(o, i) ==
  LET t == i.target
  IN  <<Erase(t)>>
      \o WriteRecord(<<t, 0>>, Transition("snapshot", Succ(i.seq, 1), i.value, t, i.seq))
      \o WriteRecord(<<o[1], Activate>>, Transition("activate", Succ(i.seq, 2), i.value, t, i.seq))
      \o <<Remember(<<t, 0>>, Succ(i.seq, 2), None, i.value)>>

(* The page is full: authorise the erase of the other one, then do it. *)
Reclaim(p) ==
  LET o == <<p, Intent>>
      i == Transition("intent", Succ(sequence, 1), saved, 1 - p, Succ(sequence, 1))
  IN  WriteRecord(o, i) \o <<Remember(o, i.seq, o, saved)>> \o Resume(o, i)

AppendPlan_StaleSequence(o, v) ==                                     \* mutant
  WriteRecord(o, Data(Succ(sequence, 1), v)) \o <<Remember(o, sequence, pending, v)>>
AppendPlan(o, v) == WriteRecord(o, Data(Succ(sequence, 1), v))
                 \o <<Remember(o, Succ(sequence, 1), pending, v)>>

Put(o, r) == [flash EXCEPT ![o[1]][o[2]] = r]

(* The flash after the operation is done... *)
Done(c) == CASE c.op = "erase"    -> [flash EXCEPT ![c.at[1]] = [s \in Slots |-> Erased]]
             [] c.op = "body"     -> Put(c.at, c.record)
             [] c.op = "commit"   -> Put(c.at, [flash[c.at[1]][c.at[2]] EXCEPT !.committed = TRUE])
             [] c.op = "remember" -> flash
(* ...and what it may be when the operation is interrupted or fails. *)
Fates(page) == {h \in [Slots -> {"kept", "torn", "erased"}] :
                  \A s \in Slots : page[s] = Erased => h[s] = "kept"}
HalfErased(p) == {[flash EXCEPT ![p] = [s \in Slots |-> CASE h[s] = "kept"   -> flash[p][s]
                                                          [] h[s] = "torn"   -> Torn
                                                          [] h[s] = "erased" -> Erased]] :
                    h \in Fates(flash[p])}
Interrupted(c) == {flash, Done(c)} \cup CASE c.op = "erase" -> HalfErased(c.at[1])
                                          [] c.op = "body"  -> {Put(c.at, Torn)}
                                          [] OTHER          -> {}

-----------------------------------------------------------------------------
(* A blank journal; one left by the firmware before reclamation existed: data  *)
(* records only, on page 0 and then on page 1, in every slot; or one in which  *)
(* page 0, begun at any number, has just been reclaimed to page 1 (what its    *)
(* superseded records held is of no account).                                 *)
Legacy(k) == [p \in Pages |-> [s \in Slots |->
                LET n == p * (DataSlots + 2) + s + 1
                IN  IF n <= k
                    THEN [Data(n, IF n <= MaxValue THEN n - 1 ELSE MaxValue - 1) EXCEPT !.committed = TRUE]
                    ELSE Erased]]
Reclaimed(n) ==
  LET i       == Succ(n, DataSlots + 1)
      Old(s)  == IF s = 0 THEN Transition("snapshot", n, 0, 0, Succ(n, SeqSpan - 1))
                 ELSE IF s < Intent THEN Data(Succ(n, s + 1), 0)
                 ELSE IF s = Intent THEN Transition("intent", i, 0, 1, i)
                 ELSE Transition("activate", Succ(i, 2), 0, 1, i)
      new     == Transition("snapshot", Succ(i, 1), 0, 1, i)
  IN  [p \in Pages |-> [s \in Slots |->
         IF p = 0 THEN [Old(s) EXCEPT !.committed = TRUE]
         ELSE IF s = 0 THEN [new EXCEPT !.committed = TRUE] ELSE Erased]]

Init == /\ flash \in {Legacy(k) : k \in 0 .. 2 * DataSlots + 4} \cup {Reclaimed(n) : n \in Starts}
        /\ durable = Recovered(flash)
        /\ power = "off"
        /\ latest = None /\ sequence = 0 /\ pending = None /\ saved = None
        /\ request = None /\ plan = <<>> /\ authorised = FALSE /\ resets = 0

Becomes(outcomes) == \E f \in outcomes : flash' = f /\ durable' = Recovered(f)

Idle == power = "on" /\ request = None /\ plan = <<>> /\ ~authorised

(* storageNonceBegin and storageNonceLoad, at boot and in a radio recovery. *)
Mount ==
  /\ power = "off" \/ Idle
  /\ LET found == Scan(flash)
     IN  \/ /\ power' = IF found.accepts THEN "on" ELSE "failed"
            /\ latest' = found.latest /\ sequence' = found.sequence
            /\ pending' = found.pending /\ saved' = found.saved
         \/ power' = "failed" /\ UNCHANGED mirror              \* nonceGeometryReady refuses
  /\ UNCHANGED <<pages, request, plan, authorised, resets>>

(* lwSaveNonces calls nonceStoreSave with a content that is not older than   *)
(* the restored one.  An unfinished reclamation is resumed first.            *)
Save(v) == /\ Idle
           /\ saved # None => v \in {saved, saved + 1}
           /\ request' = v
           /\ plan' = IF pending = None THEN <<>> ELSE Resume(pending, flash[pending[1]][pending[2]])
           /\ UNCHANGED <<pages, power, mirror, authorised, resets>>

Page == IF latest = None THEN 0 ELSE latest[1]
FreeSlots(p) == {s \in 0 .. DataSlots - 1 : flash[p][s] = Erased}
FirstFree(p) == CHOOSE s \in FreeSlots(p) : \A t \in FreeSlots(p) : s <= t

(* The rest of nonceStoreSave decides each time its plan is carried out.     *)
Deciding == power = "on" /\ request # None /\ plan = <<>>

Acknowledge == /\ Deciding /\ saved = request
               /\ request' = None
               /\ UNCHANGED <<pages, power, mirror, plan, authorised, resets>>

AppendData == /\ Deciding /\ saved # request /\ FreeSlots(Page) # {}
              /\ plan' = AppendPlan(<<Page, FirstFree(Page)>>, request)
              /\ UNCHANGED <<pages, power, mirror, request, authorised, resets>>

BeginReclaim ==
  /\ Deciding /\ saved # request /\ FreeSlots(Page) = {}
  /\ IF saved # None /\ flash[Page][Intent] = Erased /\ flash[Page][Activate] = Erased
     THEN plan' = Reclaim(Page) /\ UNCHANGED <<power, request>>
     ELSE power' = "failed" /\ request' = None /\ UNCHANGED plan
  /\ UNCHANGED <<pages, mirror, authorised, resets>>

(* The next operation of the plan succeeds. *)
Perform == /\ power = "on" /\ plan # <<>>
           /\ Becomes({Done(Head(plan))})
           /\ IF Head(plan).op = "remember"
              THEN /\ latest' = Head(plan).at /\ sequence' = Head(plan).sequence
                   /\ pending' = Head(plan).pending /\ saved' = Head(plan).saved
              ELSE UNCHANGED mirror
           /\ plan' = Tail(plan)
           /\ UNCHANGED <<power, request, authorised, resets>>

(* It fails: the save returns FALSE, joining is disabled until a restart.    *)
SaveFails == /\ power = "on" /\ request # None
             /\ Becomes(IF plan = <<>> THEN {flash} ELSE Interrupted(Head(plan)))
             /\ power' = "failed" /\ request' = None /\ plan' = <<>>
             /\ UNCHANGED <<mirror, authorised, resets>>

PowerLoss == /\ power # "off"
             /\ Becomes(IF plan = <<>> THEN {flash} ELSE Interrupted(Head(plan)))
             /\ power' = "off" /\ request' = None /\ plan' = <<>> /\ authorised' = FALSE
             /\ latest' = None /\ sequence' = 0 /\ pending' = None /\ saved' = None
             /\ UNCHANGED resets

(* storageFactoryErase: both pages, verified, then the node restarts.        *)
FactoryErase == /\ Idle /\ resets < MaxResets /\ resets' = resets + 1
                /\ authorised' = TRUE /\ plan' = <<Erase(0), Erase(1)>>
                /\ UNCHANGED <<pages, power, mirror, request>>
EraseFails == /\ authorised /\ plan # <<>>
              /\ Becomes(Interrupted(Head(plan)))
              /\ plan' = <<Erase(0), Erase(1)>>
              /\ UNCHANGED <<power, mirror, request, authorised, resets>>
EraseDone == /\ authorised /\ plan = <<>>
             /\ power' = "off" /\ authorised' = FALSE
             /\ latest' = None /\ sequence' = 0 /\ pending' = None /\ saved' = None
             /\ UNCHANGED <<pages, request, plan, resets>>

Next == \/ Mount \/ \E v \in Values : Save(v)
        \/ Acknowledge \/ AppendData \/ BeginReclaim \/ Perform
        \/ SaveFails \/ PowerLoss \/ FactoryErase \/ EraseFails \/ EraseDone

Spec == Init /\ [][Next]_vars
-----------------------------------------------------------------------------
(* What nonceStoreSave keeps in RAM is what a scan of the pages would find,   *)
(* so that a save never appends behind, or reclaims, the wrong record; and     *)
(* flash is programmed only where it reads erased: neither a resumed           *)
(* reclamation nor a save after a restart writes over a record or debris.      *)
MirrorMatchesFlash ==
  /\ Idle => Scan(flash) = [accepts |-> TRUE, latest |-> latest, sequence |-> sequence,
                            pending |-> pending, saved |-> saved]
  /\ plan # <<>> /\ Head(plan).op = "body"
       => flash[Head(plan).at[1]][Head(plan).at[2]] = Erased

ErasingStalePage == /\ ~authorised /\ plan # <<>> /\ pending # None
                    /\ Head(plan).at[1] # pending[1]

(* Interrupting the erase of the stale page, or the copy into it, costs       *)
(* nothing: the owner page still restores (HELLO_WORLD_TEST.md:193-195).      *)
StalePageInterruptionRecovers ==
  [][ErasingStalePage /\ power' # "on" => durable' = saved]_vars

(* The pages implement the register that the join path relies on.             *)
Supersedes(a, b) == a >= b
Register == INSTANCE NonceRegister WITH Content <- Values, reg <- durable
RegisterSpec == Register!Spec
=============================================================================
