------------------------- MODULE NonceJournalProofs -------------------------
(***************************************************************************)
(* The nonce journal implements NonceRegister, what nonceStoreSave keeps in  *)
(* RAM is what a scan finds, and a reclamation may be interrupted: for every  *)
(* number of slots, contents and factory resets, and every width of the       *)
(* sequence numbers that JournalAssumption allows.                            *)
(*                                                                         *)
(* Two descriptions of the pages carry the proof.  Struct is what every        *)
(* history leaves, factory erases included that were cut short.  Good adds     *)
(* what a scan finds, and bounds how far back the numbers lie; in it, the       *)
(* result of Scan is known (ScanGood), and every operation of a save leads      *)
(* from one Good to another, or to pages that the scan refuses.                *)
(***************************************************************************)
EXTENDS NonceJournal, NaturalsInduction, SequenceTheorems, WellFoundedInduction, TLAPS

Seqs  == 0 .. SeqSpan - 1
Flash == [Pages -> [Slots -> Record \cup {Erased, Torn}]]
Age(n, a) == (n - a) % SeqSpan

(* Which records the firmware writes into slot t of page p. *)
Fits(r, p, t) == \/ r.magic = "data"
                 \/ r.magic = "snapshot" /\ t = 0
                 \/ r.magic = "intent" /\ t = Intent /\ r.target = 1 - p /\ r.parent = r.seq
                 \/ r.magic = "activate" /\ t = Activate
Typed(f) == f \in Flash /\ \A p \in Pages, t \in Slots : BodyValid(f[p][t]) => Fits(f[p][t], p, t)

Distinct(f) == \A p, q \in Pages, t, u \in Slots :
                 BodyValid(f[p][t]) /\ BodyValid(f[q][u]) /\ f[p][t].seq = f[q][u].seq => p = q /\ t = u

(* A page is full when its intent is written, and after the intent only the   *)
(* activation is; the other page is written again after that.                *)
Authority(f, p) == BodyValid(f[p][Intent]) /\ f[p][Intent].magic = "intent"
Below(f) == \A p \in Pages : Authority(f, p) =>
  /\ \A t \in 0 .. DataSlots - 1 : BodyValid(f[p][t]) => Newer(f[p][Intent].seq, f[p][t].seq)
  /\ BodyValid(f[p][Activate])
       => Matches(f[p][Activate], "activate", f[p][Intent], Succ(f[p][Intent].seq, 2))
Above(f) == \A p \in Pages : Authority(f, p) /\ BodyValid(f[p][Activate]) =>
  /\ BodyValid(f[1 - p][0])
       => Matches(f[1 - p][0], "snapshot", f[p][Intent], Succ(f[p][Intent].seq, 1))
  /\ \A t \in Slots \ {0} : BodyValid(f[1 - p][t]) => Newer(f[1 - p][t].seq, f[p][Activate].seq)

Struct(f) == Typed(f) /\ Distinct(f) /\ Below(f) /\ Above(f)

(* All numbers in the journal lie within b of one another. *)
Window(f, b) == \E n \in Seqs : \A p \in Pages, t \in Slots : BodyValid(f[p][t]) => Age(n, f[p][t].seq) <= b

(* How far that may be after c factory resets. *)
Span(c) == (c + 1) * (2 * DataSlots + 6)

-----------------------------------------------------------------------------
(* Pages that a scan accepts. *)
Owner(f, p) == Authority(f, p) /\ (Authority(f, 1 - p) => Newer(f[p][Intent].seq, f[1 - p][Intent].seq))
Plain(r)    == BodyValid(r) /\ r.magic \in {"data", "snapshot"}
Clean(f, p) == \A t \in Slots : f[p][t] # Erased => Plain(f[p][t])
Blank(f)    == \A p \in Pages, t \in Slots : f[p][t] = Erased
Open(f)     == \A p \in Pages : Clean(f, p)
Ended(f, p) == Owner(f, p) /\ BodyValid(f[p][Activate]) /\ BodyValid(f[1 - p][0]) /\ Clean(f, 1 - p)

(* The record at <<p, t>> is the newest of page p, or of the journal. *)
Leads(f, p, t, seq) ==
  \/ Open(f) /\ seq = f[p][t].seq
  \/ Ended(f, 1 - p) /\ \/ t # 0 /\ seq = f[p][t].seq
                        \/ /\ t = 0 /\ seq = f[1 - p][Activate].seq
                           /\ \A u \in Slots \ {0} : f[p][u] = Erased

(* Page p has room for k more records, and no number is further back than     *)
(* leaves room for as many.                                                  *)
Room(f, p, k) == \A t \in 0 .. DataSlots - 1 : t < DataSlots - k => f[p][t] # Erased
Ages(f, p, seq, c) ==
  \E k \in 0 .. DataSlots :
    /\ Room(f, p, k)
    /\ \A q \in Pages, t \in Slots : BodyValid(f[q][t]) =>
         Age(seq, f[q][t].seq) + k <= IF q = p THEN Span(c) - DataSlots - 5 ELSE Span(c) - 3

Quiet(f, lat, seq, value, c) ==
  /\ Struct(f)
  /\ \/ Blank(f) /\ lat = None /\ seq = 0 /\ value = None
     \/ \E p \in Pages, t \in Slots :
          /\ lat = <<p, t>> /\ BodyValid(f[p][t]) /\ value = f[p][t].value
          /\ seq \in Seqs /\ Leads(f, p, t, seq) /\ Ages(f, p, seq, c)

(* Page p is being reclaimed: nothing on the other page counts. *)
Pending(f, p, seq, value, c) ==
  /\ Struct(f) /\ Window(f, Span(c))
  /\ Owner(f, p) /\ f[p][Activate] = Erased
  /\ seq = f[p][Intent].seq /\ value = f[p][Intent].value
  /\ \A t \in Slots : f[p][t] # Erased =>
       /\ BodyValid(f[p][t]) /\ (t # Intent => Plain(f[p][t]))
       /\ Age(seq, f[p][t].seq) <= Span(c) - DataSlots - 4

Good(f, lat, seq, pend, value, c) ==
  \/ pend = None /\ Quiet(f, lat, seq, value, c)
  \/ \E p \in Pages : pend = <<p, Intent>> /\ lat = pend /\ Pending(f, p, seq, value, c)

-----------------------------------------------------------------------------
(* The stages of a save. *)
Here == Good(flash, latest, sequence, pending, saved, resets)

(* The operations of a save, in a row. *)
AppendSteps(p, t, seq, value) ==
  <<Body(<<p, t>>, Data(seq, value)), Commit(<<p, t>>), Remember(<<p, t>>, seq, None, value)>>
ResumeSteps(p, seq, value) ==
  LET t == 1 - p
  IN  <<Erase(t),
        Body(<<t, 0>>, Transition("snapshot", Succ(seq, 1), value, t, seq)), Commit(<<t, 0>>),
        Body(<<p, Activate>>, Transition("activate", Succ(seq, 2), value, t, seq)), Commit(<<p, Activate>>),
        Remember(<<t, 0>>, Succ(seq, 2), None, value)>>
ReclaimSteps(p, seq, value) ==
  LET t == 1 - p
      o == <<p, Intent>>
  IN  <<Body(o, Transition("intent", seq, value, t, seq)), Commit(o), Remember(o, seq, o, value),
        Erase(t),
        Body(<<t, 0>>, Transition("snapshot", Succ(seq, 1), value, t, seq)), Commit(<<t, 0>>),
        Body(<<p, Activate>>, Transition("activate", Succ(seq, 2), value, t, seq)), Commit(<<p, Activate>>),
        Remember(<<t, 0>>, Succ(seq, 2), None, value)>>

(* nonceStoreSave found <<p, t>> to be the first free slot. *)
FirstFreeAt(p, t) == /\ p = Page /\ flash[p][t] = Erased
                     /\ \A u \in 0 .. t - 1 : flash[p][u] # Erased
Appending(p, t) ==
  LET s     == Succ(sequence, 1)
      steps == AppendSteps(p, t, s, request)
  IN  /\ pending = None
      /\ \/ Here /\ FirstFreeAt(p, t) /\ plan = steps
         \/ Good(flash, <<p, t>>, s, None, request, resets) /\ plan \in {Tail(steps), Tail(Tail(steps))}

Full(p) == /\ p = Page /\ \A t \in 0 .. DataSlots - 1 : flash[p][t] # Erased
           /\ flash[p][Intent] = Erased /\ flash[p][Activate] = Erased
Authorising(p) ==
  LET o     == <<p, Intent>>
      s     == Succ(sequence, 1)
      steps == ReclaimSteps(p, s, saved)
  IN  /\ pending = None /\ saved # None
      /\ \/ Here /\ Full(p) /\ plan = steps
         \/ Good(flash, o, s, o, saved, resets) /\ plan \in {Tail(steps), Tail(Tail(steps))}

Bare(q)   == \A t \in Slots : flash[q][t] = Erased
Copied(p) == /\ Matches(flash[1 - p][0], "snapshot", flash[p][Intent], Succ(sequence, 1))
             /\ \A t \in Slots \ {0} : flash[1 - p][t] = Erased
Resuming(p) ==
  LET steps == ResumeSteps(p, sequence, saved)
      two   == Tail(Tail(steps))
      four  == Tail(Tail(two))
  IN  /\ pending = <<p, Intent>>
      /\ \/ Here /\ plan = steps
         \/ Here /\ Bare(1 - p) /\ plan = Tail(steps)
         \/ Here /\ Copied(p) /\ plan \in {two, Tail(two)}
         \/ /\ Good(flash, <<1 - p, 0>>, Succ(sequence, 2), None, saved, resets)
            /\ BodyValid(flash[p][Activate]) /\ plan \in {four, Tail(four)}

Saving == /\ request \in Values
          /\ saved # None => request >= saved
          /\ \/ plan = <<>> /\ pending = None /\ Here
             \/ \E p \in Pages, t \in 0 .. DataSlots - 1 : Appending(p, t)
             \/ \E p \in Pages : Authorising(p) \/ Resuming(p)

Erasing == /\ authorised /\ power = "on" /\ request = None
           /\ resets > 0 /\ Struct(flash) /\ Window(flash, Span(resets) - 2 * DataSlots - 6)
           /\ plan \in {<<Erase(0), Erase(1)>>, <<Erase(1)>>, <<>>}

(* Whatever a scan accepts is good. *)
Sound(f, c) == LET found == Scan(f)
               IN  found.accepts =>
                     Good(f, found.latest, found.sequence, found.pending, found.saved, c)

IInv == /\ power \in {"off", "on", "failed"} /\ authorised \in BOOLEAN /\ resets \in 0 .. MaxResets
        /\ flash \in Flash /\ durable = Recovered(flash)
        /\ durable \in Values \cup {None, Refused}
        /\ IF authorised THEN Erasing
           ELSE IF power # "on" THEN plan = <<>> /\ request = None /\ Sound(flash, resets)
           ELSE \/ request = None /\ plan = <<>> /\ Here
                \/ Saving
-----------------------------------------------------------------------------
(* Numbers that wrap. *)
Half == SeqSpan \div 2

LEMMA Constants ==
  /\ SeqSpan \in Nat /\ DataSlots \in Nat /\ DataSlots >= 2 /\ MaxResets \in Nat
  /\ Half \in Nat /\ 2 * Half <= SeqSpan
  /\ \A c \in 0 .. MaxResets : /\ Span(c) \in Nat /\ Span(c) < Half /\ Span(c) >= 2 * DataSlots + 6
  /\ \A c \in 0 .. MaxResets : c > 0 => Span(c) - 2 * DataSlots - 6 = Span(c - 1)
PROOF
  <1>1. /\ SeqSpan \in Nat /\ DataSlots \in Nat /\ DataSlots >= 2 /\ MaxResets \in Nat
        /\ (MaxResets + 1) * (2 * DataSlots + 6) < Half
    BY JournalAssumption DEF Half
  <1>2. Half \in Nat /\ 2 * Half <= SeqSpan
    BY <1>1 DEF Half
  <1>3. ASSUME NEW c \in 0 .. MaxResets
        PROVE  /\ Span(c) \in Nat /\ Span(c) < Half /\ Span(c) >= 2 * DataSlots + 6
               /\ c > 0 => Span(c) - 2 * DataSlots - 6 = Span(c - 1)
    <2> DEFINE K == 2 * DataSlots + 6
    <2>1. K \in Nat /\ c \in Nat /\ MaxResets - c \in Nat
      BY <1>1
    <2>2. \A a, b \in Nat : a * b \in Nat
      OBVIOUS
    <2>3. c * K \in Nat /\ (MaxResets - c) * K \in Nat
      BY <2>1, <2>2
    <2>4. Span(c) = c * K + K /\ (MaxResets + 1) * K = c * K + (MaxResets - c) * K + K
      BY <1>1, <2>1 DEF Span
    <2>5. c > 0 => Span(c - 1) = c * K
      BY <1>1, <2>1 DEF Span
    <2>6. (MaxResets + 1) * K < Half
      BY <1>1
    <2> HIDE DEF K
    <2>7. Span(c) \in Nat /\ Span(c) < Half /\ Span(c) >= K /\ (c > 0 => Span(c) - K = Span(c - 1))
      BY <2>1, <2>3, <2>4, <2>5, <2>6, <1>2
    <2>8. QED
      BY <2>7, <1>1, <2>1 DEF K
  <1>4. QED
    BY <1>1, <1>2, <1>3

LEMMA AgeIs ==
  ASSUME NEW n \in Seqs, NEW a \in Seqs
  PROVE  /\ Age(n, a) = IF n >= a THEN n - a ELSE n - a + SeqSpan
         /\ Age(n, a) \in Seqs
  BY Constants DEF Age, Seqs

LEMMA SuccIs ==
  ASSUME NEW a \in Seqs, NEW k \in 0 .. SeqSpan - 1
  PROVE  /\ Succ(a, k) = IF a + k < SeqSpan THEN a + k ELSE a + k - SeqSpan
         /\ Succ(a, k) \in Seqs
  BY Constants DEF Succ, Seqs

LEMMA NewerIs ==
  ASSUME NEW a \in Seqs, NEW b \in Seqs
  PROVE  Newer(a, b) <=> Age(a, b) > 0 /\ Age(a, b) < Half
PROOF
  <1>0. /\ a \in Int /\ b \in Int /\ 0 <= a /\ a < SeqSpan /\ 0 <= b /\ b < SeqSpan /\ SeqSpan \in Nat
        /\ Age(a, b) = IF a >= b THEN a - b ELSE a - b + SeqSpan
    BY AgeIs, Constants DEF Seqs
  <1>1. Age(a, b) = 0 <=> a = b
    BY <1>0
  <1>2. Age(a, b) \in Nat
    BY <1>0
  <1>3. Newer(a, b) <=> a # b /\ Age(a, b) < Half
    BY DEF Newer, Age, Half
  <1>4. QED
    BY <1>1, <1>2, <1>3

(* Ages as seen from n compare as the numbers do, as long as they are small.  *)
LEMMA AgesCompare ==
  ASSUME NEW n \in Seqs, NEW a \in Seqs, NEW b \in Seqs, Age(n, a) < Half, Age(n, b) < Half
  PROVE  /\ Newer(a, b) <=> Age(n, a) < Age(n, b)
         /\ Age(n, a) <= Age(n, b) => Age(a, b) = Age(n, b) - Age(n, a)
         /\ Age(n, a) = Age(n, b) => a = b
PROOF
  <1>1. /\ n \in Int /\ a \in Int /\ b \in Int /\ 0 <= n /\ n < SeqSpan /\ 0 <= a /\ a < SeqSpan
        /\ 0 <= b /\ b < SeqSpan /\ 2 * Half <= SeqSpan /\ Half \in Nat /\ SeqSpan \in Nat
    BY Constants DEF Seqs
  <1>2. /\ Age(n, a) = IF n >= a THEN n - a ELSE n - a + SeqSpan
        /\ Age(n, b) = IF n >= b THEN n - b ELSE n - b + SeqSpan
        /\ Age(a, b) = IF a >= b THEN a - b ELSE a - b + SeqSpan
    BY AgeIs
  <1>3. Age(n, a) <= Age(n, b) => Age(a, b) = Age(n, b) - Age(n, a)
    BY <1>1, <1>2
  <1>4. Age(n, a) > Age(n, b) => Age(a, b) >= Half
    BY <1>1, <1>2
  <1>5. Age(n, a) = Age(n, b) => a = b
    BY <1>1, <1>2
  <1>6. Age(n, a) \in Int /\ Age(n, b) \in Int /\ Age(n, a) >= 0
    BY <1>1, <1>2
  <1>7. Newer(a, b) <=> Age(a, b) > 0 /\ Age(a, b) < Half
    BY NewerIs
  <1>8. Age(n, a) < Age(n, b) => Newer(a, b)
    BY <1>1, <1>3, <1>6, <1>7
  <1>9. Age(n, a) > Age(n, b) => ~Newer(a, b)
    BY <1>1, <1>4, <1>7, <1>2
  <1>10. Age(n, a) = Age(n, b) => ~Newer(a, b)
    BY <1>5, <1>7, <1>3, <1>6
  <1>11. QED
    BY <1>3, <1>5, <1>6, <1>8, <1>9, <1>10

LEMMA AgeLater ==
  ASSUME NEW n \in Seqs, NEW a \in Seqs, NEW k \in Nat, Age(n, a) + k < SeqSpan, k < SeqSpan
  PROVE  Succ(n, k) \in Seqs /\ Age(Succ(n, k), a) = Age(n, a) + k
PROOF
  <1>1. k \in 0 .. SeqSpan - 1
    BY Constants
  <1>2. Succ(n, k) \in Seqs /\ Succ(n, k) = IF n + k < SeqSpan THEN n + k ELSE n + k - SeqSpan
    BY <1>1, SuccIs
  <1>3. Age(n, a) = IF n >= a THEN n - a ELSE n - a + SeqSpan
    BY AgeIs
  <1>4. Age(Succ(n, k), a) = IF Succ(n, k) >= a THEN Succ(n, k) - a ELSE Succ(n, k) - a + SeqSpan
    BY <1>2, AgeIs
  <1>5. n \in Int /\ a \in Int /\ 0 <= n /\ n < SeqSpan /\ 0 <= a /\ a < SeqSpan /\ SeqSpan \in Nat
    BY Constants DEF Seqs
  <1>6. QED
    BY <1>2, <1>3, <1>4, <1>5

LEMMA AgeSelf ==
  ASSUME NEW n \in Seqs
  PROVE  Age(n, n) = 0
  BY AgeIs, Constants DEF Seqs
-----------------------------------------------------------------------------
(* Pages and slots. *)
LEMMA PagesAre ==
  /\ \A p \in Pages : 1 - p \in Pages /\ 1 - (1 - p) = p /\ p # 1 - p /\ \A q \in Pages : q = p \/ q = 1 - p
  /\ Intent \in Slots /\ Activate \in Slots /\ 0 \in Slots /\ 0 # Intent /\ 0 # Activate /\ Intent # Activate
  /\ \A t \in 0 .. DataSlots - 1 : t \in Slots /\ t # Intent /\ t # Activate /\ t \in Nat
  /\ \A t \in Slots : t \in Nat /\ (t \in 0 .. DataSlots - 1 \/ t = Intent \/ t = Activate)
  /\ 0 \in 0 .. DataSlots - 1
  BY Constants DEF Pages, Slots, Intent, Activate

LEMMA RecordIs ==
  ASSUME NEW f, Typed(f), NEW p \in Pages, NEW t \in Slots, BodyValid(f[p][t])
  PROVE  /\ f[p][t] \in Record /\ Fits(f[p][t], p, t)
         /\ f[p][t].seq \in Seqs /\ f[p][t].value \in Values
PROOF
  <1>1. f[p][t] \in Record \cup {Erased, Torn}
    BY DEF Typed, Flash
  <1>2. f[p][t] \in Record
    BY <1>1 DEF BodyValid
  <1>3. QED
    BY <1>2 DEF Typed, Record, Seqs

LEMMA RecordsAreValid ==
  /\ \A r \in Record : BodyValid(r) /\ r # Erased /\ r # Torn
  /\ ~BodyValid(Erased) /\ ~BodyValid(Torn) /\ Erased # Torn
  BY NotRecords DEF BodyValid

(* An owner is what Owners finds. *)
LEMMA AuthorityIs ==
  ASSUME NEW f, Typed(f), NEW p \in Pages
  PROVE  IsAuthority(f, p) <=> Authority(f, p)
PROOF
  <1>1. CASE BodyValid(f[p][Intent]) /\ f[p][Intent].magic = "intent"
    <2>1. Fits(f[p][Intent], p, Intent)
      BY <1>1, PagesAre, RecordIs
    <2>2. f[p][Intent].target = 1 - p /\ f[p][Intent].parent = f[p][Intent].seq
      BY <1>1, <2>1, PagesAre DEF Fits
    <2>3. QED
      BY <1>1, <2>2 DEF IsAuthority, Authority
  <1>2. CASE ~ (BodyValid(f[p][Intent]) /\ f[p][Intent].magic = "intent")
    BY <1>2 DEF IsAuthority, Authority
  <1>3. QED
    BY <1>1, <1>2

(* Records lost, torn or committed leave the structure as it is. *)
SameBody(r, s) == /\ r.magic = s.magic /\ r.seq = s.seq /\ r.value = s.value
                  /\ r.target = s.target /\ r.parent = s.parent
Remains(r, s) == r \in {Erased, Torn} \/ (BodyValid(r) /\ BodyValid(s) /\ SameBody(r, s))
Lost(f, g) == g \in Flash /\ \A p \in Pages, t \in Slots : Remains(g[p][t], f[p][t])

LEMMA LostStruct ==
  ASSUME NEW f, NEW g, Struct(f), Lost(f, g)
  PROVE  /\ Struct(g)
         /\ \A b : Window(f, b) => Window(g, b)
PROOF
  <1>1. \A p \in Pages, t \in Slots : BodyValid(g[p][t]) => BodyValid(f[p][t]) /\ SameBody(g[p][t], f[p][t])
    BY RecordsAreValid DEF Lost, Remains, BodyValid
  <1>2. \A p \in Pages : Authority(g, p) => Authority(f, p) /\ SameBody(g[p][Intent], f[p][Intent])
    BY <1>1, PagesAre DEF Authority, SameBody
  <1>3. Typed(g)
    BY <1>1 DEF Lost, Struct, Typed, Fits, SameBody
  <1>4. Distinct(g)
    BY <1>1 DEF Struct, Distinct, SameBody
  <1>5. ASSUME NEW p \in Pages, NEW q \in Pages, NEW t \in Slots, NEW k, NEW m,
               Authority(g, p), BodyValid(g[q][t]), Matches(f[q][t], m, f[p][Intent], k)
        PROVE  Matches(g[q][t], m, g[p][Intent], k)
    BY <1>1, <1>2, <1>5, PagesAre DEF Matches, SameBody
  <1>6. Below(g)
    <2>1. SUFFICES ASSUME NEW p \in Pages, Authority(g, p)
                   PROVE  /\ \A t \in 0 .. DataSlots - 1 :
                               BodyValid(g[p][t]) => Newer(g[p][Intent].seq, g[p][t].seq)
                          /\ BodyValid(g[p][Activate])
                               => Matches(g[p][Activate], "activate", g[p][Intent], Succ(g[p][Intent].seq, 2))
      BY DEF Below
    <2>2. Authority(f, p) /\ g[p][Intent].seq = f[p][Intent].seq
      BY <1>2, <2>1 DEF SameBody
    <2>3. \A t \in 0 .. DataSlots - 1 : BodyValid(g[p][t]) => Newer(g[p][Intent].seq, g[p][t].seq)
      BY <1>1, <2>2, PagesAre DEF Struct, Below, SameBody
    <2>4. BodyValid(g[p][Activate])
            => Matches(f[p][Activate], "activate", f[p][Intent], Succ(f[p][Intent].seq, 2))
      BY <1>1, <2>2, PagesAre DEF Struct, Below
    <2>5. QED
      BY <1>5, <2>1, <2>2, <2>3, <2>4, PagesAre
  <1>7. Above(g)
    <2>1. SUFFICES ASSUME NEW p \in Pages, Authority(g, p), BodyValid(g[p][Activate])
                   PROVE  /\ BodyValid(g[1 - p][0])
                               => Matches(g[1 - p][0], "snapshot", g[p][Intent], Succ(g[p][Intent].seq, 1))
                          /\ \A t \in Slots \ {0} :
                               BodyValid(g[1 - p][t]) => Newer(g[1 - p][t].seq, g[p][Activate].seq)
      BY DEF Above
    <2>2. /\ Authority(f, p) /\ g[p][Intent].seq = f[p][Intent].seq
          /\ BodyValid(f[p][Activate]) /\ g[p][Activate].seq = f[p][Activate].seq
      BY <1>1, <1>2, <2>1, PagesAre DEF SameBody
    <2>3. \A t \in Slots \ {0} : BodyValid(g[1 - p][t]) => Newer(g[1 - p][t].seq, g[p][Activate].seq)
      BY <1>1, <2>2, PagesAre DEF Struct, Above, SameBody
    <2>4. BodyValid(g[1 - p][0])
            => Matches(f[1 - p][0], "snapshot", f[p][Intent], Succ(f[p][Intent].seq, 1))
      BY <1>1, <2>2, PagesAre DEF Struct, Above
    <2>5. QED
      BY <1>5, <2>1, <2>2, <2>3, <2>4, PagesAre
  <1>8. \A b : Window(f, b) => Window(g, b)
    BY <1>1 DEF Window, SameBody
  <1>9. QED
    BY <1>3, <1>4, <1>6, <1>7, <1>8 DEF Struct
-----------------------------------------------------------------------------
(* The parts of nonceStoreScan. *)
At(f, o)   == f[o[1]][o[2]]
Working(f) == {p \in Owners(f) : Reclaiming(f, p)}
Concluded(f)   == Owners(f) \ Working(f)
Active(f)  == IF Owners(f) = {} THEN Pages ELSE Working(f) \cup {1 - p : p \in Concluded(f)}
Used(f)    == {o \in Active(f) \X Slots : At(f, o) # Erased}
Floor(f)   == {f[p][Activate].seq : p \in Concluded(f)}
Fresh(f)   == {o \in Used(f) : \A n \in Floor(f) : Newer(At(f, o).seq, n)}
Pend(f)    == {<<p, Intent>> : p \in Working(f)}
Newest(f)  == IF Fresh(f) = {} THEN CHOOSE o \in Used(f) : \A q \in Used(f) : ~Before(q, o)
              ELSE CHOOSE o \in Fresh(f) : \A q \in Fresh(f) : ~Newer(At(f, q).seq, At(f, o).seq)
Refuses(f) == \/ \E p \in Concluded(f) : ~Activated(f, p)
              \/ \E o \in Used(f) : ~Expected(At(f, o), o, o \in Pend(f))
              \/ Owners(f) # {} /\ Used(f) = {}
Found(lat, seq, pend, value) ==
  [accepts |-> TRUE, latest |-> lat, sequence |-> seq, pending |-> pend, saved |-> value]

LEMMA ScanIs ==
  ASSUME NEW f
  PROVE  Scan(f) = IF Refuses(f) THEN Refusal
                   ELSE Found(IF Used(f) = {} THEN None ELSE Newest(f),
                              IF Fresh(f) # {} THEN At(f, Newest(f)).seq
                              ELSE IF Floor(f) # {} THEN CHOOSE n \in Floor(f) : TRUE ELSE 0,
                              IF Pend(f) = {} THEN None ELSE CHOOSE o \in Pend(f) : TRUE,
                              IF Used(f) = {} THEN None ELSE At(f, Newest(f)).value)
  BY DEF Scan, Refuses, Found, Newest, Fresh, Floor, Used, Active, Concluded, Working, Pend, At

LEMMA OwnersAre ==
  ASSUME NEW f, Struct(f), NEW b \in 0 .. Half - 1, Window(f, b)
  PROVE  /\ (\A p \in Pages : ~Authority(f, p)) => Owners(f) = {}
         /\ \A p \in Pages : Owner(f, p) => Owners(f) = {p}
         /\ \/ \A p \in Pages : ~Authority(f, p)
            \/ \E p \in Pages : Owner(f, p)
PROOF
  <1>1. \A p \in Pages : IsAuthority(f, p) <=> Authority(f, p)
    BY AuthorityIs DEF Struct
  <1>2. PICK n \in Seqs : \A p \in Pages, t \in Slots : BodyValid(f[p][t]) => Age(n, f[p][t].seq) <= b
    BY DEF Window
  <1>3. ASSUME NEW p \in Pages, Authority(f, p)
        PROVE  /\ f[p][Intent].seq \in Seqs /\ Age(n, f[p][Intent].seq) < Half
               /\ Age(n, f[p][Intent].seq) \in Int
    <2>1. BodyValid(f[p][Intent]) /\ Intent \in Slots /\ f[p][Intent].seq \in Seqs
      BY <1>3, PagesAre, RecordIs DEF Authority, Struct
    <2>2. Age(n, f[p][Intent].seq) \in Seqs
      BY <2>1, AgeIs
    <2>3. QED
      BY <1>2, <2>1, <2>2, Constants DEF Seqs
  <1>4. ASSUME NEW p \in Pages, NEW q \in Pages, p # q, Authority(f, p), Authority(f, q)
        PROVE  ~ (Newer(f[p][Intent].seq, f[q][Intent].seq) <=> Newer(f[q][Intent].seq, f[p][Intent].seq))
    <2>1. f[p][Intent].seq # f[q][Intent].seq
      BY <1>4, PagesAre DEF Struct, Distinct, Authority
    <2>2. Age(n, f[p][Intent].seq) # Age(n, f[q][Intent].seq)
      BY <1>3, <1>4, <2>1, AgesCompare
    <2>3. QED
      BY <1>3, <1>4, <2>2, AgesCompare
  <1>5. \A p \in Pages : Authority(f, p) => ~Newer(f[p][Intent].seq, f[p][Intent].seq)
    BY DEF Newer
  <1>6. ASSUME NEW p \in Pages, Owner(f, p)
        PROVE  Owners(f) = {p}
    <2>1. Authority(f, p) /\ (Authority(f, 1 - p) => Newer(f[p][Intent].seq, f[1 - p][Intent].seq))
      BY <1>6 DEF Owner
    <2>2. 1 - p \in Pages /\ p # 1 - p /\ \A q \in Pages : q = p \/ q = 1 - p
      BY PagesAre
    <2>3. Authority(f, 1 - p) => ~Newer(f[1 - p][Intent].seq, f[p][Intent].seq)
      BY <1>4, <2>1, <2>2
    <2>4. QED
      BY <1>1, <1>5, <2>1, <2>2, <2>3 DEF Owners
  <1>7. (\A p \in Pages : ~Authority(f, p)) => Owners(f) = {}
    BY <1>1 DEF Owners
  <1>8. \/ \A p \in Pages : ~Authority(f, p)
        \/ \E p \in Pages : Owner(f, p)
    BY <1>4, PagesAre DEF Owner
  <1>9. QED
    BY <1>6, <1>7, <1>8

(* What the two loops read, in each of the three cases.                       *)
LEMMA OpenParts ==
  ASSUME NEW f, Owners(f) = {}
  PROVE  /\ Active(f) = Pages /\ Working(f) = {} /\ Concluded(f) = {} /\ Floor(f) = {} /\ Pend(f) = {}
         /\ Fresh(f) = Used(f)
  BY DEF Active, Working, Concluded, Floor, Pend, Fresh

LEMMA PendingParts ==
  ASSUME NEW f, NEW p \in Pages, Owners(f) = {p}, f[p][Activate] = Erased
  PROVE  /\ Active(f) = {p} /\ Working(f) = {p} /\ Concluded(f) = {} /\ Floor(f) = {}
         /\ Pend(f) = {<<p, Intent>>} /\ Fresh(f) = Used(f)
PROOF
  <1>1. Working(f) = {p} /\ Concluded(f) = {}
    BY DEF Working, Concluded, Reclaiming
  <1>2. QED
    BY <1>1 DEF Active, Floor, Pend, Fresh

LEMMA EndedParts ==
  ASSUME NEW f, NEW p \in Pages, Owners(f) = {p}, f[p][Activate] # Erased
  PROVE  /\ Active(f) = {1 - p} /\ Working(f) = {} /\ Concluded(f) = {p}
         /\ Floor(f) = {f[p][Activate].seq} /\ Pend(f) = {}
PROOF
  <1>1. Working(f) = {} /\ Concluded(f) = {p}
    BY DEF Working, Concluded, Reclaiming
  <1>2. QED
    BY <1>1 DEF Active, Floor, Pend
LEMMA NewerOrders ==
  /\ \A a, b \in Seqs : Newer(a, b) => ~Newer(b, a)
  /\ \A a \in Seqs : ~Newer(a, a)
PROOF
  <1>1. ASSUME NEW a \in Seqs, NEW b \in Seqs, Newer(a, b), Newer(b, a)
        PROVE  FALSE
    <2>1. /\ Age(a, b) > 0 /\ Age(a, b) < Half /\ Age(b, a) > 0 /\ Age(b, a) < Half
      BY <1>1, NewerIs
    <2>2. /\ Age(a, b) = IF a >= b THEN a - b ELSE a - b + SeqSpan
          /\ Age(b, a) = IF b >= a THEN b - a ELSE b - a + SeqSpan
      BY AgeIs
    <2>3. /\ a \in Int /\ b \in Int /\ SeqSpan \in Nat /\ Half \in Nat /\ 2 * Half <= SeqSpan
      BY Constants DEF Seqs
    <2>4. QED
      BY <2>1, <2>2, <2>3
  <1>2. QED
    BY <1>1 DEF Newer

(* The loop ends with the record that all others are older than.              *)
LEMMA NewestIs ==
  ASSUME NEW f, NEW x \in Fresh(f),
         \A o \in Fresh(f) : At(f, o).seq \in Seqs,
         \A o \in Fresh(f) : o # x => Newer(At(f, x).seq, At(f, o).seq)
  PROVE  Newest(f) = x
PROOF
  <1>1. \A q \in Fresh(f) : ~Newer(At(f, q).seq, At(f, x).seq)
    BY NewerOrders
  <1>2. ASSUME NEW o \in Fresh(f), \A q \in Fresh(f) : ~Newer(At(f, q).seq, At(f, o).seq)
        PROVE  o = x
    BY <1>2
  <1>3. (CHOOSE o \in Fresh(f) : \A q \in Fresh(f) : ~Newer(At(f, q).seq, At(f, o).seq)) = x
    BY <1>1, <1>2
  <1>4. QED
    BY <1>3 DEF Newest

LEMMA UsedIs ==
  ASSUME NEW f
  PROVE  /\ \A p \in Pages, t \in Slots : <<p, t>> \in Used(f) <=> p \in Active(f) /\ f[p][t] # Erased
         /\ \A o \in Used(f) : \E p \in Active(f), t \in Slots : o = <<p, t>>
         /\ \A p, t : At(f, <<p, t>>) = f[p][t]
  BY DEF Used, At

LEMMA PlainExpected ==
  ASSUME NEW f, Typed(f), NEW p \in Pages, NEW t \in Slots, NEW b, Plain(f[p][t])
  PROVE  Expected(f[p][t], <<p, t>>, b)
PROOF
  <1>1. Fits(f[p][t], p, t)
    BY RecordIs DEF Plain
  <1>2. QED
    BY <1>1 DEF Plain, Fits, Expected

LEMMA ScanPending ==
  ASSUME NEW f, NEW p \in Pages, NEW seq, NEW value, NEW c \in 0 .. MaxResets,
         Pending(f, p, seq, value, c)
  PROVE  Scan(f) = Found(<<p, Intent>>, seq, <<p, Intent>>, value)
PROOF
  <1> DEFINE x == <<p, Intent>>
  <1>1. /\ Struct(f) /\ Window(f, Span(c)) /\ Owner(f, p) /\ f[p][Activate] = Erased
        /\ seq = f[p][Intent].seq /\ value = f[p][Intent].value /\ Typed(f)
    BY DEF Pending, Struct
  <1>2. Span(c) \in 0 .. Half - 1
    BY Constants
  <1>3. Owners(f) = {p}
    BY <1>1, <1>2, OwnersAre
  <1>4. /\ Active(f) = {p} /\ Concluded(f) = {} /\ Pend(f) = {x} /\ Fresh(f) = Used(f) /\ Floor(f) = {}
    BY <1>1, <1>3, PendingParts
  <1>5. \A o \in Used(f) : \E t \in Slots : o = <<p, t>> /\ f[p][t] # Erased
    BY <1>4, UsedIs
  <1>6. BodyValid(f[p][Intent]) /\ f[p][Intent] # Erased /\ x \in Used(f)
    BY <1>1, <1>4, PagesAre, UsedIs DEF Owner, Authority, BodyValid
  <1>7. \A o \in Used(f) : Expected(At(f, o), o, o \in Pend(f))
    <2>1. SUFFICES ASSUME NEW t \in Slots, f[p][t] # Erased
                   PROVE  Expected(f[p][t], <<p, t>>, <<p, t>> \in Pend(f))
      BY <1>5, UsedIs
    <2>2. BodyValid(f[p][t]) /\ (t # Intent => Plain(f[p][t]))
      BY <2>1 DEF Pending
    <2>3. CASE t = Intent
      BY <1>4, <2>2, <2>3 DEF Expected
    <2>4. CASE t # Intent
      BY <1>1, <2>2, <2>4, PlainExpected
    <2>5. QED
      BY <2>3, <2>4
  <1>8. ~Refuses(f)
    BY <1>4, <1>6, <1>7 DEF Refuses
  <1>9. Newest(f) = x
    <2>1. \A o \in Fresh(f) : At(f, o).seq \in Seqs
      BY <1>1, <1>4, <1>5, RecordIs, UsedIs DEF Pending
    <2>2. \A o \in Fresh(f) : o # x => Newer(At(f, x).seq, At(f, o).seq)
      <3>1. SUFFICES ASSUME NEW t \in Slots, f[p][t] # Erased, t # Intent
                     PROVE  Newer(f[p][Intent].seq, f[p][t].seq)
        BY <1>4, <1>5, UsedIs
      <3>2. t \in 0 .. DataSlots - 1 /\ BodyValid(f[p][t])
        BY <1>1, <3>1, PagesAre DEF Pending
      <3>3. QED
        BY <1>1, <3>2 DEF Struct, Below, Owner
    <2>3. QED
      BY <1>4, <1>6, <2>1, <2>2, NewestIs
  <1>10. (CHOOSE o \in Pend(f) : TRUE) = x
    BY <1>4
  <1>11. At(f, x) = f[p][Intent]
    BY UsedIs
  <1>12. QED
    BY <1>1, <1>4, <1>6, <1>8, <1>9, <1>10, <1>11, ScanIs
LEMMA SuccNewer ==
  ASSUME NEW a \in Seqs
  PROVE  /\ Succ(a, 1) \in Seqs /\ Succ(a, 2) \in Seqs
         /\ Newer(Succ(a, 1), a) /\ Newer(Succ(a, 2), a) /\ Newer(Succ(a, 2), Succ(a, 1))
         /\ Succ(Succ(a, 1), 1) = Succ(a, 2)
PROOF
  <1>1. 0 \in 0 .. MaxResets /\ 10 < Half /\ 2 * Half <= SeqSpan /\ SeqSpan \in Nat /\ Half \in Nat
    <2>1. 0 \in 0 .. MaxResets
      BY Constants
    <2>2. Span(0) < Half /\ Span(0) >= 2 * DataSlots + 6 /\ DataSlots >= 2 /\ DataSlots \in Nat /\ Span(0) \in Nat
      BY <2>1, Constants
    <2>3. QED
      BY <2>1, <2>2, Constants
  <1>2. a \in Int /\ 0 <= a /\ a < SeqSpan /\ 1 \in 0 .. SeqSpan - 1 /\ 2 \in 0 .. SeqSpan - 1
    BY <1>1 DEF Seqs
  <1>3. /\ Succ(a, 1) = IF a + 1 < SeqSpan THEN a + 1 ELSE a + 1 - SeqSpan
        /\ Succ(a, 2) = IF a + 2 < SeqSpan THEN a + 2 ELSE a + 2 - SeqSpan
        /\ Succ(a, 1) \in Seqs /\ Succ(a, 2) \in Seqs
    BY <1>2, SuccIs
  <1>4. Succ(Succ(a, 1), 1) = IF Succ(a, 1) + 1 < SeqSpan THEN Succ(a, 1) + 1 ELSE Succ(a, 1) + 1 - SeqSpan
    BY <1>2, <1>3, SuccIs
  <1>5. Age(Succ(a, 1), a) = 1 /\ Age(Succ(a, 2), a) = 2 /\ Age(Succ(a, 2), Succ(a, 1)) = 1
    <2>1. /\ Age(Succ(a, 1), a) = IF Succ(a, 1) >= a THEN Succ(a, 1) - a ELSE Succ(a, 1) - a + SeqSpan
          /\ Age(Succ(a, 2), a) = IF Succ(a, 2) >= a THEN Succ(a, 2) - a ELSE Succ(a, 2) - a + SeqSpan
          /\ Age(Succ(a, 2), Succ(a, 1)) = IF Succ(a, 2) >= Succ(a, 1) THEN Succ(a, 2) - Succ(a, 1)
                                           ELSE Succ(a, 2) - Succ(a, 1) + SeqSpan
      BY <1>3, AgeIs
    <2>2. QED
      BY <1>1, <1>2, <1>3, <2>1
  <1>6. Newer(Succ(a, 1), a) /\ Newer(Succ(a, 2), a) /\ Newer(Succ(a, 2), Succ(a, 1))
    BY <1>1, <1>3, <1>5, NewerIs
  <1>7. Succ(Succ(a, 1), 1) = Succ(a, 2)
    BY <1>1, <1>2, <1>3, <1>4
  <1>8. QED
    BY <1>3, <1>6, <1>7

LEMMA QuietWindow ==
  ASSUME NEW f, NEW lat, NEW seq, NEW value, NEW c \in 0 .. MaxResets, Quiet(f, lat, seq, value, c)
  PROVE  Window(f, Span(c))
PROOF
  <1>1. Span(c) \in Nat
    BY Constants
  <1>2. CASE Blank(f)
    <2>1. 0 \in Seqs
      BY Constants DEF Seqs
    <2>2. \A p \in Pages, t \in Slots : ~BodyValid(f[p][t])
      BY <1>2, RecordsAreValid DEF Blank
    <2>3. QED
      BY <2>1, <2>2 DEF Window
  <1>3. ASSUME NEW p \in Pages, seq \in Seqs, Ages(f, p, seq, c), Typed(f)
        PROVE  Window(f, Span(c))
    <2>1. PICK k \in 0 .. DataSlots :
            \A q \in Pages, t \in Slots : BodyValid(f[q][t]) =>
              Age(seq, f[q][t].seq) + k <= IF q = p THEN Span(c) - DataSlots - 5 ELSE Span(c) - 3
      BY <1>3 DEF Ages
    <2>2. ASSUME NEW q \in Pages, NEW t \in Slots, BodyValid(f[q][t])
          PROVE  Age(seq, f[q][t].seq) <= Span(c)
      <3>1. Age(seq, f[q][t].seq) \in Int
        BY <1>3, <2>2, RecordIs, AgeIs DEF Seqs
      <3>2. k \in Nat /\ DataSlots \in Nat
        BY Constants
      <3>3. Age(seq, f[q][t].seq) + k <= IF q = p THEN Span(c) - DataSlots - 5 ELSE Span(c) - 3
        BY <2>1, <2>2
      <3>4. QED
        BY <1>1, <3>1, <3>2, <3>3
    <2>3. QED
      BY <1>3, <2>2 DEF Window
  <1>4. QED
    BY <1>2, <1>3 DEF Quiet, Struct

(* In quiet pages no other record is as new as seq.                           *)
LEMMA QuietNewest ==
  ASSUME NEW f, NEW c \in 0 .. MaxResets, NEW p \in Pages, NEW t \in Slots, Struct(f),
         BodyValid(f[p][t]), Ages(f, p, f[p][t].seq, c)
  PROVE  \A q \in Pages, u \in Slots :
           BodyValid(f[q][u]) /\ <<q, u>> # <<p, t>> => Newer(f[p][t].seq, f[q][u].seq)
PROOF
  <1>1. SUFFICES ASSUME NEW q \in Pages, NEW u \in Slots, BodyValid(f[q][u]), q # p \/ u # t
                 PROVE  Newer(f[p][t].seq, f[q][u].seq)
    OBVIOUS
  <1>2. f[p][t].seq \in Seqs /\ f[q][u].seq \in Seqs /\ f[p][t].seq # f[q][u].seq
    BY <1>1, RecordIs DEF Struct, Distinct
  <1>3. PICK k \in 0 .. DataSlots :
          Age(f[p][t].seq, f[q][u].seq) + k <= IF q = p THEN Span(c) - DataSlots - 5 ELSE Span(c) - 3
    BY <1>1 DEF Ages
  <1>4. Age(f[p][t].seq, f[q][u].seq) \in Nat /\ Age(f[p][t].seq, f[q][u].seq) # 0
    <2>1. Age(f[p][t].seq, f[q][u].seq) \in Seqs
      BY <1>2, AgeIs
    <2>2. Age(f[p][t].seq, f[q][u].seq) = IF f[p][t].seq >= f[q][u].seq THEN f[p][t].seq - f[q][u].seq
                                          ELSE f[p][t].seq - f[q][u].seq + SeqSpan
      BY <1>2, AgeIs
    <2>3. \A a, b \in Seqs : a # b => (IF a >= b THEN a - b ELSE a - b + SeqSpan) # 0
      BY Constants DEF Seqs
    <2>4. QED
      BY <1>2, <2>1, <2>2, <2>3 DEF Seqs
  <1>5. Span(c) \in Nat /\ Span(c) < Half /\ k \in Nat /\ DataSlots \in Nat /\ Half \in Nat
    BY Constants
  <1>6. Age(f[p][t].seq, f[q][u].seq) < Half
    BY <1>3, <1>4, <1>5
  <1>7. QED
    BY <1>2, <1>4, <1>6, NewerIs

LEMMA CleanExpected ==
  ASSUME NEW f, Typed(f), NEW p \in Pages, Clean(f, p)
  PROVE  \A t \in Slots : \A b : f[p][t] # Erased => BodyValid(f[p][t]) /\ Expected(f[p][t], <<p, t>>, b)
  BY PlainExpected DEF Clean, Plain

LEMMA CleanNoAuthority ==
  ASSUME NEW f, NEW p \in Pages, Clean(f, p)
  PROVE  ~Authority(f, p)
  BY PagesAre DEF Clean, Plain, Authority, BodyValid

LEMMA ScanBlank ==
  ASSUME NEW f, Struct(f), Blank(f)
  PROVE  Scan(f) = Found(None, 0, None, None)
PROOF
  <1>1. \A p \in Pages : Clean(f, p)
    BY DEF Blank, Clean
  <1>2. Owners(f) = {}
    BY <1>1, CleanNoAuthority, AuthorityIs DEF Owners, Struct
  <1>3. Used(f) = {} /\ Fresh(f) = {} /\ Floor(f) = {} /\ Pend(f) = {} /\ Concluded(f) = {}
    <2>1. Used(f) = {}
      BY <1>2, OpenParts, UsedIs DEF Blank
    <2>2. QED
      BY <1>2, <2>1, OpenParts
  <1>4. ~Refuses(f)
    BY <1>2, <1>3 DEF Refuses
  <1>5. QED
    BY <1>3, <1>4, ScanIs

LEMMA ScanOpen ==
  ASSUME NEW f, NEW c \in 0 .. MaxResets, NEW p \in Pages, NEW t \in Slots, Struct(f), Open(f),
         BodyValid(f[p][t]), Ages(f, p, f[p][t].seq, c)
  PROVE  Scan(f) = Found(<<p, t>>, f[p][t].seq, None, f[p][t].value)
PROOF
  <1> DEFINE x == <<p, t>>
  <1>1. Owners(f) = {}
    BY CleanNoAuthority, AuthorityIs DEF Owners, Struct, Open
  <1>2. /\ Active(f) = Pages /\ Concluded(f) = {} /\ Floor(f) = {} /\ Pend(f) = {} /\ Fresh(f) = Used(f)
    BY <1>1, OpenParts
  <1>3. x \in Used(f) /\ At(f, x) = f[p][t]
    BY <1>2, UsedIs DEF BodyValid
  <1>4. ASSUME NEW o \in Used(f)
        PROVE  /\ Expected(At(f, o), o, o \in Pend(f)) /\ At(f, o).seq \in Seqs
               /\ o # x => Newer(At(f, x).seq, At(f, o).seq)
    <2>1. PICK q \in Pages, u \in Slots : o = <<q, u>>
      BY <1>2, UsedIs
    <2>2. f[q][u] # Erased /\ At(f, o) = f[q][u]
      BY <2>1, UsedIs
    <2>3. BodyValid(f[q][u]) /\ Expected(f[q][u], <<q, u>>, o \in Pend(f))
      BY <2>2, CleanExpected DEF Open, Struct
    <2>4. f[q][u].seq \in Seqs
      BY <2>3, RecordIs DEF Struct
    <2>5. QED
      BY <1>3, <2>1, <2>2, <2>3, <2>4, QuietNewest
  <1>5. ~Refuses(f)
    BY <1>1, <1>2, <1>4 DEF Refuses
  <1>6. Newest(f) = x
    BY <1>2, <1>3, <1>4, NewestIs
  <1>7. QED
    BY <1>2, <1>3, <1>5, <1>6, ScanIs
LEMMA EndedActivated ==
  ASSUME NEW f, Struct(f), NEW q \in Pages, Ended(f, q)
  PROVE  /\ Activated(f, q) /\ f[q][Activate] # Erased
         /\ f[q][Intent].seq \in Seqs
         /\ f[q][Activate].seq = Succ(f[q][Intent].seq, 2) /\ f[1 - q][0].seq = Succ(f[q][Intent].seq, 1)
         /\ f[q][Activate].value = f[q][Intent].value /\ f[1 - q][0].value = f[q][Intent].value
PROOF
  <1>1. /\ Authority(f, q) /\ BodyValid(f[q][Activate]) /\ BodyValid(f[1 - q][0])
    BY DEF Ended, Owner
  <1>2. /\ Matches(f[q][Activate], "activate", f[q][Intent], Succ(f[q][Intent].seq, 2))
        /\ Matches(f[1 - q][0], "snapshot", f[q][Intent], Succ(f[q][Intent].seq, 1))
    BY <1>1 DEF Struct, Below, Above
  <1>3. f[q][Intent].seq \in Seqs
    BY <1>1, PagesAre, RecordIs DEF Authority, Struct
  <1>4. QED
    BY <1>1, <1>2, <1>3 DEF Activated, Matches, BodyValid

LEMMA ScanEnded ==
  ASSUME NEW f, NEW c \in 0 .. MaxResets, NEW p \in Pages, NEW t \in Slots, NEW seq \in Seqs,
         Struct(f), Window(f, Span(c)), Ended(f, 1 - p), BodyValid(f[p][t]), Ages(f, p, seq, c),
         \/ t # 0 /\ seq = f[p][t].seq
         \/ t = 0 /\ seq = f[1 - p][Activate].seq /\ \A u \in Slots \ {0} : f[p][u] = Erased
  PROVE  Scan(f) = Found(<<p, t>>, seq, None, f[p][t].value)
PROOF
  <1> DEFINE x == <<p, t>>
             q == 1 - p
             n == f[q][Activate].seq
  <1>1. q \in Pages /\ 1 - q = p /\ p # q
    BY PagesAre
  <1>2. Span(c) \in 0 .. Half - 1
    BY Constants
  <1>3. Owners(f) = {q} /\ Owner(f, q) /\ Authority(f, q) /\ BodyValid(f[q][Activate]) /\ Clean(f, p)
    BY <1>1, <1>2, OwnersAre DEF Ended, Owner
  <1>4. /\ Activated(f, q) /\ f[q][Activate] # Erased /\ f[q][Intent].seq \in Seqs
        /\ n = Succ(f[q][Intent].seq, 2) /\ f[p][0].seq = Succ(f[q][Intent].seq, 1)
    BY <1>1, EndedActivated
  <1>5. Active(f) = {p} /\ Concluded(f) = {q} /\ Floor(f) = {n} /\ Pend(f) = {}
    BY <1>1, <1>3, <1>4, EndedParts
  <1>6. x \in Used(f) /\ At(f, x) = f[p][t]
    BY <1>5, UsedIs DEF BodyValid
  <1>7. ASSUME NEW o \in Used(f)
        PROVE  \E u \in Slots : /\ o = <<p, u>> /\ At(f, o) = f[p][u] /\ BodyValid(f[p][u])
                                /\ Expected(At(f, o), o, o \in Pend(f)) /\ At(f, o).seq \in Seqs
    <2>1. PICK u \in Slots : o = <<p, u>>
      BY <1>5, UsedIs
    <2>2. f[p][u] # Erased /\ At(f, o) = f[p][u]
      BY <2>1, UsedIs
    <2>3. BodyValid(f[p][u]) /\ Expected(f[p][u], <<p, u>>, o \in Pend(f))
      BY <1>3, <2>2, CleanExpected DEF Struct
    <2>4. f[p][u].seq \in Seqs
      BY <2>3, RecordIs DEF Struct
    <2>5. QED
      BY <2>1, <2>2, <2>3, <2>4
  <1>8. ~Refuses(f)
    BY <1>4, <1>5, <1>6, <1>7 DEF Refuses
  <1>9. CASE t # 0
    <2>1. seq = f[p][t].seq
      BY <1>9
    <2>2. x \in Fresh(f)
      <3>1. Newer(f[p][t].seq, n)
        BY <1>1, <1>3, <1>9 DEF Struct, Above
      <3>2. QED
        BY <1>5, <1>6, <3>1 DEF Fresh
    <2>3. \A o \in Fresh(f) : At(f, o).seq \in Seqs /\ (o # x => Newer(At(f, x).seq, At(f, o).seq))
      <3>1. SUFFICES ASSUME NEW o \in Fresh(f)
                     PROVE  At(f, o).seq \in Seqs /\ (o # x => Newer(At(f, x).seq, At(f, o).seq))
        OBVIOUS
      <3>2. PICK u \in Slots : o = <<p, u>> /\ At(f, o) = f[p][u] /\ BodyValid(f[p][u]) /\ At(f, o).seq \in Seqs
        BY <1>7 DEF Fresh
      <3>3. QED
        BY <1>6, <2>1, <3>2, QuietNewest
    <2>4. Newest(f) = x
      BY <2>2, <2>3, NewestIs
    <2>5. QED
      BY <1>5, <1>6, <1>8, <2>1, <2>2, <2>4, ScanIs
  <1>10. CASE t = 0
    <2>1. seq = n /\ \A u \in Slots \ {0} : f[p][u] = Erased
      BY <1>10
    <2>2. Used(f) = {x}
      BY <1>6, <1>7, <1>10, <2>1 DEF BodyValid
    <2>3. ~Newer(f[p][0].seq, n)
      BY <1>4, SuccNewer, NewerOrders
    <2>4. Fresh(f) = {}
      BY <1>5, <1>6, <1>10, <2>2, <2>3 DEF Fresh
    <2>5. ~Before(x, x)
      BY PagesAre DEF Before, Pages
    <2>6. Newest(f) = x
      BY <2>2, <2>4, <2>5 DEF Newest
    <2>7. (CHOOSE m \in Floor(f) : TRUE) = n
      BY <1>5
    <2>8. QED
      BY <1>5, <1>6, <1>8, <2>1, <2>2, <2>4, <2>6, <2>7, ScanIs
  <1>11. QED
    BY <1>9, <1>10

(* The result of the scan is what Good says it is.                            *)
LEMMA ScanGood ==
  ASSUME NEW f, NEW lat, NEW seq, NEW pend, NEW value, NEW c \in 0 .. MaxResets,
         Good(f, lat, seq, pend, value, c)
  PROVE  Scan(f) = Found(lat, seq, pend, value)
PROOF
  <1>1. CASE pend = None /\ Quiet(f, lat, seq, value, c)
    <2>1. Struct(f) /\ Window(f, Span(c))
      BY <1>1, QuietWindow DEF Quiet
    <2>2. CASE Blank(f) /\ lat = None /\ seq = 0 /\ value = None
      BY <1>1, <2>1, <2>2, ScanBlank
    <2>3. ASSUME NEW p \in Pages, NEW t \in Slots, lat = <<p, t>>, BodyValid(f[p][t]),
                 value = f[p][t].value, seq \in Seqs, Leads(f, p, t, seq), Ages(f, p, seq, c)
          PROVE  Scan(f) = Found(lat, seq, pend, value)
      <3>1. CASE Open(f) /\ seq = f[p][t].seq
        BY <1>1, <2>1, <2>3, <3>1, ScanOpen
      <3>2. CASE /\ Ended(f, 1 - p)
                 /\ \/ t # 0 /\ seq = f[p][t].seq
                    \/ t = 0 /\ seq = f[1 - p][Activate].seq /\ \A u \in Slots \ {0} : f[p][u] = Erased
        BY <1>1, <2>1, <2>3, <3>2, ScanEnded
      <3>3. QED
        BY <2>3, <3>1, <3>2 DEF Leads
    <2>4. QED
      BY <1>1, <2>2, <2>3 DEF Quiet
  <1>2. ASSUME NEW p \in Pages, pend = <<p, Intent>>, lat = pend, Pending(f, p, seq, value, c)
        PROVE  Scan(f) = Found(lat, seq, pend, value)
    BY <1>2, ScanPending
  <1>3. QED
    BY <1>1, <1>2 DEF Good
-----------------------------------------------------------------------------
(* After a factory erase that was cut short, what a scan accepts is good.     *)
LEMMA LeastNat ==
  ASSUME NEW T \in SUBSET Nat, T # {}
  PROVE  \E x \in T : \A y \in T : x <= y
PROOF
  <1> DEFINE Smaller == {p \in Nat \X Nat : p[1] < p[2]}
  <1>1. IsWellFoundedOn(Smaller, Nat)
    BY NatLessThanWellFounded DEF OpToRel
  <1>2. PICK x \in T : \A y \in T : ~ (<<y, x>> \in Smaller)
    BY <1>1, WFMin
  <1>3. \A y \in T : ~ (y < x)
    BY <1>2
  <1>4. QED
    BY <1>3

Within(f, n, b) == \A p \in Pages, t \in Slots : BodyValid(f[p][t]) => Age(n, f[p][t].seq) <= b

(* Among the records of a set of places there is a newest one. *)
LEMMA NewestExists ==
  ASSUME NEW f, Typed(f), NEW n \in Seqs, NEW P \in SUBSET Pages, NEW T \in SUBSET Slots,
         \E p \in P, t \in T : BodyValid(f[p][t])
  PROVE  \E p \in P, t \in T : /\ BodyValid(f[p][t])
                               /\ \A q \in P, u \in T : BodyValid(f[q][u]) =>
                                    Age(n, f[p][t].seq) <= Age(n, f[q][u].seq)
PROOF
  <1> DEFINE V == {o \in P \X T : BodyValid(f[o[1]][o[2]])}
             A == {Age(n, f[o[1]][o[2]].seq) : o \in V}
  <1>1. ASSUME NEW o \in V
        PROVE  Age(n, f[o[1]][o[2]].seq) \in Nat
    <2>1. f[o[1]][o[2]].seq \in Seqs
      BY RecordIs
    <2>2. QED
      BY <2>1, AgeIs DEF Seqs
  <1>2. A \in SUBSET Nat
    BY <1>1
  <1>3. A # {}
    <2>1. PICK p \in P, t \in T : BodyValid(f[p][t])
      OBVIOUS
    <2>2. <<p, t>> \in V
      BY <2>1
    <2>3. QED
      BY <2>2
  <1>4. PICK x \in A : \A y \in A : x <= y
    BY <1>2, <1>3, LeastNat
  <1>5. PICK o \in V : x = Age(n, f[o[1]][o[2]].seq)
    OBVIOUS
  <1>6. ASSUME NEW q \in P, NEW u \in T, BodyValid(f[q][u])
        PROVE  x <= Age(n, f[q][u].seq)
    <2>1. <<q, u>> \in V
      BY <1>6
    <2>2. Age(n, f[<<q, u>>[1]][<<q, u>>[2]].seq) \in A
      BY <2>1
    <2>3. QED
      BY <1>4, <2>2
  <1>7. QED
    BY <1>5, <1>6

LEMMA AgesFrom ==
  ASSUME NEW f, Typed(f), NEW c \in 0 .. MaxResets, NEW n \in Seqs, NEW b \in Nat,
         b <= Span(c) - 2 * DataSlots - 6, Within(f, n, b), NEW p \in Pages, NEW seq \in Seqs, Age(n, seq) <= b,
         \A q \in Pages, t \in Slots : BodyValid(f[q][t]) => Age(n, seq) <= Age(n, f[q][t].seq)
  PROVE  Ages(f, p, seq, c)
PROOF
  <1>1. Span(c) \in Nat /\ Span(c) < Half /\ Half \in Nat /\ DataSlots \in Nat
    BY Constants
  <1>2. ASSUME NEW q \in Pages, NEW t \in Slots, BodyValid(f[q][t])
        PROVE  Age(seq, f[q][t].seq) + DataSlots <= IF q = p THEN Span(c) - DataSlots - 5 ELSE Span(c) - 3
    <2>1. f[q][t].seq \in Seqs
      BY <1>2, RecordIs
    <2>2. Age(n, f[q][t].seq) <= b /\ Age(n, seq) <= Age(n, f[q][t].seq)
      BY <1>2 DEF Within
    <2>3. Age(n, f[q][t].seq) \in Seqs /\ Age(n, seq) \in Seqs
      BY <2>1, AgeIs
    <2>4. Age(n, f[q][t].seq) \in Nat /\ Age(n, seq) \in Nat
      BY <2>3 DEF Seqs
    <2>5. Age(n, f[q][t].seq) < Half /\ Age(n, seq) < Half
      BY <1>1, <2>2, <2>4
    <2>6. Age(seq, f[q][t].seq) = Age(n, f[q][t].seq) - Age(n, seq)
      BY <2>1, <2>2, <2>5, AgesCompare
    <2>7. QED
      BY <1>1, <2>2, <2>4, <2>6
  <1>3. Room(f, p, DataSlots)
    BY <1>1 DEF Room
  <1>4. DataSlots \in 0 .. DataSlots
    BY <1>1
  <1>5. QED
    BY <1>2, <1>3, <1>4 DEF Ages

(* A page that handed its authority over holds nothing newer than that.       *)
LEMMA OwnerIsOlder ==
  ASSUME NEW f, Struct(f), NEW n \in Seqs, NEW b \in Nat, b < Half, Within(f, n, b),
         NEW p \in Pages, Authority(f, p)
  PROVE  /\ f[p][Intent].seq \in Seqs /\ BodyValid(f[p][Intent])
         /\ \A t \in Slots : BodyValid(f[p][t]) /\ t # Activate =>
              Age(n, f[p][Intent].seq) <= Age(n, f[p][t].seq)
         /\ BodyValid(f[p][Activate]) =>
              /\ f[p][Activate].seq = Succ(f[p][Intent].seq, 2)
              /\ Age(n, f[p][Activate].seq) < Age(n, f[p][Intent].seq)
PROOF
  <1>1. BodyValid(f[p][Intent]) /\ f[p][Intent].seq \in Seqs
    BY PagesAre, RecordIs DEF Authority, Struct
  <1>2. ASSUME NEW t \in Slots, BodyValid(f[p][t])
        PROVE  f[p][t].seq \in Seqs /\ Age(n, f[p][t].seq) < Half /\ Age(n, f[p][t].seq) \in Nat
    <2>1. f[p][t].seq \in Seqs /\ Age(n, f[p][t].seq) <= b
      BY <1>2, RecordIs DEF Struct, Within
    <2>2. Age(n, f[p][t].seq) \in Nat
      BY <2>1, AgeIs DEF Seqs
    <2>3. QED
      BY <2>1, <2>2, Constants
  <1>3. ASSUME NEW t \in Slots, BodyValid(f[p][t]), t # Activate
        PROVE  Age(n, f[p][Intent].seq) <= Age(n, f[p][t].seq)
    <2>1. CASE t = Intent
      BY <1>2, <1>3, <2>1
    <2>2. CASE t # Intent
      <3>1. Newer(f[p][Intent].seq, f[p][t].seq)
        BY <1>3, <2>2, PagesAre DEF Struct, Below
      <3>2. Age(n, f[p][Intent].seq) < Half /\ Age(n, f[p][Intent].seq) \in Nat
        BY <1>1, <1>2, PagesAre
      <3>3. QED
        BY <1>1, <1>2, <1>3, <3>1, <3>2, AgesCompare
    <2>3. QED
      BY <2>1, <2>2
  <1>4. ASSUME BodyValid(f[p][Activate])
        PROVE  /\ f[p][Activate].seq = Succ(f[p][Intent].seq, 2)
               /\ Age(n, f[p][Activate].seq) < Age(n, f[p][Intent].seq)
    <2>1. f[p][Activate].seq = Succ(f[p][Intent].seq, 2)
      BY <1>4 DEF Struct, Below, Matches
    <2>2. Newer(f[p][Activate].seq, f[p][Intent].seq)
      BY <1>1, <2>1, SuccNewer
    <2>3. QED
      BY <1>1, <1>2, <1>4, <2>1, <2>2, PagesAre, AgesCompare
  <1>5. QED
    BY <1>1, <1>3, <1>4
LEMMA WithinMore ==
  ASSUME NEW f, Typed(f), NEW n \in Seqs, NEW a \in Int, NEW b \in Int, a <= b, Within(f, n, a)
  PROVE  Window(f, b)
PROOF
  <1>1. ASSUME NEW p \in Pages, NEW t \in Slots, BodyValid(f[p][t])
        PROVE  Age(n, f[p][t].seq) <= b
    <2>1. Age(n, f[p][t].seq) \in Seqs
      BY <1>1, RecordIs, AgeIs
    <2>2. Age(n, f[p][t].seq) <= a
      BY <1>1 DEF Within
    <2>3. QED
      BY <2>1, <2>2 DEF Seqs
  <1>2. QED
    BY <1>1 DEF Window

LEMMA FindsOpen ==
  ASSUME NEW f, Struct(f), NEW c \in 1 .. MaxResets, NEW n \in Seqs, NEW b \in Nat,
         b <= Span(c) - 2 * DataSlots - 6, Within(f, n, b),
         Owners(f) = {}, ~Refuses(f)
  PROVE  \E lat, seq, value : Quiet(f, lat, seq, value, c)
PROOF
  <1>1. Active(f) = Pages /\ Pend(f) = {}
    BY OpenParts
  <1>2. \A p \in Pages, t \in Slots : f[p][t] # Erased => Plain(f[p][t])
    <2>1. SUFFICES ASSUME NEW p \in Pages, NEW t \in Slots, f[p][t] # Erased
                   PROVE  Plain(f[p][t])
      OBVIOUS
    <2>2. <<p, t>> \in Used(f) /\ At(f, <<p, t>>) = f[p][t]
      BY <1>1, <2>1, UsedIs
    <2>3. Expected(f[p][t], <<p, t>>, <<p, t>> \in Pend(f))
      BY <2>2 DEF Refuses
    <2>4. <<p, t>> \notin Pend(f)
      BY <1>1
    <2>5. QED
      BY <2>3, <2>4 DEF Expected, Plain
  <1>3. Open(f)
    BY <1>2 DEF Open, Clean
  <1>4. CASE Blank(f)
    BY <1>4 DEF Quiet
  <1>5. CASE ~Blank(f)
    <2>1. \E p \in Pages, t \in Slots : BodyValid(f[p][t])
      BY <1>2, <1>5 DEF Blank, Plain
    <2>2. Pages \in SUBSET Pages /\ Slots \in SUBSET Slots /\ Typed(f)
      BY DEF Struct
    <2>3. PICK p \in Pages, t \in Slots : /\ BodyValid(f[p][t])
                                          /\ \A q \in Pages, u \in Slots : BodyValid(f[q][u]) =>
                                               Age(n, f[p][t].seq) <= Age(n, f[q][u].seq)
      BY <2>1, <2>2, NewestExists
    <2>4. f[p][t].seq \in Seqs /\ Age(n, f[p][t].seq) <= b
      BY <2>2, <2>3, RecordIs DEF Within
    <2>5. c \in 0 .. MaxResets
      OBVIOUS
    <2>6. Ages(f, p, f[p][t].seq, c)
      BY <2>2, <2>3, <2>4, <2>5, AgesFrom
    <2>7. Quiet(f, <<p, t>>, f[p][t].seq, f[p][t].value, c)
      BY <1>3, <2>3, <2>4, <2>6 DEF Quiet, Leads
    <2>8. QED
      BY <2>7
  <1>6. QED
    BY <1>4, <1>5

LEMMA FindsPending ==
  ASSUME NEW f, Struct(f), NEW c \in 1 .. MaxResets, NEW n \in Seqs, NEW b \in Nat,
         b <= Span(c) - 2 * DataSlots - 6, Within(f, n, b),
         NEW p \in Pages, Owner(f, p), Owners(f) = {p}, f[p][Activate] = Erased, ~Refuses(f)
  PROVE  Pending(f, p, f[p][Intent].seq, f[p][Intent].value, c)
PROOF
  <1>1. /\ Span(c) \in Nat /\ Span(c) < Half /\ Half \in Nat /\ DataSlots \in Nat
        /\ b < Half /\ b <= Span(c) - DataSlots - 4 /\ b <= Span(c)
    <2>1. Span(c) \in Nat /\ Span(c) < Half /\ Half \in Nat /\ DataSlots \in Nat
      BY Constants
    <2>2. QED
      BY <2>1
  <1>2. Typed(f) /\ Authority(f, p)
    BY DEF Struct, Owner
  <1>3. Window(f, Span(c))
    BY <1>1, <1>2, WithinMore
  <1>4. Active(f) = {p} /\ Pend(f) = {<<p, Intent>>}
    BY PendingParts
  <1>5. ASSUME NEW t \in Slots, f[p][t] # Erased
        PROVE  /\ BodyValid(f[p][t]) /\ (t # Intent => Plain(f[p][t]))
               /\ Age(f[p][Intent].seq, f[p][t].seq) <= Span(c) - DataSlots - 4
    <2>1. <<p, t>> \in Used(f) /\ At(f, <<p, t>>) = f[p][t]
      BY <1>4, <1>5, UsedIs
    <2>2. Expected(f[p][t], <<p, t>>, <<p, t>> \in Pend(f))
      BY <2>1 DEF Refuses
    <2>3. BodyValid(f[p][t])
      BY <2>2 DEF Expected
    <2>4. t # Intent => Plain(f[p][t])
      <3>1. t # Intent => <<p, t>> \notin Pend(f)
        BY <1>4
      <3>2. QED
        BY <2>2, <3>1 DEF Expected, Plain
    <2>5. /\ f[p][Intent].seq \in Seqs /\ f[p][t].seq \in Seqs /\ BodyValid(f[p][Intent])
          /\ Age(n, f[p][Intent].seq) <= Age(n, f[p][t].seq)
      BY <1>1, <1>2, <1>5, <2>3, OwnerIsOlder, RecordIs
    <2>6. Age(n, f[p][t].seq) <= b /\ Age(n, f[p][Intent].seq) <= b
      BY <2>3, <2>5, PagesAre DEF Within
    <2>7. Age(n, f[p][t].seq) \in Nat /\ Age(n, f[p][Intent].seq) \in Nat
      <3>1. Age(n, f[p][t].seq) \in Seqs /\ Age(n, f[p][Intent].seq) \in Seqs
        BY <2>5, AgeIs
      <3>2. QED
        BY <3>1 DEF Seqs
    <2>8. Age(n, f[p][t].seq) < Half /\ Age(n, f[p][Intent].seq) < Half
      BY <1>1, <2>6, <2>7
    <2>9. Age(f[p][Intent].seq, f[p][t].seq) = Age(n, f[p][t].seq) - Age(n, f[p][Intent].seq)
      BY <2>5, <2>8, AgesCompare
    <2>10. QED
      BY <1>1, <2>3, <2>4, <2>6, <2>7, <2>9
  <1>6. QED
    BY <1>3, <1>5 DEF Pending

LEMMA FindsEnded ==
  ASSUME NEW f, Struct(f), NEW c \in 1 .. MaxResets, NEW n \in Seqs, NEW b \in Nat,
         b <= Span(c) - 2 * DataSlots - 6, Within(f, n, b),
         NEW p \in Pages, Owner(f, p), Owners(f) = {p}, f[p][Activate] # Erased, ~Refuses(f)
  PROVE  \E lat, seq, value : Quiet(f, lat, seq, value, c)
PROOF
  <1> DEFINE q == 1 - p
             a == f[p][Activate].seq
  <1>1. /\ Span(c) \in Nat /\ Span(c) < Half /\ Half \in Nat /\ DataSlots \in Nat /\ b < Half
        /\ c \in 0 .. MaxResets
    <2>1. Span(c) \in Nat /\ Span(c) < Half /\ Half \in Nat /\ DataSlots \in Nat
      BY Constants
    <2>2. QED
      BY <2>1
  <1>2. Typed(f) /\ Authority(f, p) /\ q \in Pages /\ 1 - q = p /\ p # q /\ \A x \in Pages : x = p \/ x = q
    BY PagesAre DEF Struct, Owner
  <1>3. Active(f) = {q} /\ Concluded(f) = {p} /\ Pend(f) = {}
    BY EndedParts
  <1>4. Clean(f, q)
    <2>1. SUFFICES ASSUME NEW t \in Slots, f[q][t] # Erased
                   PROVE  Plain(f[q][t])
      BY DEF Clean
    <2>2. <<q, t>> \in Used(f) /\ At(f, <<q, t>>) = f[q][t]
      BY <1>2, <1>3, <2>1, UsedIs
    <2>3. Expected(f[q][t], <<q, t>>, <<q, t>> \in Pend(f))
      BY <2>2 DEF Refuses
    <2>4. <<q, t>> \notin Pend(f)
      BY <1>3
    <2>5. QED
      BY <2>3, <2>4 DEF Expected, Plain
  <1>5. BodyValid(f[p][Activate]) /\ BodyValid(f[q][0])
    BY <1>3 DEF Refuses, Activated, Matches
  <1>6. Ended(f, p)
    BY <1>4, <1>5 DEF Ended
  <1>7. /\ f[p][Intent].seq \in Seqs /\ a = Succ(f[p][Intent].seq, 2) /\ f[q][0].seq = Succ(f[p][Intent].seq, 1)
    BY <1>6, EndedActivated
  <1>8. a \in Seqs /\ f[q][0].seq \in Seqs /\ Newer(a, f[q][0].seq)
    BY <1>7, SuccNewer
  <1>9. ASSUME NEW x \in Pages, NEW t \in Slots, BodyValid(f[x][t])
        PROVE  f[x][t].seq \in Seqs /\ Age(n, f[x][t].seq) \in Nat /\ Age(n, f[x][t].seq) < Half
               /\ Age(n, f[x][t].seq) <= b
    <2>1. f[x][t].seq \in Seqs /\ Age(n, f[x][t].seq) <= b
      BY <1>2, <1>9, RecordIs DEF Within
    <2>2. Age(n, f[x][t].seq) \in Seqs
      BY <2>1, AgeIs
    <2>3. QED
      BY <1>1, <2>1, <2>2 DEF Seqs
  <1>10. Age(n, a) \in Nat /\ Age(n, a) < Half /\ Age(n, a) <= b
    BY <1>5, <1>9, PagesAre
  <1>11. /\ \A t \in Slots : BodyValid(f[p][t]) => Age(n, a) <= Age(n, f[p][t].seq)
         /\ Age(n, a) <= Age(n, f[q][0].seq)
    <2>1. Age(n, a) < Age(n, f[p][Intent].seq)
      BY <1>1, <1>2, <1>5, OwnerIsOlder
    <2>2. Age(n, f[p][Intent].seq) \in Nat
      BY <1>2, <1>9, PagesAre DEF Authority
    <2>3. ASSUME NEW t \in Slots, BodyValid(f[p][t])
          PROVE  Age(n, a) <= Age(n, f[p][t].seq)
      <3>1. CASE t = Activate
        BY <1>10, <3>1
      <3>2. CASE t # Activate
        <4>1. Age(n, f[p][Intent].seq) <= Age(n, f[p][t].seq) /\ Age(n, f[p][t].seq) \in Nat
          BY <1>1, <1>2, <1>9, <2>3, <3>2, OwnerIsOlder
        <4>2. QED
          BY <1>10, <2>1, <2>2, <4>1
      <3>3. QED
        BY <3>1, <3>2
    <2>4. Age(n, f[q][0].seq) \in Nat /\ Age(n, f[q][0].seq) < Half
      BY <1>2, <1>5, <1>9, PagesAre
    <2>5. Age(n, a) < Age(n, f[q][0].seq)
      BY <1>8, <1>10, <2>4, AgesCompare
    <2>6. QED
      BY <1>10, <2>3, <2>4, <2>5
  <1>12. CASE \A u \in Slots \ {0} : f[q][u] = Erased
    <2>1. \A x \in Pages, t \in Slots : BodyValid(f[x][t]) => Age(n, a) <= Age(n, f[x][t].seq)
      <3>1. \A t \in Slots : BodyValid(f[q][t]) => Age(n, a) <= Age(n, f[q][t].seq)
        BY <1>11, <1>12 DEF BodyValid
      <3>2. QED
        BY <1>2, <1>11, <3>1
    <2>2. Ages(f, q, a, c)
      BY <1>1, <1>2, <1>8, <1>10, <2>1, AgesFrom
    <2>3. Leads(f, q, 0, a)
      BY <1>2, <1>6, <1>12 DEF Leads
    <2>4. Quiet(f, <<q, 0>>, a, f[q][0].value, c)
      BY <1>2, <1>5, <1>8, <2>2, <2>3, PagesAre DEF Quiet
    <2>5. QED
      BY <2>4
  <1>13. CASE \E u \in Slots \ {0} : f[q][u] # Erased
    <2>1. \E x \in {q}, t \in Slots \ {0} : BodyValid(f[x][t])
      BY <1>4, <1>13 DEF Clean, Plain
    <2>2. {q} \in SUBSET Pages /\ Slots \ {0} \in SUBSET Slots
      BY <1>2
    <2>3. PICK t \in Slots \ {0} : /\ BodyValid(f[q][t])
                                   /\ \A u \in Slots \ {0} : BodyValid(f[q][u]) =>
                                        Age(n, f[q][t].seq) <= Age(n, f[q][u].seq)
      <3>1. \E x \in {q}, t \in Slots \ {0} : /\ BodyValid(f[x][t])
                                              /\ \A y \in {q}, u \in Slots \ {0} : BodyValid(f[y][u]) =>
                                                   Age(n, f[x][t].seq) <= Age(n, f[y][u].seq)
        BY <1>2, <2>1, <2>2, NewestExists
      <3>2. QED
        BY <3>1
    <2> DEFINE seq == f[q][t].seq
    <2>4. seq \in Seqs /\ Age(n, seq) \in Nat /\ Age(n, seq) < Half /\ Age(n, seq) <= b
      BY <1>2, <1>9, <2>3
    <2>5. Newer(seq, a)
      BY <1>2, <1>5, <2>3 DEF Struct, Above
    <2>6. Age(n, seq) < Age(n, a)
      BY <1>8, <1>10, <2>4, <2>5, AgesCompare
    <2>7. ASSUME NEW x \in Pages, NEW u \in Slots, BodyValid(f[x][u])
          PROVE  Age(n, seq) <= Age(n, f[x][u].seq)
      <3>1. Age(n, f[x][u].seq) \in Nat
        BY <1>9, <2>7
      <3>2. CASE x = p \/ u = 0
        <4>1. Age(n, a) <= Age(n, f[x][u].seq)
          BY <1>2, <1>11, <2>7, <3>2
        <4>2. QED
          BY <1>10, <2>4, <2>6, <3>1, <4>1
      <3>3. CASE x = q /\ u # 0
        BY <2>3, <2>7, <3>3
      <3>4. QED
        BY <1>2, <3>2, <3>3
    <2>8. Ages(f, q, seq, c)
      BY <1>1, <1>2, <2>4, <2>7, AgesFrom
    <2>9. Leads(f, q, t, seq)
      BY <1>2, <1>6 DEF Leads
    <2>10. Quiet(f, <<q, t>>, seq, f[q][t].value, c)
      BY <1>2, <2>3, <2>4, <2>8, <2>9 DEF Quiet
    <2>11. QED
      BY <2>10
  <1>14. QED
    BY <1>12, <1>13

(* What the scan finds is a content, or none. *)
LEMMA GoodValue ==
  ASSUME NEW f, NEW lat, NEW seq, NEW pend, NEW value, NEW c, Good(f, lat, seq, pend, value, c)
  PROVE  /\ value \in Values \cup {None} /\ Struct(f)
         /\ lat # None => value \in Values
PROOF
  <1>1. CASE Quiet(f, lat, seq, value, c)
    BY <1>1, RecordIs DEF Quiet, Struct
  <1>2. ASSUME NEW p \in Pages, Pending(f, p, seq, value, c)
        PROVE  value \in Values /\ Struct(f)
    BY <1>2, RecordIs, PagesAre DEF Pending, Owner, Authority, Struct
  <1>3. QED
    BY <1>1, <1>2 DEF Good

LEMMA SoundAfterReset ==
  ASSUME NEW f, Struct(f), NEW c \in 1 .. MaxResets, Window(f, Span(c) - 2 * DataSlots - 6)
  PROVE  Sound(f, c)
PROOF
  <1> DEFINE b == Span(c) - 2 * DataSlots - 6
  <1>1. b \in Nat /\ b \in 0 .. Half - 1 /\ c \in 0 .. MaxResets
    <2>1. c \in 0 .. MaxResets /\ c - 1 \in 0 .. MaxResets
      BY Constants
    <2>2. Span(c - 1) \in Nat /\ Span(c - 1) < Half /\ b = Span(c - 1)
      BY <2>1, Constants
    <2>3. QED
      BY <2>1, <2>2, Constants
  <1>2. PICK n \in Seqs : Within(f, n, b)
    BY DEF Window, Within
  <1>3. SUFFICES ASSUME Scan(f).accepts
                 PROVE  LET found == Scan(f)
                        IN  Good(f, found.latest, found.sequence, found.pending, found.saved, c)
    BY DEF Sound
  <1>4. ~Refuses(f)
    BY <1>3, ScanIs DEF Refusal
  <1>5. \E lat, seq, pend, value : Good(f, lat, seq, pend, value, c)
    <2>1. CASE \A p \in Pages : ~Authority(f, p)
      <3>1. Owners(f) = {}
        BY <1>1, <2>1, OwnersAre
      <3>2. QED
        BY <1>1, <1>2, <1>4, <3>1, FindsOpen DEF Good
    <2>2. ASSUME NEW p \in Pages, Owner(f, p)
          PROVE  \E lat, seq, pend, value : Good(f, lat, seq, pend, value, c)
      <3>1. Owners(f) = {p}
        BY <1>1, <2>2, OwnersAre
      <3>2. CASE f[p][Activate] = Erased
        <4>1. Pending(f, p, f[p][Intent].seq, f[p][Intent].value, c)
          BY <1>1, <1>2, <1>4, <2>2, <3>1, <3>2, FindsPending
        <4>2. Good(f, <<p, Intent>>, f[p][Intent].seq, <<p, Intent>>, f[p][Intent].value, c)
          BY <4>1 DEF Good
        <4>3. QED
          BY <4>2
      <3>3. CASE f[p][Activate] # Erased
        BY <1>1, <1>2, <1>4, <2>2, <3>1, <3>3, FindsEnded DEF Good
      <3>4. QED
        BY <3>2, <3>3
    <2>3. QED
      BY <1>1, <2>1, <2>2, OwnersAre
  <1>6. PICK lat, seq, pend, value : Good(f, lat, seq, pend, value, c)
    BY <1>5
  <1>7. Scan(f) = Found(lat, seq, pend, value)
    BY <1>1, <1>6, ScanGood
  <1>8. QED
    BY <1>6, <1>7 DEF Found

LEMMA RecoveredGood ==
  ASSUME NEW f, NEW lat, NEW seq, NEW pend, NEW value, NEW c \in 0 .. MaxResets,
         Good(f, lat, seq, pend, value, c)
  PROVE  Recovered(f) = value /\ Sound(f, c)
PROOF
  <1>1. Scan(f) = Found(lat, seq, pend, value)
    BY ScanGood
  <1>2. QED
    BY <1>1 DEF Recovered, Sound, Found

LEMMA RecoveredSound ==
  ASSUME NEW f, NEW c \in 0 .. MaxResets, Sound(f, c)
  PROVE  Recovered(f) \in Values \cup {None, Refused}
PROOF
  <1>1. CASE ~Scan(f).accepts
    BY <1>1 DEF Recovered
  <1>2. CASE Scan(f).accepts
    <2>1. Scan(f).saved \in Values \cup {None}
      BY <1>2, GoodValue DEF Sound
    <2>2. QED
      BY <1>2, <2>1 DEF Recovered
  <1>3. QED
    BY <1>1, <1>2

LEMMA RecoveredRefused ==
  ASSUME NEW f, Refuses(f)
  PROVE  Recovered(f) = Refused /\ \A c : Sound(f, c)
  BY ScanIs DEF Recovered, Sound, Refusal
-----------------------------------------------------------------------------
(* Writing one record. *)
With(f, p, t, r) == [f EXCEPT ![p][t] = r]

LEMMA WithIs ==
  ASSUME NEW f \in Flash, NEW p \in Pages, NEW t \in Slots, NEW r \in Record \cup {Erased, Torn}
  PROVE  /\ With(f, p, t, r) \in Flash
         /\ \A q \in Pages, u \in Slots : With(f, p, t, r)[q][u] = IF q = p /\ u = t THEN r ELSE f[q][u]
  BY DEF With, Flash

LEMMA NewRecords ==
  ASSUME NEW s \in Seqs, NEW n \in Seqs, NEW v \in Values, NEW t \in Pages,
         NEW m \in {"snapshot", "intent", "activate"}
  PROVE  /\ Data(s, v) \in Record /\ Transition(m, s, v, t, n) \in Record
         /\ Data(s, v).magic = "data" /\ Data(s, v).seq = s /\ Data(s, v).value = v
         /\ LET r == Transition(m, s, v, t, n)
            IN  r.magic = m /\ r.seq = s /\ r.value = v /\ r.target = t /\ r.parent = n
  BY Constants DEF Data, Transition, Record, Seqs

LEMMA NumberLater ==
  ASSUME NEW a \in Seqs, NEW x \in Seqs, NEW k \in {1, 2}, NEW c \in 0 .. MaxResets, Age(a, x) <= Span(c) - 3
  PROVE  /\ Succ(a, k) \in Seqs /\ Age(a, x) \in Nat /\ Age(Succ(a, k), x) = Age(a, x) + k
         /\ Newer(Succ(a, k), x) /\ Succ(a, k) # x
PROOF
  <1>1. Span(c) \in Nat /\ Span(c) < Half /\ Half \in Nat /\ 2 * Half <= SeqSpan /\ SeqSpan \in Nat
    BY Constants
  <1>2. Age(a, x) \in Nat
    <2>1. Age(a, x) \in Seqs
      BY AgeIs
    <2>2. QED
      BY <2>1 DEF Seqs
  <1>3. k \in Nat /\ k > 0 /\ k <= 2 /\ Age(a, x) + k < SeqSpan /\ k < SeqSpan /\ Age(a, x) + k < Half
    BY <1>1, <1>2
  <1>4. Succ(a, k) \in Seqs /\ Age(Succ(a, k), x) = Age(a, x) + k
    BY <1>3, AgeLater
  <1>5. Newer(Succ(a, k), x)
    <2>1. Age(Succ(a, k), x) > 0 /\ Age(Succ(a, k), x) < Half
      BY <1>2, <1>3, <1>4
    <2>2. QED
      BY <1>4, <2>1, NewerIs
  <1>6. Succ(a, k) # x
    BY <1>5 DEF Newer
  <1>7. QED
    BY <1>2, <1>4, <1>5, <1>6

(* The page in use, and what is known of quiet pages. *)
PageOf(lat) == IF lat = None THEN 0 ELSE lat[1]

LEMMA QuietParts ==
  ASSUME NEW f, NEW lat, NEW seq, NEW value, NEW c \in 0 .. MaxResets, Quiet(f, lat, seq, value, c)
  PROVE  /\ Struct(f) /\ PageOf(lat) \in Pages /\ seq \in Seqs /\ Ages(f, PageOf(lat), seq, c)
         /\ Clean(f, PageOf(lat)) /\ (Open(f) \/ Ended(f, 1 - PageOf(lat)))
         /\ Window(f, Span(c))
PROOF
  <1>1. Struct(f) /\ Window(f, Span(c))
    BY QuietWindow DEF Quiet
  <1>2. CASE Blank(f) /\ lat = None /\ seq = 0
    <2>1. Open(f)
      BY <1>2 DEF Open, Clean, Blank
    <2>2. PageOf(lat) = 0 /\ 0 \in Pages /\ 0 \in Seqs
      BY <1>2, Constants DEF PageOf, Pages, Seqs
    <2>3. Ages(f, 0, 0, c)
      <3>1. DataSlots \in 0 .. DataSlots /\ Room(f, 0, DataSlots)
        BY Constants DEF Room
      <3>2. \A q \in Pages, t \in Slots : ~BodyValid(f[q][t])
        BY <1>2 DEF Blank, BodyValid
      <3>3. QED
        BY <3>1, <3>2 DEF Ages
    <2>4. QED
      BY <1>1, <1>2, <2>1, <2>2, <2>3 DEF Open
  <1>3. ASSUME NEW p \in Pages, NEW t \in Slots, lat = <<p, t>>,
               seq \in Seqs, Leads(f, p, t, seq), Ages(f, p, seq, c)
        PROVE  /\ PageOf(lat) \in Pages /\ seq \in Seqs /\ Ages(f, PageOf(lat), seq, c)
               /\ Clean(f, PageOf(lat)) /\ (Open(f) \/ Ended(f, 1 - PageOf(lat)))
    <2>1. lat # None
      BY <1>3, NotRecords DEF Offsets
    <2>2. PageOf(lat) = p
      BY <1>3, <2>1 DEF PageOf
    <2>3. Open(f) \/ Ended(f, 1 - p)
      BY <1>3 DEF Leads
    <2>4. Clean(f, p)
      BY <2>3, PagesAre DEF Open, Ended
    <2>5. QED
      BY <1>3, <2>2, <2>3, <2>4
  <1>4. QED
    BY <1>1, <1>2, <1>3 DEF Quiet

LEMMA GoodWindow ==
  ASSUME NEW f, NEW lat, NEW seq, NEW pend, NEW value, NEW c \in 0 .. MaxResets,
         Good(f, lat, seq, pend, value, c)
  PROVE  Struct(f) /\ Window(f, Span(c))
  BY QuietParts DEF Good, Pending

(* What the number after seq does to ages, seen from quiet pages. *)
LEMMA QuietNext ==
  ASSUME NEW f, NEW p \in Pages, NEW seq \in Seqs, NEW c \in 0 .. MaxResets, Typed(f), NEW k \in 0 .. DataSlots,
         \A q \in Pages, t \in Slots : BodyValid(f[q][t]) =>
           Age(seq, f[q][t].seq) + k <= IF q = p THEN Span(c) - DataSlots - 5 ELSE Span(c) - 3
  PROVE  /\ Succ(seq, 1) \in Seqs
         /\ \A q \in Pages, t \in Slots : BodyValid(f[q][t]) =>
              /\ f[q][t].seq \in Seqs /\ Age(seq, f[q][t].seq) \in Nat
              /\ Age(Succ(seq, 1), f[q][t].seq) = Age(seq, f[q][t].seq) + 1
              /\ Newer(Succ(seq, 1), f[q][t].seq) /\ Succ(seq, 1) # f[q][t].seq
PROOF
  <1>1. ASSUME NEW q \in Pages, NEW t \in Slots, BodyValid(f[q][t])
        PROVE  f[q][t].seq \in Seqs /\ Age(seq, f[q][t].seq) <= Span(c) - 3
    <2>1. f[q][t].seq \in Seqs
      BY <1>1, RecordIs
    <2>2. Age(seq, f[q][t].seq) \in Seqs
      BY <2>1, AgeIs
    <2>3. Span(c) \in Nat /\ DataSlots \in Nat
      BY Constants
    <2>4. Age(seq, f[q][t].seq) + k <= IF q = p THEN Span(c) - DataSlots - 5 ELSE Span(c) - 3
      BY <1>1
    <2>5. QED
      BY <2>1, <2>2, <2>3, <2>4 DEF Seqs
  <1>2. QED
    BY <1>1, NumberLater, SuccNewer
LEMMA WithTyped ==
  ASSUME NEW f, Typed(f), Distinct(f), NEW p \in Pages, NEW t \in Slots, NEW r \in Record, Fits(r, p, t),
         f[p][t] = Erased,
         \A q \in Pages, u \in Slots : BodyValid(f[q][u]) => r.seq # f[q][u].seq
  PROVE  /\ Typed(With(f, p, t, r)) /\ Distinct(With(f, p, t, r))
         /\ \A q \in Pages, u \in Slots : With(f, p, t, r)[q][u] = IF q = p /\ u = t THEN r ELSE f[q][u]
         /\ BodyValid(r) /\ r # Erased
PROOF
  <1> DEFINE g == With(f, p, t, r)
  <1>1. /\ g \in Flash /\ BodyValid(r) /\ r # Erased
        /\ \A q \in Pages, u \in Slots : g[q][u] = IF q = p /\ u = t THEN r ELSE f[q][u]
    BY WithIs, RecordsAreValid DEF Typed
  <1> HIDE DEF g
  <1>2. Typed(g)
    BY <1>1 DEF Typed
  <1>3. Distinct(g)
    BY <1>1 DEF Distinct
  <1>4. QED
    BY <1>1, <1>2, <1>3 DEF g

(* A data record in the first free slot. *)
LEMMA DataWritten ==
  ASSUME NEW f, NEW lat, NEW seq, NEW value, NEW c \in 0 .. MaxResets, Quiet(f, lat, seq, value, c),
         NEW t \in 0 .. DataSlots - 1, NEW v \in Values,
         f[PageOf(lat)][t] = Erased, \A u \in 0 .. t - 1 : f[PageOf(lat)][u] # Erased
  PROVE  Quiet(With(f, PageOf(lat), t, Data(Succ(seq, 1), v)), <<PageOf(lat), t>>, Succ(seq, 1), v, c)
PROOF
  <1> DEFINE p == PageOf(lat)
             s == Succ(seq, 1)
             r == Data(s, v)
             g == With(f, p, t, r)
  <1>1. /\ Struct(f) /\ p \in Pages /\ seq \in Seqs /\ Ages(f, p, seq, c) /\ Clean(f, p)
        /\ (Open(f) \/ Ended(f, 1 - p))
    BY QuietParts
  <1> HIDE DEF p
  <1>2. PICK k \in 0 .. DataSlots :
          /\ Room(f, p, k)
          /\ \A q \in Pages, u \in Slots : BodyValid(f[q][u]) =>
               Age(seq, f[q][u].seq) + k <= IF q = p THEN Span(c) - DataSlots - 5 ELSE Span(c) - 3
    BY <1>1 DEF Ages
  <1>3. Typed(f) /\ Distinct(f) /\ Below(f) /\ Above(f) /\ t \in Slots /\ t # Intent /\ t # Activate
    BY <1>1, PagesAre DEF Struct
  <1>4. /\ s \in Seqs
        /\ \A q \in Pages, u \in Slots : BodyValid(f[q][u]) =>
             /\ f[q][u].seq \in Seqs /\ Age(seq, f[q][u].seq) \in Nat
             /\ Age(s, f[q][u].seq) = Age(seq, f[q][u].seq) + 1
             /\ Newer(s, f[q][u].seq) /\ s # f[q][u].seq
    BY <1>1, <1>2, <1>3, QuietNext
  <1>5. r \in Record /\ r.magic = "data" /\ r.seq = s /\ r.value = v /\ Fits(r, p, t)
    <2>1. r \in Record /\ r.magic = "data" /\ r.seq = s /\ r.value = v
      BY <1>1, <1>4, NewRecords
    <2>2. QED
      BY <2>1 DEF Fits
  <1>6. f[p][t] = Erased /\ \A u \in 0 .. t - 1 : f[p][u] # Erased
    BY DEF p
  <1> HIDE DEF s, r
  <1>7. /\ Typed(g) /\ Distinct(g) /\ BodyValid(r) /\ r # Erased
        /\ \A q \in Pages, u \in Slots : g[q][u] = IF q = p /\ u = t THEN r ELSE f[q][u]
    BY <1>1, <1>3, <1>4, <1>5, <1>6, WithTyped
  <1> HIDE DEF g
  <1>8. 1 - p \in Pages /\ 1 - (1 - p) = p /\ p # 1 - p /\ \A q \in Pages : q = p \/ q = 1 - p
    BY <1>1, PagesAre
  <1>9. g[p][t] = r /\ (\A u \in Slots : g[1 - p][u] = f[1 - p][u]) /\ g[p][Intent] = f[p][Intent]
    BY <1>1, <1>3, <1>7, <1>8, PagesAre
  <1>10. Clean(g, p)
    BY <1>1, <1>5, <1>7 DEF Clean, Plain
  <1>11. ~Authority(f, p) /\ ~Authority(g, p) /\ (Authority(g, 1 - p) <=> Authority(f, 1 - p))
    BY <1>1, <1>9, <1>10, CleanNoAuthority, PagesAre DEF Authority
  <1>12. Open(f) => ~Authority(f, 1 - p)
    BY <1>8, CleanNoAuthority DEF Open
  <1>13. Ended(f, 1 - p) => t # 0
    BY <1>6, <1>8 DEF Ended, BodyValid
  <1>14. Below(g)
    <2>1. SUFFICES ASSUME NEW q \in Pages, Authority(g, q)
                   PROVE  /\ \A u \in 0 .. DataSlots - 1 :
                               BodyValid(g[q][u]) => Newer(g[q][Intent].seq, g[q][u].seq)
                          /\ BodyValid(g[q][Activate])
                               => Matches(g[q][Activate], "activate", g[q][Intent], Succ(g[q][Intent].seq, 2))
      BY DEF Below
    <2>2. q = 1 - p /\ Authority(f, q)
      BY <1>8, <1>11, <2>1
    <2>3. \A u \in Slots : g[q][u] = f[q][u]
      BY <1>9, <2>2
    <2>4. QED
      BY <1>3, <2>2, <2>3, PagesAre DEF Below
  <1>15. Above(g)
    <2>1. SUFFICES ASSUME Authority(g, 1 - p), BodyValid(g[1 - p][Activate])
                   PROVE  /\ BodyValid(g[p][0])
                               => Matches(g[p][0], "snapshot", g[1 - p][Intent], Succ(g[1 - p][Intent].seq, 1))
                          /\ \A u \in Slots \ {0} :
                               BodyValid(g[p][u]) => Newer(g[p][u].seq, g[1 - p][Activate].seq)
      BY <1>8, <1>11 DEF Above
    <2>2. Authority(f, 1 - p) /\ BodyValid(f[1 - p][Activate]) /\ t # 0
      BY <1>1, <1>9, <1>11, <1>12, <1>13, <2>1, PagesAre
    <2>3. /\ BodyValid(f[p][0])
               => Matches(f[p][0], "snapshot", f[1 - p][Intent], Succ(f[1 - p][Intent].seq, 1))
          /\ \A u \in Slots \ {0} : BodyValid(f[p][u]) => Newer(f[p][u].seq, f[1 - p][Activate].seq)
      BY <1>3, <1>8, <2>2 DEF Above
    <2>4. g[p][0] = f[p][0] /\ g[1 - p][Intent] = f[1 - p][Intent] /\ g[1 - p][Activate] = f[1 - p][Activate]
      BY <1>1, <1>7, <1>9, <2>2, PagesAre
    <2>5. ASSUME NEW u \in Slots \ {0}, BodyValid(g[p][u])
          PROVE  Newer(g[p][u].seq, g[1 - p][Activate].seq)
      <3>1. CASE u = t
        BY <1>4, <1>5, <1>8, <1>9, <2>2, <2>4, <3>1, PagesAre
      <3>2. CASE u # t
        BY <1>1, <1>7, <2>3, <2>4, <2>5, <3>2
      <3>3. QED
        BY <3>1, <3>2
    <2>6. QED
      BY <2>3, <2>4, <2>5
  <1>16. Leads(g, p, t, s)
    <2>1. CASE Open(f)
      <3>1. Clean(g, 1 - p)
        BY <1>8, <1>9, <2>1 DEF Open, Clean
      <3>2. Open(g)
        BY <1>8, <1>10, <3>1 DEF Open
      <3>3. QED
        BY <1>5, <1>9, <3>2 DEF Leads
    <2>2. CASE Ended(f, 1 - p)
      <3>1. Owner(g, 1 - p)
        BY <1>8, <1>9, <1>11, <2>2 DEF Ended, Owner
      <3>2. BodyValid(g[1 - p][Activate]) /\ BodyValid(g[p][0])
        BY <1>1, <1>7, <1>8, <1>9, <1>13, <2>2, PagesAre DEF Ended
      <3>3. Ended(g, 1 - p)
        BY <1>8, <1>10, <3>1, <3>2 DEF Ended
      <3>4. QED
        BY <1>5, <1>9, <1>13, <2>2, <3>3 DEF Leads
    <2>3. QED
      BY <1>1, <2>1, <2>2
  <1>17. Ages(g, p, s, c)
    <2> DEFINE m == DataSlots - t - 1
    <2>1. /\ DataSlots \in Nat /\ t \in Nat /\ t < DataSlots /\ k \in Nat /\ Span(c) \in Nat
          /\ Span(c) >= 2 * DataSlots + 6 /\ m \in 0 .. DataSlots
      <3>1. DataSlots \in Nat /\ Span(c) \in Nat /\ Span(c) >= 2 * DataSlots + 6
        BY Constants
      <3>2. QED
        BY <3>1
    <2>2. m + 1 <= k
      BY <1>2, <1>6, <2>1 DEF Room
    <2>3. Room(g, p, m)
      <3>1. SUFFICES ASSUME NEW u \in 0 .. DataSlots - 1, u < DataSlots - m
                     PROVE  g[p][u] # Erased
        BY DEF Room
      <3>2. u = t \/ u \in 0 .. t - 1
        BY <2>1, <3>1
      <3>3. QED
        BY <1>1, <1>6, <1>7, <3>2, PagesAre
    <2>4. ASSUME NEW q \in Pages, NEW u \in Slots, BodyValid(g[q][u])
          PROVE  Age(s, g[q][u].seq) + m <= IF q = p THEN Span(c) - DataSlots - 5 ELSE Span(c) - 3
      <3>1. CASE q = p /\ u = t
        <4>1. Age(s, g[q][u].seq) = 0
          BY <1>4, <1>5, <1>7, <3>1, AgeSelf
        <4>2. QED
          BY <2>1, <3>1, <4>1
      <3>2. CASE ~ (q = p /\ u = t)
        <4>1. g[q][u] = f[q][u] /\ BodyValid(f[q][u])
          BY <1>7, <2>4, <3>2
        <4>2. /\ Age(seq, f[q][u].seq) \in Nat /\ Age(s, f[q][u].seq) = Age(seq, f[q][u].seq) + 1
              /\ Age(seq, f[q][u].seq) + k <= IF q = p THEN Span(c) - DataSlots - 5 ELSE Span(c) - 3
          BY <1>2, <1>4, <4>1
        <4>3. QED
          BY <2>1, <2>2, <4>1, <4>2
      <3>3. QED
        BY <3>1, <3>2
    <2>5. QED
      BY <2>1, <2>3, <2>4 DEF Ages
  <1>18. Quiet(g, <<p, t>>, s, v, c)
    BY <1>1, <1>3, <1>4, <1>5, <1>7, <1>9, <1>14, <1>15, <1>16, <1>17 DEF Quiet, Struct
  <1>19. QED
    BY <1>18 DEF g, r, s, p
(* The intent record on a full page: the other page no longer counts. *)
LEMMA IntentWritten ==
  ASSUME NEW f, NEW lat, NEW seq, NEW value \in Values, NEW c \in 0 .. MaxResets, Quiet(f, lat, seq, value, c),
         f[PageOf(lat)][Intent] = Erased, f[PageOf(lat)][Activate] = Erased
  PROVE  LET p == PageOf(lat)
             s == Succ(seq, 1)
         IN  Pending(With(f, p, Intent, Transition("intent", s, value, 1 - p, s)), p, s, value, c)
PROOF
  <1> DEFINE p == PageOf(lat)
             s == Succ(seq, 1)
             r == Transition("intent", s, value, 1 - p, s)
             g == With(f, p, Intent, r)
  <1>1. /\ Struct(f) /\ p \in Pages /\ seq \in Seqs /\ Ages(f, p, seq, c) /\ Clean(f, p)
        /\ (Open(f) \/ Ended(f, 1 - p))
    BY QuietParts
  <1>2. f[p][Intent] = Erased /\ f[p][Activate] = Erased
    OBVIOUS
  <1> HIDE DEF p
  <1>3. PICK k \in 0 .. DataSlots :
          \A q \in Pages, u \in Slots : BodyValid(f[q][u]) =>
            Age(seq, f[q][u].seq) + k <= IF q = p THEN Span(c) - DataSlots - 5 ELSE Span(c) - 3
    BY <1>1 DEF Ages
  <1>4. /\ Typed(f) /\ Distinct(f) /\ Below(f) /\ Above(f) /\ Intent \in Slots /\ Activate \in Slots
        /\ 0 # Intent /\ Intent # Activate /\ 0 \in Slots
    BY <1>1, PagesAre DEF Struct
  <1>5. 1 - p \in Pages /\ 1 - (1 - p) = p /\ p # 1 - p /\ \A q \in Pages : q = p \/ q = 1 - p
    BY <1>1, PagesAre
  <1>6. /\ s \in Seqs
        /\ \A q \in Pages, u \in Slots : BodyValid(f[q][u]) =>
             /\ f[q][u].seq \in Seqs /\ Age(seq, f[q][u].seq) \in Nat
             /\ Age(s, f[q][u].seq) = Age(seq, f[q][u].seq) + 1
             /\ Newer(s, f[q][u].seq) /\ s # f[q][u].seq
    BY <1>1, <1>3, <1>4, QuietNext
  <1>7. /\ r \in Record /\ r.magic = "intent" /\ r.seq = s /\ r.value = value
        /\ r.target = 1 - p /\ r.parent = s /\ Fits(r, p, Intent)
    <2>1. /\ r \in Record /\ r.magic = "intent" /\ r.seq = s /\ r.value = value
          /\ r.target = 1 - p /\ r.parent = s
      BY <1>5, <1>6, NewRecords
    <2>2. QED
      BY <2>1 DEF Fits
  <1> HIDE DEF s, r
  <1>8. /\ Typed(g) /\ Distinct(g) /\ BodyValid(r) /\ r # Erased
        /\ \A q \in Pages, u \in Slots : g[q][u] = IF q = p /\ u = Intent THEN r ELSE f[q][u]
    BY <1>1, <1>2, <1>4, <1>6, <1>7, WithTyped
  <1> HIDE DEF g
  <1>9. /\ g[p][Intent] = r /\ (\A u \in Slots : g[1 - p][u] = f[1 - p][u])
        /\ \A u \in Slots : u # Intent => g[p][u] = f[p][u]
    BY <1>1, <1>4, <1>5, <1>8
  <1>10. Authority(g, p) /\ (Authority(g, 1 - p) <=> Authority(f, 1 - p)) /\ ~BodyValid(g[p][Activate])
    BY <1>2, <1>4, <1>7, <1>8, <1>9, RecordsAreValid DEF Authority
  <1>11. Below(g)
    <2>1. SUFFICES ASSUME NEW q \in Pages, Authority(g, q)
                   PROVE  /\ \A u \in 0 .. DataSlots - 1 :
                               BodyValid(g[q][u]) => Newer(g[q][Intent].seq, g[q][u].seq)
                          /\ BodyValid(g[q][Activate])
                               => Matches(g[q][Activate], "activate", g[q][Intent], Succ(g[q][Intent].seq, 2))
      BY DEF Below
    <2>2. CASE q = p
      <3>1. ASSUME NEW u \in 0 .. DataSlots - 1, BodyValid(g[p][u])
            PROVE  Newer(g[p][Intent].seq, g[p][u].seq)
        <4>1. g[p][u] = f[p][u]
          BY <1>9, PagesAre
        <4>2. QED
          BY <1>1, <1>6, <1>7, <1>9, <3>1, <4>1, PagesAre
      <3>2. QED
        BY <1>10, <2>2, <3>1
    <2>3. CASE q = 1 - p
      <3>1. \A u \in Slots : g[q][u] = f[q][u]
        BY <1>9, <2>3
      <3>2. Authority(f, q)
        BY <1>10, <2>1, <2>3
      <3>3. QED
        BY <1>4, <3>1, <3>2, PagesAre DEF Below
    <2>4. QED
      BY <1>5, <2>2, <2>3
  <1>12. Above(g)
    <2>1. SUFFICES ASSUME Authority(g, 1 - p), BodyValid(g[1 - p][Activate])
                   PROVE  /\ BodyValid(g[p][0])
                               => Matches(g[p][0], "snapshot", g[1 - p][Intent], Succ(g[1 - p][Intent].seq, 1))
                          /\ \A u \in Slots \ {0} :
                               BodyValid(g[p][u]) => Newer(g[p][u].seq, g[1 - p][Activate].seq)
      BY <1>5, <1>10 DEF Above
    <2>2. Authority(f, 1 - p) /\ BodyValid(f[1 - p][Activate])
      BY <1>4, <1>9, <1>10, <2>1
    <2>3. /\ BodyValid(f[p][0])
               => Matches(f[p][0], "snapshot", f[1 - p][Intent], Succ(f[1 - p][Intent].seq, 1))
          /\ \A u \in Slots \ {0} : BodyValid(f[p][u]) => Newer(f[p][u].seq, f[1 - p][Activate].seq)
      BY <1>4, <1>5, <2>2 DEF Above
    <2>4. g[p][0] = f[p][0] /\ g[1 - p][Intent] = f[1 - p][Intent] /\ g[1 - p][Activate] = f[1 - p][Activate]
      BY <1>4, <1>9
    <2>5. ASSUME NEW u \in Slots \ {0}, BodyValid(g[p][u])
          PROVE  Newer(g[p][u].seq, g[1 - p][Activate].seq)
      <3>1. CASE u = Intent
        BY <1>4, <1>5, <1>6, <1>7, <1>9, <2>2, <2>4, <3>1
      <3>2. CASE u # Intent
        BY <1>9, <2>3, <2>4, <2>5, <3>2
      <3>3. QED
        BY <3>1, <3>2
    <2>6. QED
      BY <2>3, <2>4, <2>5
  <1>13. Owner(g, p)
    <2>1. Authority(g, 1 - p) => Newer(g[p][Intent].seq, g[1 - p][Intent].seq)
      BY <1>4, <1>5, <1>6, <1>7, <1>9, <1>10 DEF Authority
    <2>2. QED
      BY <1>10, <2>1 DEF Owner
  <1>14. ASSUME NEW q \in Pages, NEW u \in Slots, BodyValid(g[q][u])
         PROVE  /\ Age(s, g[q][u].seq) <= Span(c)
                /\ q = p => Age(s, g[q][u].seq) <= Span(c) - DataSlots - 4
    <2>1. DataSlots \in Nat /\ Span(c) \in Nat /\ Span(c) >= 2 * DataSlots + 6 /\ k \in Nat
      BY Constants
    <2>2. CASE q = p /\ u = Intent
      <3>1. Age(s, g[q][u].seq) = 0
        BY <1>6, <1>7, <1>9, <2>2, AgeSelf
      <3>2. QED
        BY <2>1, <3>1
    <2>3. CASE ~ (q = p /\ u = Intent)
      <3>1. g[q][u] = f[q][u] /\ BodyValid(f[q][u])
        BY <1>8, <1>14, <2>3
      <3>2. /\ Age(seq, f[q][u].seq) \in Nat /\ Age(s, f[q][u].seq) = Age(seq, f[q][u].seq) + 1
            /\ Age(seq, f[q][u].seq) + k <= IF q = p THEN Span(c) - DataSlots - 5 ELSE Span(c) - 3
        BY <1>3, <1>6, <3>1
      <3>3. QED
        BY <2>1, <3>1, <3>2
    <2>4. QED
      BY <2>2, <2>3
  <1>15. Window(g, Span(c))
    BY <1>6, <1>14 DEF Window
  <1>16. ASSUME NEW u \in Slots, g[p][u] # Erased
         PROVE  BodyValid(g[p][u]) /\ (u # Intent => Plain(g[p][u]))
    BY <1>1, <1>7, <1>8, <1>9, <1>16 DEF Clean, Plain
  <1>17. Pending(g, p, s, value, c)
    <2>1. g[p][Activate] = Erased /\ s = g[p][Intent].seq /\ value = g[p][Intent].value
      BY <1>2, <1>4, <1>7, <1>9
    <2>2. QED
      BY <1>1, <1>8, <1>11, <1>12, <1>13, <1>14, <1>15, <1>16, <2>1 DEF Pending, Struct
  <1>18. QED
    BY <1>17 DEF g, r, s, p

(* What becomes of the other page does not matter, as long as nothing new     *)
(* appears there.                                                            *)
LEMMA TargetLost ==
  ASSUME NEW f, NEW p \in Pages, NEW seq, NEW value, NEW c, Pending(f, p, seq, value, c),
         NEW g, Lost(f, g), \A t \in Slots : g[p][t] = f[p][t]
  PROVE  Pending(g, p, seq, value, c)
PROOF
  <1>1. Struct(g) /\ Window(g, Span(c))
    BY LostStruct DEF Pending
  <1>2. 1 - p \in Pages /\ Intent \in Slots /\ Activate \in Slots
    BY PagesAre
  <1>3. Authority(g, 1 - p) => Authority(f, 1 - p) /\ g[1 - p][Intent].seq = f[1 - p][Intent].seq
    BY <1>2, RecordsAreValid DEF Authority, Lost, Remains, SameBody, BodyValid
  <1>4. Owner(g, p)
    BY <1>2, <1>3 DEF Pending, Owner, Authority
  <1>5. QED
    BY <1>1, <1>2, <1>4 DEF Pending

(* The snapshot on the erased target page. *)
LEMMA SnapshotWritten ==
  ASSUME NEW f, NEW p \in Pages, NEW seq, NEW value, NEW c \in 0 .. MaxResets, Pending(f, p, seq, value, c),
         \A t \in Slots : f[1 - p][t] = Erased
  PROVE  LET q == 1 - p
             r == Transition("snapshot", Succ(seq, 1), value, q, seq)
             g == With(f, q, 0, r)
         IN  /\ Pending(g, p, seq, value, c) /\ g[q][0] = r
             /\ Matches(r, "snapshot", g[p][Intent], Succ(seq, 1))
             /\ \A t \in Slots \ {0} : g[q][t] = Erased
PROOF
  <1> DEFINE q == 1 - p
             s == Succ(seq, 1)
             r == Transition("snapshot", s, value, q, seq)
             g == With(f, q, 0, r)
  <1>1. /\ Struct(f) /\ Owner(f, p) /\ f[p][Activate] = Erased
        /\ seq = f[p][Intent].seq /\ value = f[p][Intent].value
        /\ \A t \in Slots : f[p][t] # Erased =>
             /\ BodyValid(f[p][t]) /\ (t # Intent => Plain(f[p][t]))
             /\ Age(seq, f[p][t].seq) <= Span(c) - DataSlots - 4
    BY DEF Pending
  <1>2. Typed(f) /\ Distinct(f) /\ Below(f) /\ Above(f) /\ Authority(f, p)
    BY <1>1 DEF Struct, Owner
  <1>3. /\ q \in Pages /\ 1 - q = p /\ p # q /\ (\A x \in Pages : x = p \/ x = q)
        /\ Intent \in Slots /\ Activate \in Slots /\ 0 \in Slots /\ 0 # Intent
    BY PagesAre
  <1>4. f[p][Intent] \in Record /\ Fits(f[p][Intent], p, Intent) /\ seq \in Seqs /\ value \in Values
    BY <1>1, <1>2, <1>3, RecordIs DEF Authority
  <1>5. f[p][Intent].target = q /\ f[p][Intent].magic = "intent"
    BY <1>2, <1>3, <1>4, PagesAre DEF Authority, Fits
  <1>6. s \in Seqs /\ Succ(seq, 2) \in Seqs
    BY <1>4, SuccNewer
  <1>7. \A x \in Pages, t \in Slots : BodyValid(f[x][t]) => x = p /\ f[x][t] # Erased
    BY <1>3, RecordsAreValid
  <1>8. ASSUME NEW t \in Slots, BodyValid(f[p][t])
        PROVE  /\ f[p][t].seq \in Seqs /\ Age(seq, f[p][t].seq) \in Nat
               /\ Age(seq, f[p][t].seq) <= Span(c) - DataSlots - 4
               /\ Age(s, f[p][t].seq) = Age(seq, f[p][t].seq) + 1 /\ s # f[p][t].seq
    <2>1. f[p][t].seq \in Seqs /\ Age(seq, f[p][t].seq) <= Span(c) - DataSlots - 4
      BY <1>1, <1>2, <1>7, <1>8, RecordIs
    <2>2. Age(seq, f[p][t].seq) <= Span(c) - 3
      <3>1. DataSlots \in Nat /\ Span(c) \in Nat /\ Age(seq, f[p][t].seq) \in Seqs
        BY <1>4, <2>1, AgeIs, Constants
      <3>2. QED
        BY <2>1, <3>1 DEF Seqs
    <2>3. QED
      BY <1>4, <2>1, <2>2, NumberLater
  <1>9. /\ r \in Record /\ r.magic = "snapshot" /\ r.seq = s /\ r.value = value
        /\ r.target = q /\ r.parent = seq /\ Fits(r, q, 0)
    <2>1. /\ r \in Record /\ r.magic = "snapshot" /\ r.seq = s /\ r.value = value
          /\ r.target = q /\ r.parent = seq
      BY <1>3, <1>4, <1>6, NewRecords
    <2>2. QED
      BY <2>1 DEF Fits
  <1> HIDE DEF r
  <1>10. /\ Typed(g) /\ Distinct(g) /\ BodyValid(r) /\ r # Erased
         /\ \A x \in Pages, u \in Slots : g[x][u] = IF x = q /\ u = 0 THEN r ELSE f[x][u]
    <2>1. \A x \in Pages, u \in Slots : BodyValid(f[x][u]) => r.seq # f[x][u].seq
      BY <1>7, <1>8, <1>9
    <2>2. f[q][0] = Erased
      BY <1>3
    <2>3. QED
      BY <1>2, <1>3, <1>9, <2>1, <2>2, WithTyped
  <1> HIDE DEF g
  <1>11. /\ \A u \in Slots : g[p][u] = f[p][u]
         /\ g[q][0] = r /\ \A u \in Slots \ {0} : g[q][u] = Erased
    BY <1>3, <1>10
  <1>12. Authority(g, p) /\ ~Authority(g, q) /\ g[p][Activate] = Erased /\ Owner(g, p)
    BY <1>1, <1>2, <1>3, <1>11, RecordsAreValid DEF Authority, Owner
  <1>13. Below(g)
    <2>1. \A x \in Pages : Authority(g, x) => x = p
      BY <1>3, <1>12
    <2>2. QED
      BY <1>2, <1>3, <1>11, <2>1, PagesAre DEF Below
  <1>14. Above(g)
    <2>1. \A x \in Pages : ~ (Authority(g, x) /\ BodyValid(g[x][Activate]))
      BY <1>3, <1>12, RecordsAreValid
    <2>2. QED
      BY <2>1 DEF Above
  <1>15. Window(g, Span(c))
    <2>1. ASSUME NEW x \in Pages, NEW u \in Slots, BodyValid(g[x][u])
          PROVE  Age(s, g[x][u].seq) <= Span(c)
      <3>1. DataSlots \in Nat /\ Span(c) \in Nat
        BY Constants
      <3>2. CASE x = p
        <4>1. BodyValid(f[p][u]) /\ g[x][u] = f[p][u]
          BY <1>11, <2>1, <3>2
        <4>2. QED
          BY <1>8, <3>1, <4>1
      <3>3. CASE x = q
        <4>1. u = 0 /\ g[x][u] = r
          BY <1>11, <2>1, <3>3, RecordsAreValid
        <4>2. Age(s, r.seq) = 0
          BY <1>6, <1>9, AgeSelf
        <4>3. QED
          BY <3>1, <4>1, <4>2
      <3>4. QED
        BY <1>3, <3>2, <3>3
    <2>2. QED
      BY <1>6, <2>1 DEF Window
  <1>16. Pending(g, p, seq, value, c)
    BY <1>1, <1>3, <1>10, <1>11, <1>12, <1>13, <1>14, <1>15 DEF Pending, Struct
  <1>17. Matches(r, "snapshot", g[p][Intent], s)
    BY <1>1, <1>3, <1>5, <1>9, <1>10, <1>11 DEF Matches
  <1>18. QED
    BY <1>11, <1>16, <1>17 DEF g, r
(* The activation hands authority over to the copy. *)
LEMMA ActivationWritten ==
  ASSUME NEW f, NEW p \in Pages, NEW seq, NEW value, NEW c \in 0 .. MaxResets, Pending(f, p, seq, value, c),
         Matches(f[1 - p][0], "snapshot", f[p][Intent], Succ(seq, 1)),
         \A t \in Slots \ {0} : f[1 - p][t] = Erased
  PROVE  Quiet(With(f, p, Activate, Transition("activate", Succ(seq, 2), value, 1 - p, seq)),
               <<1 - p, 0>>, Succ(seq, 2), value, c)
PROOF
  <1> DEFINE q == 1 - p
             s == Succ(seq, 2)
             r == Transition("activate", s, value, q, seq)
             g == With(f, p, Activate, r)
  <1>1. /\ Struct(f) /\ Owner(f, p) /\ f[p][Activate] = Erased
        /\ seq = f[p][Intent].seq /\ value = f[p][Intent].value
        /\ \A t \in Slots : f[p][t] # Erased =>
             /\ BodyValid(f[p][t]) /\ (t # Intent => Plain(f[p][t]))
             /\ Age(seq, f[p][t].seq) <= Span(c) - DataSlots - 4
    BY DEF Pending
  <1>2. Typed(f) /\ Distinct(f) /\ Below(f) /\ Above(f) /\ Authority(f, p)
    BY <1>1 DEF Struct, Owner
  <1>3. /\ q \in Pages /\ 1 - q = p /\ p # q /\ (\A x \in Pages : x = p \/ x = q)
        /\ Intent \in Slots /\ Activate \in Slots /\ 0 \in Slots /\ 0 # Intent /\ Intent # Activate /\ 0 # Activate
    BY PagesAre
  <1>4. f[p][Intent] \in Record /\ Fits(f[p][Intent], p, Intent) /\ seq \in Seqs /\ value \in Values
    BY <1>1, <1>2, <1>3, RecordIs DEF Authority
  <1>5. f[p][Intent].target = q /\ f[p][Intent].magic = "intent" /\ BodyValid(f[p][Intent])
    BY <1>2, <1>3, <1>4, PagesAre DEF Authority, Fits
  <1>6. s \in Seqs /\ Succ(seq, 1) \in Seqs /\ Newer(s, Succ(seq, 1)) /\ Succ(Succ(seq, 1), 1) = s
    BY <1>4, SuccNewer
  <1>7. /\ BodyValid(f[q][0]) /\ f[q][0].magic = "snapshot" /\ f[q][0].seq = Succ(seq, 1)
        /\ f[q][0].value = value /\ f[q][0].target = q /\ f[q][0].parent = seq
    BY <1>1, <1>5 DEF Matches
  <1>8. \A u \in Slots : u # 0 => f[q][u] = Erased /\ ~BodyValid(f[q][u])
    BY RecordsAreValid
  <1>9. ASSUME NEW t \in Slots, BodyValid(f[p][t])
        PROVE  /\ f[p][t].seq \in Seqs /\ Age(seq, f[p][t].seq) \in Nat
               /\ Age(seq, f[p][t].seq) <= Span(c) - DataSlots - 4
               /\ Age(s, f[p][t].seq) = Age(seq, f[p][t].seq) + 2 /\ s # f[p][t].seq
    <2>1. f[p][t].seq \in Seqs /\ Age(seq, f[p][t].seq) <= Span(c) - DataSlots - 4
      BY <1>1, <1>2, <1>9, RecordIs, RecordsAreValid
    <2>2. Age(seq, f[p][t].seq) <= Span(c) - 3
      <3>1. DataSlots \in Nat /\ Span(c) \in Nat /\ Age(seq, f[p][t].seq) \in Seqs
        BY <1>4, <2>1, AgeIs, Constants
      <3>2. QED
        BY <2>1, <3>1 DEF Seqs
    <2>3. QED
      BY <1>4, <2>1, <2>2, NumberLater
  <1>10. s # f[q][0].seq /\ Age(s, f[q][0].seq) = 1
    <2>1. s # f[q][0].seq
      BY <1>6, <1>7 DEF Newer
    <2>2. Age(Succ(seq, 1), Succ(seq, 1)) = 0
      BY <1>6, AgeSelf
    <2>3. 0 \in 0 .. MaxResets /\ 0 <= Span(0) - 3
      <3>1. 0 \in 0 .. MaxResets
        BY Constants
      <3>2. Span(0) \in Nat /\ Span(0) >= 2 * DataSlots + 6 /\ DataSlots \in Nat
        BY <3>1, Constants
      <3>3. QED
        BY <3>1, <3>2
    <2>4. Age(Succ(Succ(seq, 1), 1), Succ(seq, 1)) = 0 + 1
      BY <1>6, <2>2, <2>3, NumberLater
    <2>5. QED
      BY <1>6, <1>7, <2>1, <2>4
  <1>11. /\ r \in Record /\ r.magic = "activate" /\ r.seq = s /\ r.value = value
         /\ r.target = q /\ r.parent = seq /\ Fits(r, p, Activate)
    <2>1. /\ r \in Record /\ r.magic = "activate" /\ r.seq = s /\ r.value = value
          /\ r.target = q /\ r.parent = seq
      BY <1>3, <1>4, <1>6, NewRecords
    <2>2. QED
      BY <2>1 DEF Fits
  <1> HIDE DEF r, s
  <1>12. /\ Typed(g) /\ Distinct(g) /\ BodyValid(r) /\ r # Erased
         /\ \A x \in Pages, u \in Slots : g[x][u] = IF x = p /\ u = Activate THEN r ELSE f[x][u]
    <2>1. \A x \in Pages, u \in Slots : BodyValid(f[x][u]) => r.seq # f[x][u].seq
      <3>1. SUFFICES ASSUME NEW x \in Pages, NEW u \in Slots, BodyValid(f[x][u])
                     PROVE  r.seq # f[x][u].seq
        OBVIOUS
      <3>2. x = p \/ (x = q /\ u = 0)
        BY <1>3, <1>8, <3>1
      <3>3. QED
        BY <1>9, <1>10, <1>11, <3>1, <3>2
    <2>2. QED
      <3>1. Typed(f) /\ Distinct(f) /\ Activate \in Slots /\ f[p][Activate] = Erased /\ r \in Record /\ Fits(r, p, Activate)
        BY <1>1, <1>2, <1>3, <1>11
      <3>2. QED
        BY <2>1, <3>1, WithTyped DEF g
  <1> HIDE DEF g
  <1>13. /\ g[p][Activate] = r /\ (\A u \in Slots : g[q][u] = f[q][u])
         /\ \A u \in Slots : u # Activate => g[p][u] = f[p][u]
    BY <1>3, <1>12
  <1>14. Authority(g, p) /\ ~Authority(g, q) /\ Owner(g, p)
    BY <1>1, <1>2, <1>3, <1>8, <1>13 DEF Authority, Owner
  <1>15. \A x \in Pages : Authority(g, x) => x = p
    BY <1>3, <1>14
  <1>16. Matches(r, "activate", g[p][Intent], s) /\ Matches(g[q][0], "snapshot", g[p][Intent], Succ(seq, 1))
    BY <1>1, <1>3, <1>5, <1>7, <1>11, <1>12, <1>13 DEF Matches
  <1>17. g[p][Intent].seq = seq /\ g[q][0] = f[q][0]
    BY <1>1, <1>3, <1>13
  <1>18. Below(g)
    <2>1. ASSUME NEW u \in 0 .. DataSlots - 1, BodyValid(g[p][u])
          PROVE  Newer(g[p][Intent].seq, g[p][u].seq)
      <3>1. g[p][u] = f[p][u] /\ g[p][Intent] = f[p][Intent]
        BY <1>3, <1>13, PagesAre
      <3>2. QED
        BY <1>2, <2>1, <3>1 DEF Below
    <2>2. QED
      BY <1>13, <1>15, <1>16, <1>17, <2>1 DEF Below, s
  <1>19. Above(g)
    <2>1. \A u \in Slots \ {0} : ~BodyValid(g[q][u])
      BY <1>8, <1>13
    <2>2. QED
      BY <1>15, <1>16, <1>17, <2>1 DEF Above
  <1>20. Ended(g, p)
    <2>1. Clean(g, q)
      BY <1>7, <1>8, <1>13, <1>17 DEF Clean, Plain
    <2>2. QED
      BY <1>7, <1>12, <1>13, <1>14, <1>17, <2>1 DEF Ended
  <1>21. Leads(g, q, 0, s)
    BY <1>3, <1>8, <1>11, <1>13, <1>20 DEF Leads
  <1>22. Ages(g, q, s, c)
    <2> DEFINE m == DataSlots - 1
    <2>1. DataSlots \in Nat /\ Span(c) \in Nat /\ Span(c) >= 2 * DataSlots + 6 /\ m \in 0 .. DataSlots
      <3>1. DataSlots \in Nat /\ DataSlots >= 2 /\ Span(c) \in Nat /\ Span(c) >= 2 * DataSlots + 6
        BY Constants
      <3>2. QED
        BY <3>1
    <2>2. Room(g, q, m)
      <3>1. \A t \in 0 .. DataSlots - 1 : t < DataSlots - m => t = 0
        BY <2>1
      <3>2. QED
        BY <1>7, <1>17, <3>1 DEF Room, BodyValid
    <2>3. ASSUME NEW x \in Pages, NEW u \in Slots, BodyValid(g[x][u])
          PROVE  Age(s, g[x][u].seq) + m <= IF x = q THEN Span(c) - DataSlots - 5 ELSE Span(c) - 3
      <3>1. CASE x = p /\ u = Activate
        <4>1. Age(s, g[x][u].seq) = 0
          BY <1>6, <1>11, <1>13, <3>1, AgeSelf
        <4>2. QED
          BY <1>3, <2>1, <3>1, <4>1
      <3>2. CASE x = p /\ u # Activate
        <4>1. g[x][u] = f[p][u] /\ BodyValid(f[p][u])
          BY <1>13, <2>3, <3>2
        <4>2. /\ Age(seq, f[p][u].seq) \in Nat /\ Age(seq, f[p][u].seq) <= Span(c) - DataSlots - 4
              /\ Age(s, f[p][u].seq) = Age(seq, f[p][u].seq) + 2
          BY <1>9, <4>1
        <4>3. QED
          BY <1>3, <2>1, <3>2, <4>1, <4>2
      <3>3. CASE x = q
        <4>1. u = 0 /\ g[x][u] = f[q][0]
          BY <1>8, <1>13, <2>3, <3>3
        <4>2. QED
          BY <1>3, <1>10, <2>1, <3>3, <4>1
      <3>4. QED
        BY <1>3, <3>1, <3>2, <3>3
    <2>4. QED
      BY <2>1, <2>2, <2>3 DEF Ages
  <1>23. Quiet(g, <<q, 0>>, s, value, c)
    BY <1>3, <1>6, <1>7, <1>12, <1>17, <1>18, <1>19, <1>21, <1>22 DEF Quiet, Struct
  <1>24. QED
    BY <1>23 DEF g, r, s

(* A commit word changes nothing that matters. *)
SamePages(f, g) == /\ g \in Flash
                   /\ \A p \in Pages, t \in Slots :
                        \/ g[p][t] = f[p][t]
                        \/ BodyValid(f[p][t]) /\ BodyValid(g[p][t]) /\ SameBody(g[p][t], f[p][t])

LEMMA SameGood ==
  ASSUME NEW f, NEW g, SamePages(f, g), NEW lat, NEW seq, NEW pend, NEW value, NEW c,
         Good(f, lat, seq, pend, value, c)
  PROVE  Good(g, lat, seq, pend, value, c)
PROOF
  <1>1. Struct(f)
    BY DEF Good, Quiet, Pending
  <1>2. \A p \in Pages, t \in Slots :
          /\ BodyValid(g[p][t]) <=> BodyValid(f[p][t])
          /\ g[p][t] = Erased <=> f[p][t] = Erased
          /\ Plain(g[p][t]) <=> Plain(f[p][t])
          /\ BodyValid(f[p][t]) => SameBody(g[p][t], f[p][t])
          /\ g[p][t] \in Record \cup {Erased, Torn}
    BY DEF SamePages, SameBody, Plain, BodyValid, Flash
  <1>3. Lost(f, g)
    <2>1. ASSUME NEW p \in Pages, NEW t \in Slots
          PROVE  Remains(g[p][t], f[p][t])
      BY <1>2 DEF Remains, BodyValid
    <2>2. QED
      BY <2>1 DEF Lost, SamePages
  <1>4. Struct(g) /\ \A b : Window(f, b) => Window(g, b)
    BY <1>1, <1>3, LostStruct
  <1>5. \A p \in Pages, t \in Slots : BodyValid(f[p][t]) =>
          f[p][t].seq = g[p][t].seq /\ f[p][t].value = g[p][t].value /\ f[p][t].magic = g[p][t].magic
    BY <1>2 DEF SameBody
  <1>6. \A p \in Pages : 1 - p \in Pages /\ Intent \in Slots /\ Activate \in Slots /\ 0 \in Slots
    BY PagesAre
  <1>7. \A p \in Pages : Authority(f, p) <=> Authority(g, p)
    BY <1>2, <1>5, <1>6 DEF Authority
  <1>8. \A p \in Pages : Owner(f, p) <=> Owner(g, p)
    BY <1>5, <1>6, <1>7 DEF Owner, Authority
  <1>9. \A p \in Pages : Clean(f, p) => Clean(g, p)
    BY <1>2 DEF Clean
  <1>10. (Open(f) => Open(g)) /\ (Blank(f) => Blank(g)) /\ \A p \in Pages : Ended(f, p) => Ended(g, p)
    BY <1>2, <1>6, <1>8, <1>9 DEF Open, Blank, Ended
  <1>11. CASE pend = None /\ Quiet(f, lat, seq, value, c)
    <2>1. ASSUME NEW p \in Pages, NEW t \in Slots, lat = <<p, t>>, BodyValid(f[p][t]),
                 value = f[p][t].value, seq \in Seqs, Leads(f, p, t, seq), Ages(f, p, seq, c)
          PROVE  Quiet(g, lat, seq, value, c)
      <3>1. BodyValid(g[p][t]) /\ value = g[p][t].value
        BY <1>2, <1>5, <2>1
      <3>2. Leads(g, p, t, seq)
        <4>1. CASE Open(f) /\ seq = f[p][t].seq
          BY <1>5, <1>10, <2>1, <4>1 DEF Leads
        <4>2. CASE /\ Ended(f, 1 - p)
                   /\ \/ t # 0 /\ seq = f[p][t].seq
                      \/ t = 0 /\ seq = f[1 - p][Activate].seq /\ \A u \in Slots \ {0} : f[p][u] = Erased
          <5>1. Ended(g, 1 - p) /\ BodyValid(f[1 - p][Activate])
            BY <1>6, <1>10, <4>2 DEF Ended
          <5>2. f[1 - p][Activate].seq = g[1 - p][Activate].seq /\ f[p][t].seq = g[p][t].seq
            BY <1>5, <1>6, <2>1, <5>1
          <5>3. \A u \in Slots : f[p][u] = Erased => g[p][u] = Erased
            BY <1>2
          <5>4. QED
            BY <4>2, <5>1, <5>2, <5>3 DEF Leads
        <4>3. QED
          BY <2>1, <4>1, <4>2 DEF Leads
      <3>3. Ages(g, p, seq, c)
        <4>1. PICK k \in 0 .. DataSlots :
                /\ Room(f, p, k)
                /\ \A q \in Pages, u \in Slots : BodyValid(f[q][u]) =>
                     Age(seq, f[q][u].seq) + k <= IF q = p THEN Span(c) - DataSlots - 5 ELSE Span(c) - 3
          BY <2>1 DEF Ages
        <4>2. Room(g, p, k)
          BY <1>2, <4>1, PagesAre DEF Room
        <4>3. \A q \in Pages, u \in Slots : BodyValid(g[q][u]) =>
                Age(seq, g[q][u].seq) + k <= IF q = p THEN Span(c) - DataSlots - 5 ELSE Span(c) - 3
          BY <1>2, <1>5, <4>1
        <4>4. QED
          BY <4>2, <4>3 DEF Ages
      <3>4. QED
        BY <1>4, <2>1, <3>1, <3>2, <3>3 DEF Quiet
    <2>2. ASSUME Blank(f), lat = None, seq = 0, value = None
          PROVE  Quiet(g, lat, seq, value, c)
      <3>1. Struct(g) /\ Blank(g)
        BY <1>4, <1>10, <2>2
      <3>2. QED
        BY <2>2, <3>1 DEF Quiet
    <2>3. Quiet(g, lat, seq, value, c)
      <3>1. Quiet(f, lat, seq, value, c)
        BY <1>11
      <3>2. QED
        BY <2>1, <2>2, <3>1 DEF Quiet
    <2>4. QED
      BY <1>11, <2>3 DEF Good
  <1>12. ASSUME NEW p \in Pages, pend = <<p, Intent>>, lat = pend, Pending(f, p, seq, value, c)
         PROVE  Good(g, lat, seq, pend, value, c)
    <2>1. /\ Owner(g, p) /\ g[p][Activate] = Erased /\ Window(g, Span(c))
          /\ seq = g[p][Intent].seq /\ value = g[p][Intent].value
      BY <1>2, <1>4, <1>5, <1>6, <1>8, <1>12 DEF Pending, Owner, Authority
    <2>2. ASSUME NEW t \in Slots, g[p][t] # Erased
          PROVE  /\ BodyValid(g[p][t]) /\ (t # Intent => Plain(g[p][t]))
                 /\ Age(seq, g[p][t].seq) <= Span(c) - DataSlots - 4
      <3>1. /\ BodyValid(f[p][t]) /\ (t # Intent => Plain(f[p][t]))
            /\ Age(seq, f[p][t].seq) <= Span(c) - DataSlots - 4
        BY <1>2, <1>12, <2>2 DEF Pending
      <3>2. QED
        BY <1>2, <1>5, <3>1
    <2>3. Pending(g, p, seq, value, c)
      BY <1>4, <2>1, <2>2 DEF Pending
    <2>4. QED
      BY <1>12, <2>3 DEF Good
  <1>13. QED
    BY <1>11, <1>12 DEF Good
(* A record that is torn where a scan reads it makes the scan refuse.         *)
LEMMA Tearing ==
  ASSUME NEW f, Typed(f), NEW p \in Pages, NEW t \in Slots
  PROVE  /\ Lost(f, With(f, p, t, Torn)) /\ With(f, p, t, Torn)[p][t] = Torn
         /\ \A q \in Pages, u \in Slots : q # p \/ u # t => With(f, p, t, Torn)[q][u] = f[q][u]
PROOF
  <1> DEFINE g == With(f, p, t, Torn)
  <1>1. g \in Flash /\ \A q \in Pages, u \in Slots : g[q][u] = IF q = p /\ u = t THEN Torn ELSE f[q][u]
    BY WithIs DEF Typed
  <1> HIDE DEF g
  <1>2. ASSUME NEW q \in Pages, NEW u \in Slots
        PROVE  Remains(g[q][u], f[q][u])
    <2>1. g[q][u] = Torn \/ g[q][u] = f[q][u]
      BY <1>1
    <2>2. QED
      BY <2>1 DEF Remains, SameBody, BodyValid
  <1>3. QED
    BY <1>1, <1>2 DEF Lost, g

LEMMA BodyTorn ==
  ASSUME NEW f, NEW lat, NEW seq, NEW value, NEW c \in 0 .. MaxResets, Quiet(f, lat, seq, value, c),
         NEW t \in Slots, f[PageOf(lat)][t] = Erased
  PROVE  Refuses(With(f, PageOf(lat), t, Torn))
PROOF
  <1> DEFINE p == PageOf(lat)
             g == With(f, p, t, Torn)
  <1>1. /\ Struct(f) /\ p \in Pages /\ Clean(f, p) /\ (Open(f) \/ Ended(f, 1 - p))
        /\ Window(f, Span(c)) /\ Typed(f)
    BY QuietParts DEF Struct
  <1> HIDE DEF p
  <1>2. /\ Lost(f, g) /\ g[p][t] = Torn
        /\ \A q \in Pages, u \in Slots : q # p \/ u # t => g[q][u] = f[q][u]
    BY <1>1, Tearing
  <1>3. Struct(g) /\ Window(g, Span(c)) /\ Span(c) \in 0 .. Half - 1
    BY <1>1, <1>2, LostStruct, Constants
  <1> HIDE DEF g
  <1>4. /\ 1 - p \in Pages /\ 1 - (1 - p) = p /\ p # 1 - p /\ (\A q \in Pages : q = p \/ q = 1 - p)
        /\ Intent \in Slots /\ Activate \in Slots
    BY <1>1, PagesAre
  <1>5. ~Authority(g, p) /\ (Authority(g, 1 - p) <=> Authority(f, 1 - p))
    <2>1. ~Authority(f, p)
      BY <1>1, CleanNoAuthority
    <2>2. g[p][Intent] = Torn \/ g[p][Intent] = f[p][Intent]
      BY <1>1, <1>2, <1>4
    <2>3. QED
      BY <1>2, <1>4, <2>1, <2>2, RecordsAreValid DEF Authority
  <1>6. p \in Active(g)
    <2>1. CASE Open(f)
      <3>1. ~Authority(f, 1 - p)
        BY <1>4, <2>1, CleanNoAuthority DEF Open
      <3>2. \A q \in Pages : ~Authority(g, q)
        BY <1>4, <1>5, <3>1
      <3>3. Owners(g) = {}
        BY <1>3, <3>2, OwnersAre
      <3>4. QED
        BY <1>1, <3>3, OpenParts
    <2>2. CASE Ended(f, 1 - p)
      <3>1. Owner(g, 1 - p) /\ g[1 - p][Activate] # Erased
        BY <1>2, <1>4, <1>5, <2>2 DEF Ended, Owner, BodyValid
      <3>2. Owners(g) = {1 - p}
        BY <1>3, <1>4, <3>1, OwnersAre
      <3>3. QED
        BY <1>4, <3>1, <3>2, EndedParts
    <2>3. QED
      BY <1>1, <2>1, <2>2
  <1>7. <<p, t>> \in Used(g) /\ At(g, <<p, t>>) = Torn
    BY <1>1, <1>2, <1>6, UsedIs, RecordsAreValid
  <1>8. ~Expected(Torn, <<p, t>>, <<p, t>> \in Pend(g))
    BY RecordsAreValid DEF Expected
  <1>9. QED
    BY <1>7, <1>8 DEF Refuses, g, p

LEMMA ActivationTorn ==
  ASSUME NEW f, NEW p \in Pages, NEW seq, NEW value, NEW c \in 0 .. MaxResets, Pending(f, p, seq, value, c)
  PROVE  Refuses(With(f, p, Activate, Torn))
PROOF
  <1> DEFINE g == With(f, p, Activate, Torn)
  <1>1. Struct(f) /\ Typed(f) /\ Window(f, Span(c)) /\ Owner(f, p)
    BY DEF Pending, Struct
  <1>2. /\ 1 - p \in Pages /\ p # 1 - p /\ Intent \in Slots /\ Activate \in Slots /\ Intent # Activate
    BY PagesAre
  <1>3. /\ Lost(f, g) /\ g[p][Activate] = Torn
        /\ \A q \in Pages, u \in Slots : q # p \/ u # Activate => g[q][u] = f[q][u]
    BY <1>1, <1>2, Tearing
  <1>4. Struct(g) /\ Window(g, Span(c)) /\ Span(c) \in 0 .. Half - 1
    BY <1>1, <1>3, LostStruct, Constants
  <1> HIDE DEF g
  <1>5. Owner(g, p)
    BY <1>1, <1>2, <1>3 DEF Owner, Authority
  <1>6. Concluded(g) = {p}
    BY <1>3, <1>4, <1>5, OwnersAre, EndedParts, RecordsAreValid
  <1>7. ~Activated(g, p)
    BY <1>3, RecordsAreValid DEF Activated, Matches
  <1>8. QED
    BY <1>6, <1>7 DEF Refuses, g

(* What an erase that is interrupted, or done, leaves.                        *)
LEMMA EraseLoses ==
  ASSUME flash \in Flash, NEW p \in Pages,
         NEW g \in HalfErased(p) \cup {[flash EXCEPT ![p] = [s \in Slots |-> Erased]]}
  PROVE  /\ Lost(flash, g) /\ \A q \in Pages, t \in Slots : q # p => g[q][t] = flash[q][t]
         /\ g = [flash EXCEPT ![p] = [s \in Slots |-> Erased]] => \A t \in Slots : g[p][t] = Erased
PROOF
  <1>1. \A q \in Pages, t \in Slots : flash[q][t] \in Record \cup {Erased, Torn}
    BY DEF Flash
  <1>2. PICK row \in [Slots -> Record \cup {Erased, Torn}] :
          /\ g = [flash EXCEPT ![p] = row]
          /\ \A t \in Slots : row[t] \in {flash[p][t], Torn, Erased}
    <2>1. CASE g = [flash EXCEPT ![p] = [s \in Slots |-> Erased]]
      BY <2>1
    <2>2. CASE g \in HalfErased(p)
      <3>1. PICK h \in [Slots -> {"kept", "torn", "erased"}] :
              g = [flash EXCEPT ![p] = [s \in Slots |-> CASE h[s] = "kept"   -> flash[p][s]
                                                          [] h[s] = "torn"   -> Torn
                                                          [] h[s] = "erased" -> Erased]]
        BY <2>2 DEF HalfErased, Fates
      <3> DEFINE row == [s \in Slots |-> CASE h[s] = "kept"   -> flash[p][s]
                                           [] h[s] = "torn"   -> Torn
                                           [] h[s] = "erased" -> Erased]
      <3>2. ASSUME NEW t \in Slots
            PROVE  row[t] \in {flash[p][t], Torn, Erased}
        <4>1. h[t] \in {"kept", "torn", "erased"}
          OBVIOUS
        <4>2. QED
          BY <4>1
      <3>3. row \in [Slots -> Record \cup {Erased, Torn}]
        <4>1. row = [s \in Slots |-> row[s]]
          OBVIOUS
        <4> HIDE DEF row
        <4>2. QED
          BY <1>1, <3>2, <4>1
      <3>4. QED
        BY <3>1, <3>2, <3>3
    <2>3. QED
      BY <2>1, <2>2
  <1>3. g \in Flash /\ \A q \in Pages, t \in Slots : g[q][t] = IF q = p THEN row[t] ELSE flash[q][t]
    BY <1>2 DEF Flash
  <1>4. ASSUME NEW q \in Pages, NEW t \in Slots
        PROVE  Remains(g[q][t], flash[q][t])
    <2>1. g[q][t] \in {flash[q][t], Torn, Erased}
      BY <1>2, <1>3
    <2>2. QED
      BY <1>1, <2>1 DEF Remains, SameBody, BodyValid
  <1>5. QED
    BY <1>3, <1>4 DEF Lost, Flash
-----------------------------------------------------------------------------
(* Plans are tuples. *)
LEMMA Joined ==
  ASSUME NEW S, NEW s \in Seq(S), NEW t \in Seq(S), NEW u \in Seq(S), Len(u) = Len(s) + Len(t),
         \A i \in 1 .. Len(s) : u[i] = s[i], \A i \in 1 .. Len(t) : u[Len(s) + i] = t[i]
  PROVE  s \o t = u
PROOF
  <1>1. /\ s \o t \in Seq(S) /\ Len(s \o t) = Len(s) + Len(t)
        /\ \A i \in 1 .. Len(s) + Len(t) : (s \o t)[i] = IF i <= Len(s) THEN s[i] ELSE t[i - Len(s)]
    BY ConcatProperties
  <1>2. ASSUME NEW i \in 1 .. Len(u)
        PROVE  (s \o t)[i] = u[i]
    <2>1. CASE i <= Len(s)
      BY <1>1, <2>1
    <2>2. CASE i > Len(s)
      <3>1. i - Len(s) \in 1 .. Len(t) /\ Len(s) + (i - Len(s)) = i
        BY <2>2
      <3>2. QED
        BY <1>1, <2>2, <3>1
    <2>3. QED
      BY <2>1, <2>2
  <1>3. QED
    BY <1>1, <1>2, SeqEqual

LEMMA Join12 ==
  ASSUME NEW a, NEW b, NEW c
  PROVE  <<a>> \o <<b, c>> = <<a, b, c>>
PROOF
  <1> DEFINE S == {a, b, c}
             s == <<a>>
             t == <<b, c>>
             u == <<a, b, c>>
  <1>1. s \in Seq(S) /\ Len(s) = 1 /\ t \in Seq(S) /\ Len(t) = 2 /\ u \in Seq(S) /\ Len(u) = 3
        /\ u[1] = s[1] /\ u[2] = t[1] /\ u[3] = t[2]
    OBVIOUS
  <1> HIDE DEF s, t, u, S
  <1>2. \A i \in 1 .. Len(s) : u[i] = s[i]
    BY <1>1
  <1>3. \A i \in 1 .. Len(t) : u[Len(s) + i] = t[i]
    BY <1>1
  <1>4. Len(u) = Len(s) + Len(t) /\ s \in Seq(S) /\ t \in Seq(S) /\ u \in Seq(S)
    BY <1>1
  <1>5. s \o t = u
    BY <1>2, <1>3, <1>4, Joined, Zenon
  <1>6. QED
    BY <1>5 DEF s, t, u

LEMMA Join21 ==
  ASSUME NEW a, NEW b, NEW c
  PROVE  <<a, b>> \o <<c>> = <<a, b, c>>
PROOF
  <1> DEFINE S == {a, b, c}
             s == <<a, b>>
             t == <<c>>
             u == <<a, b, c>>
  <1>1. s \in Seq(S) /\ Len(s) = 2 /\ t \in Seq(S) /\ Len(t) = 1 /\ u \in Seq(S) /\ Len(u) = 3
        /\ u[1] = s[1] /\ u[2] = s[2] /\ u[3] = t[1]
    OBVIOUS
  <1> HIDE DEF s, t, u, S
  <1>2. \A i \in 1 .. Len(s) : u[i] = s[i]
    BY <1>1
  <1>3. \A i \in 1 .. Len(t) : u[Len(s) + i] = t[i]
    BY <1>1
  <1>4. Len(u) = Len(s) + Len(t) /\ s \in Seq(S) /\ t \in Seq(S) /\ u \in Seq(S)
    BY <1>1
  <1>5. s \o t = u
    BY <1>2, <1>3, <1>4, Joined, Zenon
  <1>6. QED
    BY <1>5 DEF s, t, u

LEMMA Join32 ==
  ASSUME NEW a, NEW b, NEW c, NEW d, NEW e
  PROVE  <<a, b, c>> \o <<d, e>> = <<a, b, c, d, e>>
PROOF
  <1> DEFINE S == {a, b, c, d, e}
             s == <<a, b, c>>
             t == <<d, e>>
             u == <<a, b, c, d, e>>
  <1>1. s \in Seq(S) /\ Len(s) = 3 /\ t \in Seq(S) /\ Len(t) = 2 /\ u \in Seq(S) /\ Len(u) = 5
        /\ u[1] = s[1] /\ u[2] = s[2] /\ u[3] = s[3] /\ u[4] = t[1] /\ u[5] = t[2]
    OBVIOUS
  <1> HIDE DEF s, t, u, S
  <1>2. ASSUME NEW i \in 1 .. Len(s)
        PROVE  u[i] = s[i]
    <2>1. i = 1 \/ i = 2 \/ i = 3
      BY <1>1
    <2>2. QED
      BY <1>1, <2>1
  <1>3. \A i \in 1 .. Len(t) : u[Len(s) + i] = t[i]
    BY <1>1
  <1>4. Len(u) = Len(s) + Len(t) /\ s \in Seq(S) /\ t \in Seq(S) /\ u \in Seq(S)
    BY <1>1
  <1>5. s \o t = u
    BY <1>2, <1>3, <1>4, Joined, Zenon
  <1>6. QED
    BY <1>5 DEF s, t, u

LEMMA Join51 ==
  ASSUME NEW a, NEW b, NEW c, NEW d, NEW e, NEW f
  PROVE  <<a, b, c, d, e>> \o <<f>> = <<a, b, c, d, e, f>>
PROOF
  <1> DEFINE S == {a, b, c, d, e, f}
             s == <<a, b, c, d, e>>
             t == <<f>>
             u == <<a, b, c, d, e, f>>
  <1>1. s \in Seq(S) /\ Len(s) = 5 /\ t \in Seq(S) /\ Len(t) = 1 /\ u \in Seq(S) /\ Len(u) = 6
        /\ u[1] = s[1] /\ u[2] = s[2] /\ u[3] = s[3] /\ u[4] = s[4] /\ u[5] = s[5] /\ u[6] = t[1]
    OBVIOUS
  <1> HIDE DEF s, t, u, S
  <1>2. ASSUME NEW i \in 1 .. Len(s)
        PROVE  u[i] = s[i]
    <2>1. i = 1 \/ i = 2 \/ i = 3 \/ i = 4 \/ i = 5
      BY <1>1
    <2>2. QED
      BY <1>1, <2>1
  <1>3. \A i \in 1 .. Len(t) : u[Len(s) + i] = t[i]
    BY <1>1
  <1>4. Len(u) = Len(s) + Len(t) /\ s \in Seq(S) /\ t \in Seq(S) /\ u \in Seq(S)
    BY <1>1
  <1>5. s \o t = u
    BY <1>2, <1>3, <1>4, Joined, Zenon
  <1>6. QED
    BY <1>5 DEF s, t, u

LEMMA Join36 ==
  ASSUME NEW x, NEW y, NEW z, NEW a, NEW b, NEW c, NEW d, NEW e, NEW f
  PROVE  <<x, y, z>> \o <<a, b, c, d, e, f>> = <<x, y, z, a, b, c, d, e, f>>
PROOF
  <1> DEFINE S == {x, y, z, a, b, c, d, e, f}
             s == <<x, y, z>>
             t == <<a, b, c, d, e, f>>
             u == <<x, y, z, a, b, c, d, e, f>>
  <1>1. s \in Seq(S) /\ Len(s) = 3 /\ t \in Seq(S) /\ Len(t) = 6 /\ u \in Seq(S) /\ Len(u) = 9
    OBVIOUS
  <1>2. /\ u[1] = s[1] /\ u[2] = s[2] /\ u[3] = s[3]
        /\ u[4] = t[1] /\ u[5] = t[2] /\ u[6] = t[3] /\ u[7] = t[4] /\ u[8] = t[5] /\ u[9] = t[6]
    OBVIOUS
  <1> HIDE DEF s, t, u, S
  <1>3. ASSUME NEW i \in 1 .. Len(s)
        PROVE  u[i] = s[i]
    <2>1. i = 1 \/ i = 2 \/ i = 3
      BY <1>1
    <2>2. QED
      BY <1>2, <2>1
  <1>4. ASSUME NEW i \in 1 .. Len(t)
        PROVE  u[Len(s) + i] = t[i]
    <2>1. Len(s) = 3 /\ (i = 1 \/ i = 2 \/ i = 3 \/ i = 4 \/ i = 5 \/ i = 6)
      BY <1>1
    <2>2. QED
      BY <1>2, <2>1
  <1>5. Len(u) = Len(s) + Len(t) /\ s \in Seq(S) /\ t \in Seq(S) /\ u \in Seq(S)
    BY <1>1
  <1>6. s \o t = u
    BY <1>3, <1>4, <1>5, Joined, Zenon
  <1>7. QED
    BY <1>6 DEF s, t, u

(* The plans that the actions make. *)
LEMMA PlansAre ==
  /\ \A p, t, v : pending = None => AppendPlan(<<p, t>>, v) = AppendSteps(p, t, Succ(sequence, 1), v)
  /\ \A p, i : i.target = 1 - p => Resume(<<p, Intent>>, i) = ResumeSteps(p, i.seq, i.value)
  /\ \A p : Reclaim(p) = ReclaimSteps(p, Succ(sequence, 1), saved)
PROOF
  <1>1. ASSUME NEW p, NEW t, NEW v, pending = None
        PROVE  AppendPlan(<<p, t>>, v) = AppendSteps(p, t, Succ(sequence, 1), v)
    BY <1>1, Join21 DEF AppendPlan, WriteRecord, AppendSteps
  <1>2. ASSUME NEW p, NEW i, i.target = 1 - p
        PROVE  Resume(<<p, Intent>>, i) = ResumeSteps(p, i.seq, i.value)
    <2> DEFINE t == 1 - p
               a == Erase(t)
               b == Body(<<t, 0>>, Transition("snapshot", Succ(i.seq, 1), i.value, t, i.seq))
               c == Commit(<<t, 0>>)
               d == Body(<<p, Activate>>, Transition("activate", Succ(i.seq, 2), i.value, t, i.seq))
               e == Commit(<<p, Activate>>)
               z == Remember(<<t, 0>>, Succ(i.seq, 2), None, i.value)
    <2>1. Resume(<<p, Intent>>, i) = <<a>> \o <<b, c>> \o <<d, e>> \o <<z>>
      BY <1>2 DEF Resume, WriteRecord
    <2>2. ResumeSteps(p, i.seq, i.value) = <<a, b, c, d, e, z>>
      BY DEF ResumeSteps
    <2> HIDE DEF a, b, c, d, e, z
    <2>3. <<a>> \o <<b, c>> = <<a, b, c>>
      BY Join12
    <2>4. <<a, b, c>> \o <<d, e>> = <<a, b, c, d, e>>
      BY Join32
    <2>5. <<a, b, c, d, e>> \o <<z>> = <<a, b, c, d, e, z>>
      BY Join51
    <2>6. QED
      BY <2>1, <2>2, <2>3, <2>4, <2>5
  <1>3. ASSUME NEW p
        PROVE  Reclaim(p) = ReclaimSteps(p, Succ(sequence, 1), saved)
    <2> DEFINE t == 1 - p
               o == <<p, Intent>>
               n == Succ(sequence, 1)
               i == Transition("intent", n, saved, t, n)
               x == Body(o, i)
               y == Commit(o)
               w == Remember(o, n, o, saved)
               a == Erase(t)
               b == Body(<<t, 0>>, Transition("snapshot", Succ(n, 1), saved, t, n))
               c == Commit(<<t, 0>>)
               d == Body(<<p, Activate>>, Transition("activate", Succ(n, 2), saved, t, n))
               e == Commit(<<p, Activate>>)
               z == Remember(<<t, 0>>, Succ(n, 2), None, saved)
    <2>1. i.target = 1 - p /\ i.seq = n /\ i.value = saved
      BY DEF Transition
    <2>2. Resume(o, i) = ResumeSteps(p, n, saved)
      BY <1>2, <2>1
    <2>3. Reclaim(p) = <<x, y>> \o <<w>> \o Resume(o, i)
      BY <2>1 DEF Reclaim, WriteRecord
    <2>4. ResumeSteps(p, n, saved) = <<a, b, c, d, e, z>>
      BY DEF ResumeSteps
    <2>5. ReclaimSteps(p, n, saved) = <<x, y, w, a, b, c, d, e, z>>
      BY DEF ReclaimSteps
    <2> HIDE DEF x, y, w, a, b, c, d, e, z
    <2>6. <<x, y>> \o <<w>> = <<x, y, w>>
      BY Join21
    <2>7. <<x, y, w>> \o <<a, b, c, d, e, z>> = <<x, y, w, a, b, c, d, e, z>>
      BY Join36
    <2>8. QED
      BY <2>2, <2>3, <2>4, <2>5, <2>6, <2>7
  <1>4. QED
    BY <1>1, <1>2, <1>3

-----------------------------------------------------------------------------
(* What an operation may leave behind. *)
LEMMA BodyIs ==
  ASSUME NEW c, NEW p, NEW t, NEW r, c = Body(<<p, t>>, r)
  PROVE  /\ c.op = "body" /\ c.at = <<p, t>> /\ Done(c) = With(flash, p, t, r)
         /\ Interrupted(c) = {flash, With(flash, p, t, r), With(flash, p, t, Torn)}
PROOF
  <1>1. c.op = "body" /\ c.at = <<p, t>> /\ c.record = r
    BY DEF Body
  <1>2. Done(c) = With(flash, p, t, r)
    <2>1. Done(c) = Put(c.at, c.record)
      BY <1>1 DEF Done
    <2>2. Put(<<p, t>>, r) = With(flash, p, t, r)
      BY DEF Put, With
    <2>3. QED
      BY <1>1, <2>1, <2>2
  <1>3. Interrupted(c) = {flash, Done(c)} \cup {With(flash, p, t, Torn)}
    <2>1. Interrupted(c) = {flash, Done(c)} \cup {Put(c.at, Torn)}
      BY <1>1 DEF Interrupted
    <2>2. Put(<<p, t>>, Torn) = With(flash, p, t, Torn)
      BY DEF Put, With
    <2>3. QED
      BY <1>1, <2>1, <2>2
  <1>4. QED
    BY <1>1, <1>2, <1>3

LEMMA CommitIs ==
  ASSUME NEW c, NEW p, NEW t, c = Commit(<<p, t>>)
  PROVE  LET g == With(flash, p, t, [flash[p][t] EXCEPT !.committed = TRUE])
         IN  c.op = "commit" /\ c.at = <<p, t>> /\ Done(c) = g /\ Interrupted(c) = {flash, g}
PROOF
  <1>1. c.op = "commit" /\ c.at = <<p, t>>
    BY DEF Commit
  <1>2. Done(c) = With(flash, p, t, [flash[p][t] EXCEPT !.committed = TRUE])
    <2>1. Done(c) = Put(c.at, [flash[c.at[1]][c.at[2]] EXCEPT !.committed = TRUE])
      BY <1>1 DEF Done
    <2>2. c.at[1] = p /\ c.at[2] = t
      BY <1>1
    <2>3. \A r : Put(<<p, t>>, r) = With(flash, p, t, r)
      BY DEF Put, With
    <2>4. QED
      BY <1>1, <2>1, <2>2, <2>3
  <1>3. Interrupted(c) = {flash, Done(c)}
    BY <1>1 DEF Interrupted
  <1>4. QED
    BY <1>1, <1>2, <1>3

LEMMA RememberIs ==
  ASSUME NEW c, NEW o, NEW s, NEW i, NEW v, c = Remember(o, s, i, v)
  PROVE  /\ c.op = "remember" /\ c.at = o /\ c.sequence = s /\ c.pending = i /\ c.saved = v
         /\ Done(c) = flash /\ Interrupted(c) = {flash}
PROOF
  <1>1. c.op = "remember" /\ c.at = o /\ c.sequence = s /\ c.pending = i /\ c.saved = v
    BY DEF Remember
  <1>2. Done(c) = flash
    BY <1>1 DEF Done
  <1>3. Interrupted(c) = {flash, Done(c)}
    BY <1>1 DEF Interrupted
  <1>4. QED
    BY <1>1, <1>2, <1>3

LEMMA EraseIs ==
  ASSUME NEW c, NEW p, c = Erase(p)
  PROVE  LET g == [flash EXCEPT ![p] = [s \in Slots |-> Erased]]
         IN  c.op = "erase" /\ c.at = <<p, 0>> /\ Done(c) = g /\ Interrupted(c) = {flash, g} \cup HalfErased(p)
PROOF
  <1>1. c.op = "erase" /\ c.at = <<p, 0>>
    BY DEF Erase
  <1>2. Done(c) = [flash EXCEPT ![p] = [s \in Slots |-> Erased]]
    BY <1>1 DEF Done
  <1>3. Interrupted(c) = {flash, Done(c)} \cup HalfErased(p)
    BY <1>1 DEF Interrupted
  <1>4. QED
    BY <1>1, <1>2, <1>3

(* A save may leave the old content, the new one, or pages that are refused.  *)
Allows(d)  == \/ d \in {durable, Refused}
              \/ durable # Refused /\ d \in Values /\ (durable # None => d >= durable)
Outcome(g) == g \in Flash /\ Sound(g, resets) /\ Allows(Recovered(g))

LEMMA GoodOutcome ==
  ASSUME NEW g \in Flash, NEW lat, NEW seq, NEW pend, NEW value, resets \in 0 .. MaxResets,
         Good(g, lat, seq, pend, value, resets), Allows(value)
  PROVE  Outcome(g) /\ Recovered(g) = value
  BY RecoveredGood DEF Outcome

LEMMA RefusedOutcome ==
  ASSUME NEW g \in Flash, Refuses(g)
  PROVE  Outcome(g)
  BY RecoveredRefused DEF Outcome, Allows

LEMMA CommitSame ==
  ASSUME flash \in Flash, NEW p \in Pages, NEW t \in Slots, BodyValid(flash[p][t])
  PROVE  LET g == With(flash, p, t, [flash[p][t] EXCEPT !.committed = TRUE])
         IN  /\ SamePages(flash, g)
             /\ \A q \in Pages, u \in Slots : q # p \/ u # t => g[q][u] = flash[q][u]
             /\ BodyValid(g[p][t]) /\ SameBody(g[p][t], flash[p][t])
PROOF
  <1> DEFINE r == [flash[p][t] EXCEPT !.committed = TRUE]
             g == With(flash, p, t, r)
  <1>1. flash[p][t] \in Record
    BY DEF Flash, BodyValid
  <1>2. /\ r \in Record /\ SameBody(r, flash[p][t])
    BY <1>1 DEF Record, SameBody
  <1> HIDE DEF r
  <1>3. /\ g \in Flash /\ BodyValid(r)
        /\ \A q \in Pages, u \in Slots : g[q][u] = IF q = p /\ u = t THEN r ELSE flash[q][u]
    BY <1>2, WithIs, RecordsAreValid
  <1> HIDE DEF g
  <1>4. QED
    BY <1>2, <1>3 DEF SamePages, g, r

(* The contents while nothing is written, or once the new one is. *)
Base == /\ resets \in 0 .. MaxResets /\ flash \in Flash /\ durable = Recovered(flash)
        /\ request \in Values /\ (saved # None => request >= saved)

LEMMA HereOutcome ==
  ASSUME Base, Here
  PROVE  /\ durable = saved /\ saved \in Values \cup {None} /\ durable # Refused
         /\ Outcome(flash) /\ Allows(saved) /\ Allows(request) /\ Struct(flash)
PROOF
  <1>1. durable = saved /\ saved \in Values \cup {None} /\ Struct(flash)
    BY RecoveredGood, GoodValue DEF Base, Here
  <1>2. saved # Refused
    BY <1>1, NotRecords
  <1>3. Allows(saved) /\ Allows(request)
    BY <1>1, <1>2 DEF Allows, Base
  <1>4. QED
    BY <1>1, <1>2, <1>3, GoodOutcome DEF Base, Here

LEMMA PendingIs ==
  ASSUME NEW f, NEW lat, NEW seq, NEW pend, NEW value, NEW c, Good(f, lat, seq, pend, value, c)
  PROVE  /\ pend = None => Quiet(f, lat, seq, value, c)
         /\ \A p \in Pages : pend = <<p, Intent>> => lat = pend /\ Pending(f, p, seq, value, c)
         /\ pend # None => \E p \in Pages : pend = <<p, Intent>>
PROOF
  <1>1. \A p \in Pages : <<p, Intent>> # None
    BY NotRecords, PagesAre DEF Offsets
  <1>2. \A p, q : <<p, Intent>> = <<q, Intent>> => p = q
    OBVIOUS
  <1>3. QED
    BY <1>1, <1>2 DEF Good

LEMMA AppendingStep ==
  ASSUME Base, NEW p \in Pages, NEW t \in 0 .. DataSlots - 1, Appending(p, t)
  PROVE  /\ plan # <<>> /\ pending = None
         /\ Head(plan).op = "body" => flash[Head(plan).at[1]][Head(plan).at[2]] = Erased
         /\ \A g \in Interrupted(Head(plan)) : Outcome(g)
         /\ Perform => Saving'
PROOF
  <1> DEFINE o == <<p, t>>
             n == Succ(sequence, 1)
             steps == AppendSteps(p, t, n, request)
  <1>1. t \in Slots /\ pending = None /\ steps = AppendSteps(p, t, n, request)
    BY PagesAre DEF Appending
  <1>2. /\ steps # <<>> /\ Tail(steps) # <<>> /\ Tail(Tail(steps)) # <<>> /\ Tail(Tail(Tail(steps))) = <<>>
        /\ Head(steps) = Body(o, Data(n, request)) /\ Head(Tail(steps)) = Commit(o)
        /\ Head(Tail(Tail(steps))) = Remember(o, n, None, request)
    BY DEF AppendSteps
  <1> HIDE DEF steps
  <1>3. CASE Here /\ FirstFreeAt(p, t) /\ plan = steps
    <2> DEFINE r == Data(n, request)
               g == With(flash, p, t, r)
    <2>1. /\ Head(plan).op = "body" /\ Head(plan).at = o /\ Done(Head(plan)) = g
          /\ Interrupted(Head(plan)) = {flash, g, With(flash, p, t, Torn)}
      <3>1. Head(plan) = Body(<<p, t>>, r)
        BY <1>2, <1>3
      <3>2. QED
        BY <3>1, BodyIs
    <2>2. Quiet(flash, latest, sequence, saved, resets) /\ p = PageOf(latest) /\ flash[p][t] = Erased
          /\ \A u \in 0 .. t - 1 : flash[p][u] # Erased
      BY <1>1, <1>3, PendingIs DEF Here, FirstFreeAt, Page, PageOf
    <2>3. Quiet(g, o, n, request, resets)
      BY <2>2, DataWritten DEF Base
    <2>4. Good(g, o, n, None, request, resets)
      BY <2>3 DEF Good
    <2>5. g \in Flash
      BY <2>3 DEF Quiet, Struct, Typed
    <2>6. Outcome(flash) /\ Outcome(g)
      BY <1>3, <2>4, <2>5, HereOutcome, GoodOutcome DEF Base
    <2>7. Outcome(With(flash, p, t, Torn))
      <3>1. Refuses(With(flash, p, t, Torn))
        BY <1>1, <2>2, BodyTorn DEF Base
      <3>2. With(flash, p, t, Torn) \in Flash
        BY <1>1, WithIs DEF Base
      <3>3. QED
        BY <3>1, <3>2, RefusedOutcome
    <2>8. Perform => Saving'
      <3>1. SUFFICES ASSUME Perform
                     PROVE  Saving'
        OBVIOUS
      <3>2. /\ flash' = g /\ plan' = Tail(steps) /\ request' = request /\ resets' = resets
            /\ latest' = latest /\ sequence' = sequence /\ pending' = pending /\ saved' = saved
        BY <1>3, <2>1, <3>1 DEF Perform, Becomes, mirror
      <3>3. Appending(p, t)'
        BY <1>1, <2>4, <3>2 DEF Appending, steps
      <3>4. QED
        BY <3>2, <3>3 DEF Saving, Base
    <2>9. \A h \in Interrupted(Head(plan)) : Outcome(h)
      BY <2>1, <2>6, <2>7
    <2>10. Head(plan).at[1] = p /\ Head(plan).at[2] = t
      BY <2>1
    <2>11. QED
      BY <1>1, <1>2, <1>3, <2>2, <2>8, <2>9, <2>10
  <1>4. ASSUME Good(flash, o, n, None, request, resets), plan \in {Tail(steps), Tail(Tail(steps))}
        PROVE  /\ \A g \in {flash} : Outcome(g) /\ Allows(request)
               /\ BodyValid(flash[p][t])
    <2>1. durable = request /\ request # Refused
      BY <1>4, RecoveredGood, NotRecords DEF Base
    <2>2. Allows(request)
      BY <2>1 DEF Allows
    <2>3. Quiet(flash, o, n, request, resets)
      BY <1>4, PendingIs
    <2>4. BodyValid(flash[p][t])
      <3>1. o # None
        BY <1>1, NotRecords DEF Offsets
      <3>2. QED
        BY <2>3, <3>1 DEF Quiet
    <2>5. QED
      BY <1>4, <2>2, <2>4, GoodOutcome DEF Base
  <1>5. CASE Good(flash, o, n, None, request, resets) /\ plan = Tail(steps)
    <2> DEFINE g == With(flash, p, t, [flash[p][t] EXCEPT !.committed = TRUE])
    <2>1. Head(plan).op = "commit" /\ Done(Head(plan)) = g /\ Interrupted(Head(plan)) = {flash, g}
      <3>1. Head(plan) = Commit(<<p, t>>)
        BY <1>2, <1>5
      <3>2. QED
        BY <3>1, CommitIs
    <2>2. SamePages(flash, g)
      BY <1>1, <1>4, <1>5, CommitSame DEF Base
    <2>3. Good(g, o, n, None, request, resets) /\ g \in Flash
      BY <1>5, <2>2, SameGood DEF SamePages
    <2>4. Outcome(g) /\ Outcome(flash)
      BY <1>4, <1>5, <2>3, GoodOutcome DEF Base
    <2>5. Perform => Saving'
      <3>1. SUFFICES ASSUME Perform
                     PROVE  Saving'
        OBVIOUS
      <3>2. /\ flash' = g /\ plan' = Tail(Tail(steps)) /\ request' = request /\ resets' = resets
            /\ latest' = latest /\ sequence' = sequence /\ pending' = pending /\ saved' = saved
        BY <1>5, <2>1, <3>1 DEF Perform, Becomes, mirror
      <3>3. Appending(p, t)'
        BY <1>1, <2>3, <3>2 DEF Appending, steps
      <3>4. QED
        BY <3>2, <3>3 DEF Saving, Base
    <2>6. QED
      BY <1>1, <1>2, <1>5, <2>1, <2>4, <2>5
  <1>6. CASE Good(flash, o, n, None, request, resets) /\ plan = Tail(Tail(steps))
    <2>1. /\ Head(plan).op = "remember" /\ Done(Head(plan)) = flash /\ Interrupted(Head(plan)) = {flash}
          /\ Head(plan).at = o /\ Head(plan).sequence = n /\ Head(plan).pending = None /\ Head(plan).saved = request
      <3>1. Head(plan) = Remember(o, n, None, request)
        BY <1>2, <1>6
      <3>2. QED
        BY <3>1, RememberIs
    <2>2. Perform => Saving'
      <3>1. SUFFICES ASSUME Perform
                     PROVE  Saving'
        OBVIOUS
      <3>2. /\ flash' = flash /\ plan' = <<>> /\ request' = request /\ resets' = resets
            /\ latest' = o /\ sequence' = n /\ pending' = None /\ saved' = request
        BY <1>2, <1>6, <2>1, <3>1 DEF Perform, Becomes
      <3>3. Here'
        BY <1>6, <3>2 DEF Here
      <3>4. request >= request
        BY DEF Base, Values
      <3>5. QED
        BY <3>2, <3>3, <3>4 DEF Saving, Base
    <2>3. QED
      BY <1>1, <1>2, <1>4, <1>6, <2>1, <2>2
  <1>7. QED
    BY <1>3, <1>5, <1>6 DEF Appending, steps
LEMMA AuthorisingStep ==
  ASSUME Base, NEW p \in Pages, Authorising(p)
  PROVE  /\ plan # <<>> /\ pending = None
         /\ Head(plan).op = "body" => flash[Head(plan).at[1]][Head(plan).at[2]] = Erased
         /\ \A g \in Interrupted(Head(plan)) : Outcome(g)
         /\ Perform => Saving'
PROOF
  <1> DEFINE o == <<p, Intent>>
             n == Succ(sequence, 1)
             steps == ReclaimSteps(p, n, saved)
  <1>1. pending = None /\ saved # None /\ Intent \in Slots
    BY PagesAre DEF Authorising
  <1>2. /\ steps # <<>> /\ Tail(steps) # <<>> /\ Tail(Tail(steps)) # <<>>
        /\ Tail(Tail(Tail(steps))) = ResumeSteps(p, n, saved)
        /\ Head(steps) = Body(o, Transition("intent", n, saved, 1 - p, n)) /\ Head(Tail(steps)) = Commit(o)
        /\ Head(Tail(Tail(steps))) = Remember(o, n, o, saved)
    BY DEF ReclaimSteps, ResumeSteps
  <1> HIDE DEF steps
  <1>3. CASE Here /\ Full(p) /\ plan = steps
    <2> DEFINE r == Transition("intent", n, saved, 1 - p, n)
               g == With(flash, p, Intent, r)
    <2>1. /\ Head(plan).op = "body" /\ Head(plan).at = o /\ Done(Head(plan)) = g
          /\ Interrupted(Head(plan)) = {flash, g, With(flash, p, Intent, Torn)}
      <3>1. Head(plan) = Body(o, r)
        BY <1>2, <1>3
      <3>2. QED
        BY <3>1, BodyIs
    <2>2. /\ Quiet(flash, latest, sequence, saved, resets) /\ p = PageOf(latest)
          /\ flash[p][Intent] = Erased /\ flash[p][Activate] = Erased
      BY <1>1, <1>3, PendingIs DEF Here, Full, Page, PageOf
    <2>3. durable = saved /\ saved \in Values /\ Outcome(flash) /\ Allows(saved)
      BY <1>1, <1>3, HereOutcome
    <2>4. Pending(g, p, n, saved, resets)
      BY <2>2, <2>3, IntentWritten DEF Base
    <2>5. Good(g, o, n, o, saved, resets)
      BY <2>4 DEF Good
    <2>6. g \in Flash
      BY <2>4 DEF Pending, Struct, Typed
    <2>7. Outcome(g)
      BY <2>3, <2>5, <2>6, GoodOutcome DEF Base
    <2>8. Outcome(With(flash, p, Intent, Torn))
      <3>1. Refuses(With(flash, p, Intent, Torn))
        BY <1>1, <2>2, BodyTorn DEF Base
      <3>2. With(flash, p, Intent, Torn) \in Flash
        BY <1>1, WithIs DEF Base
      <3>3. QED
        BY <3>1, <3>2, RefusedOutcome
    <2>9. Perform => Saving'
      <3>1. SUFFICES ASSUME Perform
                     PROVE  Saving'
        OBVIOUS
      <3>2. /\ flash' = g /\ plan' = Tail(steps) /\ request' = request /\ resets' = resets
            /\ latest' = latest /\ sequence' = sequence /\ pending' = pending /\ saved' = saved
        BY <1>3, <2>1, <3>1 DEF Perform, Becomes, mirror
      <3>3. Authorising(p)'
        BY <1>1, <2>5, <3>2 DEF Authorising, steps
      <3>4. QED
        BY <3>2, <3>3 DEF Saving, Base
    <2>10. \A h \in Interrupted(Head(plan)) : Outcome(h)
      BY <2>1, <2>3, <2>7, <2>8
    <2>11. Head(plan).at[1] = p /\ Head(plan).at[2] = Intent
      BY <2>1
    <2>12. QED
      BY <1>1, <1>2, <1>3, <2>2, <2>9, <2>10, <2>11
  <1>4. ASSUME Good(flash, o, n, o, saved, resets)
        PROVE  Outcome(flash) /\ Allows(saved) /\ BodyValid(flash[p][Intent])
    <2>1. durable = saved
      BY <1>4, RecoveredGood DEF Base
    <2>2. Allows(saved)
      BY <2>1 DEF Allows
    <2>3. Pending(flash, p, n, saved, resets)
      BY <1>4, PendingIs
    <2>4. BodyValid(flash[p][Intent])
      BY <2>3 DEF Pending, Owner, Authority
    <2>5. QED
      BY <1>4, <2>2, <2>4, GoodOutcome DEF Base
  <1>5. CASE Good(flash, o, n, o, saved, resets) /\ plan = Tail(steps)
    <2> DEFINE g == With(flash, p, Intent, [flash[p][Intent] EXCEPT !.committed = TRUE])
    <2>1. Head(plan).op = "commit" /\ Done(Head(plan)) = g /\ Interrupted(Head(plan)) = {flash, g}
      <3>1. Head(plan) = Commit(o)
        BY <1>2, <1>5
      <3>2. QED
        BY <3>1, CommitIs
    <2>2. SamePages(flash, g)
      BY <1>1, <1>4, <1>5, CommitSame DEF Base
    <2>3. Good(g, o, n, o, saved, resets) /\ g \in Flash
      BY <1>5, <2>2, SameGood DEF SamePages
    <2>4. Outcome(g) /\ Outcome(flash)
      BY <1>4, <1>5, <2>3, GoodOutcome DEF Base
    <2>5. Perform => Saving'
      <3>1. SUFFICES ASSUME Perform
                     PROVE  Saving'
        OBVIOUS
      <3>2. /\ flash' = g /\ plan' = Tail(Tail(steps)) /\ request' = request /\ resets' = resets
            /\ latest' = latest /\ sequence' = sequence /\ pending' = pending /\ saved' = saved
        BY <1>5, <2>1, <3>1 DEF Perform, Becomes, mirror
      <3>3. Authorising(p)'
        BY <1>1, <2>3, <3>2 DEF Authorising, steps
      <3>4. QED
        BY <3>2, <3>3 DEF Saving, Base
    <2>6. QED
      BY <1>1, <1>2, <1>5, <2>1, <2>4, <2>5
  <1>6. CASE Good(flash, o, n, o, saved, resets) /\ plan = Tail(Tail(steps))
    <2>1. /\ Head(plan).op = "remember" /\ Done(Head(plan)) = flash /\ Interrupted(Head(plan)) = {flash}
          /\ Head(plan).at = o /\ Head(plan).sequence = n /\ Head(plan).pending = o /\ Head(plan).saved = saved
      <3>1. Head(plan) = Remember(o, n, o, saved)
        BY <1>2, <1>6
      <3>2. QED
        BY <3>1, RememberIs
    <2>2. Perform => Saving'
      <3>1. SUFFICES ASSUME Perform
                     PROVE  Saving'
        OBVIOUS
      <3>2. /\ flash' = flash /\ plan' = ResumeSteps(p, n, saved) /\ request' = request /\ resets' = resets
            /\ latest' = o /\ sequence' = n /\ pending' = o /\ saved' = saved
        BY <1>2, <1>6, <2>1, <3>1 DEF Perform, Becomes
      <3>3. Here'
        BY <1>6, <3>2 DEF Here
      <3>4. Resuming(p)'
        BY <3>2, <3>3 DEF Resuming
      <3>5. QED
        BY <3>2, <3>4 DEF Saving, Base
    <2>3. QED
      BY <1>1, <1>2, <1>4, <1>6, <2>1, <2>2
  <1>7. QED
    BY <1>3, <1>5, <1>6 DEF Authorising, steps

(* A reclamation that goes on, or is taken up after a restart.                *)
LEMMA ResumingStep ==
  ASSUME Base, NEW p \in Pages, Resuming(p)
  PROVE  /\ plan # <<>> /\ pending = <<p, Intent>>
         /\ Head(plan).op = "body" => flash[Head(plan).at[1]][Head(plan).at[2]] = Erased
         /\ \A g \in Interrupted(Head(plan)) :
              Outcome(g) /\ (Head(plan).at[1] # p => Recovered(g) = saved)
         /\ Perform => Saving'
PROOF
  <1> DEFINE q == 1 - p
             o == <<p, Intent>>
             n == Succ(sequence, 1)
             m == Succ(sequence, 2)
             steps == ResumeSteps(p, sequence, saved)
             two   == Tail(Tail(steps))
             four  == Tail(Tail(two))
             Goal  == /\ plan # <<>>
                      /\ Head(plan).op = "body" => flash[Head(plan).at[1]][Head(plan).at[2]] = Erased
                      /\ \A g \in Interrupted(Head(plan)) :
                           Outcome(g) /\ (Head(plan).at[1] # p => Recovered(g) = saved)
                      /\ Perform => Saving'
  <1>1. /\ pending = o /\ q \in Pages /\ 1 - q = p /\ p # q
        /\ Intent \in Slots /\ Activate \in Slots /\ 0 \in Slots /\ 0 # Intent
    BY PagesAre DEF Resuming
  <1>2. /\ steps # <<>> /\ Tail(steps) # <<>> /\ two # <<>> /\ Tail(two) # <<>> /\ four # <<>> /\ Tail(four) # <<>>
        /\ Tail(Tail(four)) = <<>>
        /\ Head(steps) = Erase(q)
        /\ Head(Tail(steps)) = Body(<<q, 0>>, Transition("snapshot", n, saved, q, sequence))
        /\ Head(two) = Commit(<<q, 0>>)
        /\ Head(Tail(two)) = Body(<<p, Activate>>, Transition("activate", m, saved, q, sequence))
        /\ Head(four) = Commit(<<p, Activate>>)
        /\ Head(Tail(four)) = Remember(<<q, 0>>, m, None, saved)
    BY DEF ResumeSteps
  <1>3. ASSUME Here
        PROVE  /\ Pending(flash, p, sequence, saved, resets) /\ latest = o
               /\ durable = saved /\ Outcome(flash) /\ Allows(saved) /\ Recovered(flash) = saved
    BY <1>1, <1>3, PendingIs, HereOutcome DEF Here, Base
  <1>4. ASSUME NEW g, Here, Pending(g, p, sequence, saved, resets)
        PROVE  /\ g \in Flash /\ Good(g, latest, sequence, pending, saved, resets)
               /\ Outcome(g) /\ Recovered(g) = saved
    <2>1. Good(g, latest, sequence, pending, saved, resets)
      BY <1>1, <1>3, <1>4 DEF Good
    <2>2. g \in Flash
      BY <1>4 DEF Pending, Struct, Typed
    <2>3. QED
      BY <1>3, <1>4, <2>1, <2>2, GoodOutcome DEF Base
  <1>5. ASSUME NEW g, Perform, Done(Head(plan)) = g, Head(plan).op # "remember"
        PROVE  /\ flash' = g /\ plan' = Tail(plan) /\ request' = request /\ resets' = resets
               /\ latest' = latest /\ sequence' = sequence /\ pending' = pending /\ saved' = saved
               /\ request' \in Values /\ (saved' # None => request' >= saved')
    BY <1>5 DEF Perform, Becomes, mirror, Base
  <1> HIDE DEF steps
  <1>6. CASE Here /\ plan = steps
    <2> DEFINE e == [flash EXCEPT ![q] = [s \in Slots |-> Erased]]
    <2>1. /\ Head(plan).op = "erase" /\ Done(Head(plan)) = e
          /\ Interrupted(Head(plan)) = {flash, e} \cup HalfErased(q)
      <3>1. Head(plan) = Erase(q)
        BY <1>2, <1>6
      <3>2. QED
        BY <3>1, EraseIs
    <2>2. ASSUME NEW g \in HalfErased(q) \cup {e}
          PROVE  /\ Pending(g, p, sequence, saved, resets) /\ (g = e => \A t \in Slots : g[q][t] = Erased)
      <3>1. /\ Lost(flash, g) /\ \A x \in Pages, t \in Slots : x # q => g[x][t] = flash[x][t]
            /\ g = e => \A t \in Slots : g[q][t] = Erased
        BY <1>1, EraseLoses DEF Base
      <3>2. QED
        BY <1>1, <1>3, <1>6, <3>1, TargetLost
    <2>3. \A g \in Interrupted(Head(plan)) : Outcome(g) /\ Recovered(g) = saved
      BY <1>3, <1>4, <1>6, <2>1, <2>2
    <2>4. Perform => Saving'
      <3>1. SUFFICES ASSUME Perform
                     PROVE  Saving'
        OBVIOUS
      <3>2. /\ flash' = e /\ plan' = Tail(steps) /\ request' = request /\ resets' = resets
            /\ latest' = latest /\ sequence' = sequence /\ pending' = pending /\ saved' = saved
            /\ request' \in Values /\ (saved' # None => request' >= saved')
        BY <1>5, <1>6, <2>1, <3>1
      <3>3. Here' /\ Bare(q)'
        BY <1>4, <1>6, <2>2, <3>2 DEF Here, Bare
      <3>4. Resuming(p)'
        BY <1>1, <3>2, <3>3 DEF Resuming, steps
      <3>5. QED
        BY <3>2, <3>4 DEF Saving
    <2>5. Goal
      BY <1>2, <1>6, <2>1, <2>3, <2>4
    <2>6. QED
      BY <1>1, <2>5
  <1>7. CASE Here /\ Bare(q) /\ plan = Tail(steps)
    <2> DEFINE r == Transition("snapshot", n, saved, q, sequence)
               g == With(flash, q, 0, r)
               h == With(flash, q, 0, Torn)
    <2>1. /\ Head(plan).op = "body" /\ Head(plan).at = <<q, 0>> /\ Done(Head(plan)) = g
          /\ Interrupted(Head(plan)) = {flash, g, h}
      <3>1. Head(plan) = Body(<<q, 0>>, r)
        BY <1>2, <1>7
      <3>2. QED
        BY <3>1, BodyIs
    <2>2. /\ Pending(g, p, sequence, saved, resets) /\ g[q][0] = r
          /\ Matches(r, "snapshot", g[p][Intent], n) /\ \A t \in Slots \ {0} : g[q][t] = Erased
      BY <1>3, <1>7, SnapshotWritten DEF Bare, Base
    <2>3. Pending(h, p, sequence, saved, resets)
      <3>1. /\ Typed(flash) /\ Lost(flash, h)
            /\ \A x \in Pages, u \in Slots : x # q \/ u # 0 => h[x][u] = flash[x][u]
        BY <1>1, <1>3, <1>7, Tearing DEF Pending, Struct
      <3>2. QED
        BY <1>1, <1>3, <1>7, <3>1, TargetLost
    <2> HIDE DEF g, h, r
    <2>4. \A f \in Interrupted(Head(plan)) : Outcome(f) /\ Recovered(f) = saved
      BY <1>3, <1>4, <1>7, <2>1, <2>2, <2>3
    <2>5. Perform => Saving'
      <3>1. SUFFICES ASSUME Perform
                     PROVE  Saving'
        OBVIOUS
      <3>2. /\ flash' = g /\ plan' = two /\ request' = request /\ resets' = resets
            /\ latest' = latest /\ sequence' = sequence /\ pending' = pending /\ saved' = saved
            /\ request' \in Values /\ (saved' # None => request' >= saved')
        BY <1>5, <1>7, <2>1, <3>1
      <3>3. Here' /\ Copied(p)'
        BY <1>4, <1>7, <2>2, <3>2 DEF Here, Copied
      <3>4. Resuming(p)'
        BY <1>1, <3>2, <3>3 DEF Resuming, steps
      <3>5. QED
        BY <3>2, <3>4 DEF Saving
    <2>6. Head(plan).at[1] = q /\ Head(plan).at[2] = 0 /\ flash[q][0] = Erased
      <3>1. flash[q][0] = Erased
        BY <1>1, <1>7 DEF Bare
      <3>2. QED
        BY <2>1, <3>1
    <2>7. Goal
      BY <1>2, <1>7, <2>1, <2>4, <2>5, <2>6
    <2>8. QED
      BY <1>1, <2>7
  <1>8. CASE Here /\ Copied(p) /\ plan = two
    <2> DEFINE g == With(flash, q, 0, [flash[q][0] EXCEPT !.committed = TRUE])
    <2>1. Head(plan).op = "commit" /\ Done(Head(plan)) = g /\ Interrupted(Head(plan)) = {flash, g}
      <3>1. Head(plan) = Commit(<<q, 0>>)
        BY <1>2, <1>8
      <3>2. QED
        BY <3>1, CommitIs
    <2>2. /\ SamePages(flash, g)
          /\ \A x \in Pages, u \in Slots : x # q \/ u # 0 => g[x][u] = flash[x][u]
          /\ BodyValid(g[q][0]) /\ SameBody(g[q][0], flash[q][0])
      <3>1. BodyValid(flash[q][0])
        BY <1>8 DEF Copied, Matches
      <3>2. QED
        BY <1>1, <3>1, CommitSame DEF Base
    <2> HIDE DEF g
    <2>3. Good(g, latest, sequence, pending, saved, resets) /\ g \in Flash
      BY <1>8, <2>2, SameGood DEF SamePages, Here
    <2>4. Pending(g, p, sequence, saved, resets)
      BY <1>1, <2>3, PendingIs
    <2>5. \A f \in Interrupted(Head(plan)) : Outcome(f) /\ Recovered(f) = saved
      BY <1>3, <1>4, <1>8, <2>1, <2>4
    <2>6. Matches(g[q][0], "snapshot", g[p][Intent], n) /\ \A t \in Slots \ {0} : g[q][t] = Erased
      BY <1>1, <1>8, <2>2 DEF Copied, Matches, SameBody
    <2>7. Perform => Saving'
      <3>1. SUFFICES ASSUME Perform
                     PROVE  Saving'
        OBVIOUS
      <3>2. /\ flash' = g /\ plan' = Tail(two) /\ request' = request /\ resets' = resets
            /\ latest' = latest /\ sequence' = sequence /\ pending' = pending /\ saved' = saved
            /\ request' \in Values /\ (saved' # None => request' >= saved')
        BY <1>5, <1>8, <2>1, <3>1
      <3>3. Here' /\ Copied(p)'
        BY <2>3, <2>6, <3>2 DEF Here, Copied
      <3>4. Resuming(p)'
        BY <1>1, <3>2, <3>3 DEF Resuming, steps
      <3>5. QED
        BY <3>2, <3>4 DEF Saving
    <2>8. Goal
      BY <1>2, <1>8, <2>1, <2>5, <2>7
    <2>9. QED
      BY <1>1, <2>8
  <1>9. CASE Here /\ Copied(p) /\ plan = Tail(two)
    <2> DEFINE r == Transition("activate", m, saved, q, sequence)
               g == With(flash, p, Activate, r)
               h == With(flash, p, Activate, Torn)
    <2>1. /\ Head(plan).op = "body" /\ Head(plan).at = <<p, Activate>> /\ Done(Head(plan)) = g
          /\ Interrupted(Head(plan)) = {flash, g, h}
      <3>1. Head(plan) = Body(<<p, Activate>>, r)
        BY <1>2, <1>9
      <3>2. QED
        BY <3>1, BodyIs
    <2>2. Pending(flash, p, sequence, saved, resets)
      BY <1>3, <1>9
    <2>3. Quiet(g, <<q, 0>>, m, saved, resets)
      BY <1>9, <2>2, ActivationWritten DEF Copied, Base
    <2>4. Good(g, <<q, 0>>, m, None, saved, resets) /\ g \in Flash
      BY <2>3 DEF Good, Quiet, Struct, Typed
    <2>5. BodyValid(g[p][Activate])
      <3>1. flash \in Flash /\ sequence \in Seqs /\ saved \in Values
        <4>1. Typed(flash) /\ BodyValid(flash[p][Intent]) /\ sequence = flash[p][Intent].seq /\ saved = flash[p][Intent].value
          BY <2>2 DEF Pending, Struct, Owner, Authority
        <4>2. QED
          BY <1>1, <4>1, RecordIs DEF Typed
      <3>2. m \in Seqs
        BY <3>1, SuccNewer
      <3>3. r \in Record
        BY <1>1, <3>1, <3>2, NewRecords
      <3> HIDE DEF r
      <3>4. g[p][Activate] = r
        BY <1>1, <3>1, <3>3, WithIs
      <3>5. QED
        BY <3>3, <3>4, RecordsAreValid
    <2>6. Outcome(h)
      <3>1. Refuses(h)
        BY <2>2, ActivationTorn DEF Base
      <3>2. h \in Flash
        BY <1>1, WithIs DEF Base
      <3>3. QED
        BY <3>1, <3>2, RefusedOutcome
    <2> HIDE DEF g, h, r
    <2>7. Outcome(g) /\ Outcome(flash)
      BY <1>3, <1>9, <2>4, GoodOutcome DEF Base
    <2>8. Perform => Saving'
      <3>1. SUFFICES ASSUME Perform
                     PROVE  Saving'
        OBVIOUS
      <3>2. /\ flash' = g /\ plan' = four /\ request' = request /\ resets' = resets
            /\ latest' = latest /\ sequence' = sequence /\ pending' = pending /\ saved' = saved
            /\ request' \in Values /\ (saved' # None => request' >= saved')
        BY <1>5, <1>9, <2>1, <3>1
      <3>3. Resuming(p)'
        BY <1>1, <2>4, <2>5, <3>2 DEF Resuming, steps
      <3>4. QED
        BY <3>2, <3>3 DEF Saving
    <2>9. Head(plan).at[1] = p /\ Head(plan).at[2] = Activate /\ flash[p][Activate] = Erased
      BY <2>1, <2>2 DEF Pending
    <2>10. \A f \in Interrupted(Head(plan)) : Outcome(f)
      BY <2>1, <2>6, <2>7
    <2>11. Goal
      BY <1>2, <1>9, <2>8, <2>9, <2>10
    <2>12. QED
      BY <1>1, <2>11
  <1>10. ASSUME Good(flash, <<q, 0>>, m, None, saved, resets)
         PROVE  Outcome(flash) /\ Allows(saved) /\ Recovered(flash) = saved
    <2>1. durable = saved /\ Recovered(flash) = saved
      BY <1>10, RecoveredGood DEF Base
    <2>2. Allows(saved)
      BY <2>1 DEF Allows
    <2>3. QED
      BY <1>10, <2>1, <2>2, GoodOutcome DEF Base
  <1>11. CASE Good(flash, <<q, 0>>, m, None, saved, resets) /\ BodyValid(flash[p][Activate]) /\ plan = four
    <2> DEFINE g == With(flash, p, Activate, [flash[p][Activate] EXCEPT !.committed = TRUE])
    <2>1. /\ Head(plan).op = "commit" /\ Head(plan).at = <<p, Activate>> /\ Done(Head(plan)) = g
          /\ Interrupted(Head(plan)) = {flash, g}
      <3>1. Head(plan) = Commit(<<p, Activate>>)
        BY <1>2, <1>11
      <3>2. QED
        BY <3>1, CommitIs
    <2>2. SamePages(flash, g) /\ BodyValid(g[p][Activate])
      <3>1. BodyValid(flash[p][Activate])
        BY <1>11
      <3>2. QED
        BY <1>1, <3>1, CommitSame DEF Base
    <2> HIDE DEF g
    <2>3. Good(g, <<q, 0>>, m, None, saved, resets) /\ g \in Flash
      <3>1. g \in Flash
        BY <2>2 DEF SamePages
      <3>2. QED
        BY <1>11, <2>2, <3>1, SameGood
    <2>4. Outcome(g) /\ Outcome(flash)
      BY <1>10, <1>11, <2>3, GoodOutcome DEF Base
    <2>5. Perform => Saving'
      <3>1. SUFFICES ASSUME Perform
                     PROVE  Saving'
        OBVIOUS
      <3>2. /\ flash' = g /\ plan' = Tail(four) /\ request' = request /\ resets' = resets
            /\ latest' = latest /\ sequence' = sequence /\ pending' = pending /\ saved' = saved
            /\ request' \in Values /\ (saved' # None => request' >= saved')
        BY <1>5, <1>11, <2>1, <3>1
      <3>3. Resuming(p)'
        BY <1>1, <2>2, <2>3, <3>2 DEF Resuming, steps
      <3>4. QED
        BY <3>2, <3>3 DEF Saving
    <2>6. Head(plan).at[1] = p
      BY <2>1
    <2>7. \A f \in Interrupted(Head(plan)) : Outcome(f)
      BY <2>1, <2>4
    <2>8. Goal
      BY <1>2, <1>11, <2>1, <2>5, <2>6, <2>7
    <2>9. QED
      BY <1>1, <2>8
  <1>12. CASE Good(flash, <<q, 0>>, m, None, saved, resets) /\ plan = Tail(four)
    <2>1. /\ Head(plan).op = "remember" /\ Done(Head(plan)) = flash /\ Interrupted(Head(plan)) = {flash}
          /\ Head(plan).at = <<q, 0>> /\ Head(plan).sequence = m /\ Head(plan).pending = None
          /\ Head(plan).saved = saved
      <3>1. Head(plan) = Remember(<<q, 0>>, m, None, saved)
        BY <1>2, <1>12
      <3>2. QED
        BY <3>1, RememberIs
    <2>2. Perform => Saving'
      <3>1. SUFFICES ASSUME Perform
                     PROVE  Saving'
        OBVIOUS
      <3>2. /\ flash' = flash /\ plan' = <<>> /\ request' = request /\ resets' = resets
            /\ latest' = <<q, 0>> /\ sequence' = m /\ pending' = None /\ saved' = saved
        BY <1>2, <1>12, <2>1, <3>1 DEF Perform, Becomes
      <3>3. Here'
        BY <1>12, <3>2 DEF Here
      <3>4. QED
        BY <3>2, <3>3 DEF Saving, Base
    <2>3. \A f \in Interrupted(Head(plan)) : Outcome(f) /\ Recovered(f) = saved
      BY <1>10, <1>12, <2>1
    <2>4. Goal
      BY <1>2, <1>12, <2>1, <2>2, <2>3
    <2>5. QED
      BY <1>1, <2>4
  <1>13. QED
    <2>1. \/ Here /\ plan = steps
          \/ Here /\ Bare(q) /\ plan = Tail(steps)
          \/ Here /\ Copied(p) /\ plan \in {two, Tail(two)}
          \/ /\ Good(flash, <<q, 0>>, m, None, saved, resets)
             /\ BodyValid(flash[p][Activate]) /\ plan \in {four, Tail(four)}
      BY DEF Resuming, steps
    <2>2. QED
      BY <1>6, <1>7, <1>8, <1>9, <1>11, <1>12, <2>1
-----------------------------------------------------------------------------
(* The journals a node may start with. *)
LEMMA SpanZero ==
  /\ 0 \in 0 .. MaxResets /\ Span(0) = 2 * DataSlots + 6 /\ Span(0) < Half /\ Half \in Nat /\ 2 * Half <= SeqSpan
  /\ SeqSpan \in Nat /\ DataSlots \in Nat /\ DataSlots >= 2 /\ 2 * DataSlots + 6 < Half
PROOF
  <1>1. 0 \in 0 .. MaxResets
    BY Constants
  <1>2. Span(0) < Half /\ Half \in Nat /\ 2 * Half <= SeqSpan /\ SeqSpan \in Nat /\ DataSlots \in Nat /\ DataSlots >= 2
    BY <1>1, Constants
  <1>3. Span(0) = 2 * DataSlots + 6
    BY <1>2 DEF Span
  <1>4. QED
    BY <1>1, <1>2, <1>3

LEMMA LegacyGood ==
  ASSUME NEW k \in 0 .. 2 * DataSlots + 4
  PROVE  \E lat, seq, value : Quiet(Legacy(k), lat, seq, value, 0)
PROOF
  <1> DEFINE f == Legacy(k)
             N(p, s) == IF p = 0 THEN s + 1 ELSE s + DataSlots + 3
             R(n) == [Data(n, IF n <= MaxValue THEN n - 1 ELSE MaxValue - 1) EXCEPT !.committed = TRUE]
  <1>1. /\ SeqSpan \in Nat /\ DataSlots \in Nat /\ DataSlots >= 2 /\ 2 * DataSlots + 6 < Half /\ Half \in Nat
        /\ 2 * Half <= SeqSpan /\ Span(0) = 2 * DataSlots + 6 /\ MaxValue \in Nat /\ MaxValue > 0
    BY SpanZero, JournalAssumption
  <1>2. k \in Nat /\ k <= 2 * DataSlots + 4
    BY <1>1
  <1>3. \A p \in Pages, s \in Slots : /\ p * (DataSlots + 2) + s + 1 = N(p, s) /\ N(p, s) \in Nat /\ N(p, s) > 0
                                      /\ s \in Nat /\ s <= DataSlots + 1
    <2>1. \A s \in Slots : s \in Nat /\ s <= DataSlots + 1
      BY <1>1 DEF Slots
    <2>2. \A s \in Slots : 0 * (DataSlots + 2) + s + 1 = N(0, s) /\ 1 * (DataSlots + 2) + s + 1 = N(1, s)
      BY <1>1, <2>1
    <2>3. QED
      BY <1>1, <2>1, <2>2 DEF Pages
  <1>4. ASSUME NEW n \in 1 .. 2 * DataSlots + 4
        PROVE  /\ R(n) \in Record /\ R(n).magic = "data" /\ R(n).seq = n
    <2> DEFINE v == IF n <= MaxValue THEN n - 1 ELSE MaxValue - 1
    <2>1. n \in Seqs /\ v \in Values
      BY <1>1 DEF Seqs, Values
    <2> HIDE DEF v
    <2>2. Data(n, v) \in Record /\ Data(n, v).magic = "data" /\ Data(n, v).seq = n
      <3>1. 0 \in Pages
        BY DEF Pages
      <3>2. QED
        BY <2>1, <3>1, NewRecords
    <2>3. [Data(n, v) EXCEPT !.committed = TRUE] \in Record
      BY <2>2 DEF Record
    <2>4. /\ [Data(n, v) EXCEPT !.committed = TRUE].magic = "data"
          /\ [Data(n, v) EXCEPT !.committed = TRUE].seq = n
      BY <2>1 DEF Data
    <2>5. QED
      BY <2>3, <2>4 DEF v
  <1>5. \A p \in Pages, s \in Slots : f[p][s] = IF N(p, s) <= k THEN R(N(p, s)) ELSE Erased
    BY <1>3 DEF Legacy
  <1> HIDE DEF R
  <1>6. ASSUME NEW p \in Pages, NEW s \in Slots
        PROVE  /\ N(p, s) <= k => /\ f[p][s] \in Record /\ BodyValid(f[p][s]) /\ f[p][s].magic = "data"
                                  /\ f[p][s].seq = N(p, s) /\ f[p][s] # Erased /\ f[p][s].seq \in Seqs
               /\ N(p, s) > k => f[p][s] = Erased /\ ~BodyValid(f[p][s])
    <2>1. CASE N(p, s) <= k
      <3>1. N(p, s) \in 1 .. 2 * DataSlots + 4
        BY <1>1, <1>2, <1>3, <2>1
      <3> HIDE DEF N
      <3>2. f[p][s] = R(N(p, s))
        BY <1>5, <2>1
      <3>3. f[p][s] \in Record /\ f[p][s].magic = "data" /\ f[p][s].seq = N(p, s)
        BY <1>4, <3>1, <3>2
      <3>4. N(p, s) \in Seqs
        BY <1>1, <3>1 DEF Seqs
      <3>5. ~ (N(p, s) > k)
        BY <1>2, <1>3, <2>1
      <3>6. QED
        BY <3>3, <3>4, <3>5, RecordsAreValid
    <2>2. CASE N(p, s) > k
      <3>1. ~ (N(p, s) <= k)
        BY <1>2, <1>3, <2>2
      <3> HIDE DEF N
      <3>2. QED
        BY <1>5, <3>1, RecordsAreValid
    <2>3. QED
      BY <1>2, <1>3, <2>1, <2>2
  <1>7. \A p, q \in Pages, s, u \in Slots : N(p, s) = N(q, u) => p = q /\ s = u
    BY <1>1, <1>3 DEF Pages
  <1>8. \A p \in Pages, s \in Slots : N(p, s) <= k \/ N(p, s) > k
    BY <1>2, <1>3
  <1>9. f = [p \in Pages |-> [s \in Slots |-> f[p][s]]]
    BY DEF Legacy
  <1> HIDE DEF f, N
  <1>10. Typed(f)
    <2>1. f \in Flash
      BY <1>6, <1>8, <1>9 DEF Flash
    <2>2. QED
      BY <1>6, <1>8, <2>1 DEF Typed, Fits
  <1>11. Distinct(f)
    BY <1>6, <1>7, <1>8 DEF Distinct
  <1>12. Open(f) /\ \A p \in Pages : ~Authority(f, p)
    <2>1. Open(f)
      BY <1>6, <1>8 DEF Open, Clean, Plain
    <2>2. QED
      BY <2>1, CleanNoAuthority DEF Open
  <1>13. Struct(f)
    BY <1>10, <1>11, <1>12 DEF Struct, Below, Above
  <1>14. CASE k = 0
    <2>1. Blank(f)
      <3>1. \A p \in Pages, s \in Slots : N(p, s) > k
        BY <1>3, <1>14
      <3>2. QED
        BY <1>6, <3>1 DEF Blank
    <2>2. QED
      BY <1>13, <2>1 DEF Quiet, f
  <1>15. CASE k > 0
    <2> DEFINE P == IF k <= DataSlots + 2 THEN 0 ELSE 1
               T == IF k <= DataSlots + 2 THEN k - 1 ELSE k - DataSlots - 3
               m == IF T < DataSlots THEN DataSlots - T - 1 ELSE 0
    <2>1. P \in Pages /\ T \in Slots /\ N(P, T) = k /\ T \in Nat /\ T <= DataSlots + 1
      BY <1>1, <1>2, <1>15 DEF Pages, Slots, N
    <2>2. BodyValid(f[P][T]) /\ f[P][T].seq = k /\ k \in Seqs
      <3>1. N(P, T) <= k
        BY <1>2, <2>1
      <3> HIDE DEF P, T
      <3>2. QED
        BY <1>6, <2>1, <3>1
    <2>3. m \in 0 .. DataSlots
      BY <1>1, <2>1
    <2>4. Room(f, P, m)
      <3>1. SUFFICES ASSUME NEW t \in 0 .. DataSlots - 1, t < DataSlots - m
                     PROVE  f[P][t] # Erased
        BY DEF Room
      <3>2. t \in Slots /\ t \in Nat /\ t <= T
        BY <1>1, <2>1, <3>1 DEF Slots
      <3>3. N(P, t) <= k
        BY <1>1, <2>1, <3>2 DEF N
      <3>4. QED
        BY <1>6, <2>1, <3>2, <3>3
    <2>5. ASSUME NEW q \in Pages, NEW t \in Slots, BodyValid(f[q][t])
          PROVE  Age(k, f[q][t].seq) + m <= IF q = P THEN Span(0) - DataSlots - 5 ELSE Span(0) - 3
      <3>1. N(q, t) <= k /\ f[q][t].seq = N(q, t) /\ f[q][t].seq \in Seqs
        BY <1>6, <1>8, <2>5
      <3>2. N(q, t) \in Nat
        BY <1>3
      <3>3. Age(k, f[q][t].seq) = k - N(q, t)
        BY <1>2, <2>2, <3>1, <3>2, AgeIs
      <3>4. t \in Nat /\ t <= DataSlots + 1
        BY <1>3
      <3>5. CASE q = P
        <4>1. k - N(q, t) <= T
          BY <1>1, <1>2, <2>1, <3>4, <3>5 DEF N, Pages
        <4>2. T + m <= DataSlots + 1
          BY <1>1, <2>1
        <4> HIDE DEF P, T, m
        <4>3. QED
          BY <1>1, <1>2, <2>1, <2>3, <3>2, <3>3, <3>5, <4>1, <4>2
      <3>6. CASE q # P
        <4>1. k - N(q, t) <= T + DataSlots + 2
          BY <1>1, <1>2, <2>1, <3>4, <3>6 DEF N, Pages
        <4>2. T + m <= DataSlots + 1
          BY <1>1, <2>1
        <4> HIDE DEF P, T, m
        <4>3. QED
          BY <1>1, <1>2, <2>1, <2>3, <3>2, <3>3, <3>6, <4>1, <4>2
      <3>7. QED
        BY <3>5, <3>6
    <2> HIDE DEF P, T, m
    <2>6. Ages(f, P, k, 0)
      BY <2>3, <2>4, <2>5 DEF Ages
    <2>7. Quiet(f, <<P, T>>, k, f[P][T].value, 0)
      BY <1>12, <1>13, <2>1, <2>2, <2>6 DEF Quiet, Leads
    <2>8. QED
      BY <2>7 DEF f
  <1>16. QED
    BY <1>2, <1>14, <1>15
LEMMA SuccOrders ==
  ASSUME NEW n \in Seqs, NEW a \in 0 .. DataSlots + 3, NEW b \in 0 .. DataSlots + 3
  PROVE  /\ Succ(n, a) \in Seqs
         /\ a <= b => Age(Succ(n, b), Succ(n, a)) = b - a
         /\ a < b => Newer(Succ(n, b), Succ(n, a))
         /\ Succ(n, a) = Succ(n, b) => a = b
         /\ a + 2 <= DataSlots + 3 => Succ(Succ(n, a), 2) = Succ(n, a + 2)
         /\ a + 1 <= DataSlots + 3 => Succ(Succ(n, a), 1) = Succ(n, a + 1)
PROOF
  <1>1. /\ SeqSpan \in Nat /\ DataSlots \in Nat /\ DataSlots >= 2 /\ 2 * DataSlots + 6 < Half /\ Half \in Nat
        /\ 2 * Half <= SeqSpan /\ n \in Nat /\ n < SeqSpan /\ a \in Nat /\ b \in Nat
        /\ a <= DataSlots + 3 /\ b <= DataSlots + 3
    BY SpanZero DEF Seqs
  <1>2. a \in 0 .. SeqSpan - 1 /\ b \in 0 .. SeqSpan - 1 /\ 1 \in 0 .. SeqSpan - 1 /\ 2 \in 0 .. SeqSpan - 1
    BY <1>1
  <1>3. /\ Succ(n, a) = IF n + a < SeqSpan THEN n + a ELSE n + a - SeqSpan
        /\ Succ(n, a) \in Seqs
        /\ Succ(n, b) = IF n + b < SeqSpan THEN n + b ELSE n + b - SeqSpan
        /\ Succ(n, b) \in Seqs
    BY <1>2, SuccIs
  <1>4. Age(Succ(n, b), Succ(n, a))
          = IF Succ(n, b) >= Succ(n, a) THEN Succ(n, b) - Succ(n, a) ELSE Succ(n, b) - Succ(n, a) + SeqSpan
    BY <1>3, AgeIs
  <1>5. a <= b => Age(Succ(n, b), Succ(n, a)) = b - a
    BY <1>1, <1>3, <1>4
  <1>6. a < b => Newer(Succ(n, b), Succ(n, a))
    <2>1. a < b => Age(Succ(n, b), Succ(n, a)) > 0 /\ Age(Succ(n, b), Succ(n, a)) < Half
      BY <1>1, <1>5
    <2>2. QED
      BY <1>3, <2>1, NewerIs
  <1>7. Succ(n, a) = Succ(n, b) => a = b
    BY <1>1, <1>3
  <1>8. ASSUME NEW k \in {1, 2}, a + k <= DataSlots + 3
        PROVE  Succ(Succ(n, a), k) = Succ(n, a + k)
    <2>1. k \in 0 .. SeqSpan - 1 /\ a + k \in 0 .. SeqSpan - 1
      BY <1>1, <1>8
    <2>2. Succ(Succ(n, a), k) = IF Succ(n, a) + k < SeqSpan THEN Succ(n, a) + k ELSE Succ(n, a) + k - SeqSpan
      BY <1>3, <2>1, SuccIs
    <2>3. Succ(n, a + k) = IF n + (a + k) < SeqSpan THEN n + (a + k) ELSE n + (a + k) - SeqSpan
      BY <2>1, SuccIs
    <2>4. QED
      BY <1>1, <1>3, <2>2, <2>3
  <1>9. QED
    BY <1>3, <1>5, <1>6, <1>7, <1>8

LEMMA ReclaimedGood ==
  ASSUME NEW n \in Starts
  PROVE  \E lat, seq, value : Quiet(Reclaimed(n), lat, seq, value, 0)
PROOF
  <1> DEFINE f == Reclaimed(n)
             S(k) == Succ(n, k)
             K(p, s) == IF p = 1 THEN DataSlots + 2
                        ELSE IF s = 0 THEN 0 ELSE IF s < DataSlots THEN s + 1
                        ELSE IF s = DataSlots THEN DataSlots + 1 ELSE DataSlots + 3
             Com(r) == [r EXCEPT !.committed = TRUE]
             i == S(DataSlots + 1)
  <1>1. /\ SeqSpan \in Nat /\ DataSlots \in Nat /\ DataSlots >= 2 /\ 2 * DataSlots + 6 < Half /\ Half \in Nat
        /\ 2 * Half <= SeqSpan /\ Span(0) = 2 * DataSlots + 6 /\ n \in Seqs /\ n \in Nat /\ n < SeqSpan
        /\ 0 \in Values
    BY SpanZero, JournalAssumption DEF Seqs, Values
  <1>2. /\ S(0) = n /\ Succ(i, 1) = S(DataSlots + 2) /\ Succ(i, 2) = S(DataSlots + 3)
    <2>1. S(0) = n
      BY <1>1 DEF Succ
    <2>2. DataSlots + 1 \in 0 .. DataSlots + 3
      BY <1>1
    <2>3. QED
      BY <1>1, <2>1, <2>2, SuccOrders
  <1>3. Succ(n, SeqSpan - 1) \in Seqs /\ i \in Seqs
    BY <1>1, SuccIs
  <1>4. ASSUME NEW m \in {"snapshot", "intent", "activate"}, NEW s \in Seqs, NEW t \in Pages, NEW u \in Seqs
        PROVE  LET r == Com(Transition(m, s, 0, t, u))
               IN  /\ r \in Record /\ r.magic = m /\ r.seq = s /\ r.value = 0 /\ r.target = t /\ r.parent = u
    <2>1. Transition(m, s, 0, t, u) = [magic |-> m, seq |-> s, value |-> 0, target |-> t, parent |-> u,
                                       committed |-> FALSE]
      BY DEF Transition
    <2>2. Transition(m, s, 0, t, u) \in Record
      BY <1>1, NewRecords
    <2>3. Com(Transition(m, s, 0, t, u)) \in Record
      BY <2>2 DEF Record
    <2>4. QED
      BY <2>1, <2>3
  <1>5. ASSUME NEW s \in Seqs
        PROVE  Com(Data(s, 0)) \in Record /\ Com(Data(s, 0)).magic = "data" /\ Com(Data(s, 0)).seq = s
    <2>1. Data(s, 0) = [magic |-> "data", seq |-> s, value |-> 0, target |-> 2, parent |-> SeqSpan,
                        committed |-> FALSE]
      BY DEF Data
    <2>2. Data(s, 0) \in Record
      <3>1. 0 \in Pages
        BY DEF Pages
      <3>2. QED
        BY <1>1, <3>1, NewRecords
    <2>3. Com(Data(s, 0)) \in Record
      BY <2>2 DEF Record
    <2>4. QED
      BY <2>1, <2>3
  <1>6. /\ f[0][0] = Com(Transition("snapshot", n, 0, 0, Succ(n, SeqSpan - 1)))
        /\ \A s \in Slots : s # 0 /\ s < DataSlots => f[0][s] = Com(Data(S(s + 1), 0))
        /\ f[0][Intent] = Com(Transition("intent", i, 0, 1, i))
        /\ f[0][Activate] = Com(Transition("activate", S(DataSlots + 3), 0, 1, i))
        /\ f[1][0] = Com(Transition("snapshot", S(DataSlots + 2), 0, 1, i))
        /\ \A s \in Slots : s # 0 => f[1][s] = Erased
        /\ f = [p \in Pages |-> [s \in Slots |-> f[p][s]]]
    <2> DEFINE Old(s) == IF s = 0 THEN Transition("snapshot", n, 0, 0, Succ(n, SeqSpan - 1))
                         ELSE IF s < Intent THEN Data(Succ(n, s + 1), 0)
                         ELSE IF s = Intent THEN Transition("intent", i, 0, 1, i)
                         ELSE Transition("activate", Succ(i, 2), 0, 1, i)
    <2>1. f = [p \in Pages |-> [s \in Slots |->
                 IF p = 0 THEN Com(Old(s))
                 ELSE IF s = 0 THEN Com(Transition("snapshot", Succ(i, 1), 0, 1, i)) ELSE Erased]]
      BY DEF Reclaimed
    <2> HIDE DEF f, Com
    <2>2. /\ 0 \in Pages /\ 1 \in Pages /\ 0 \in Slots /\ Intent \in Slots /\ Activate \in Slots
          /\ 0 < Intent /\ ~ (Intent < Intent) /\ Intent # 0 /\ ~ (Activate < Intent) /\ Activate # Intent
          /\ Activate # 0 /\ Intent = DataSlots
      BY <1>1 DEF Pages, Slots, Intent, Activate
    <2>3. \A s \in Slots : f[0][s] = Com(Old(s))
      BY <2>1, <2>2
    <2>4. \A s \in Slots : f[1][s] = IF s = 0 THEN Com(Transition("snapshot", Succ(i, 1), 0, 1, i)) ELSE Erased
      BY <2>1, <2>2
    <2>5. f = [p \in Pages |-> [s \in Slots |-> f[p][s]]]
      BY <2>1
    <2> HIDE DEF i
    <2>6. QED
      BY <1>2, <2>2, <2>3, <2>4, <2>5
  <1> HIDE DEF f, Com
  <1>7. \A p \in Pages, s \in Slots : K(p, s) \in 0 .. DataSlots + 3
    BY <1>1 DEF Slots
  <1>8. \A k \in 0 .. DataSlots + 3 : S(k) \in Seqs
    BY <1>1, SuccOrders
  <1>9. 0 \in Pages /\ 1 \in Pages /\ \A p \in Pages : p = 0 \/ p = 1
    BY DEF Pages
  <1>10. \A s \in Slots : \/ s = 0 \/ s = Intent \/ s = Activate
                          \/ s # 0 /\ s < DataSlots /\ s # Intent /\ s # Activate
    BY <1>1 DEF Slots, Intent, Activate
  <1>11. /\ K(0, 0) = 0 /\ K(0, Intent) = DataSlots + 1 /\ K(0, Activate) = DataSlots + 3 /\ K(1, 0) = DataSlots + 2
         /\ \A s \in Slots : s # 0 /\ s < DataSlots => K(0, s) = s + 1
    BY <1>1 DEF Intent, Activate
  <1>12. /\ DataSlots + 2 \in 0 .. DataSlots + 3 /\ DataSlots + 3 \in 0 .. DataSlots + 3
         /\ DataSlots + 1 \in 0 .. DataSlots + 3
         /\ \A s \in Slots : s < DataSlots => s + 1 \in 0 .. DataSlots + 3
    BY <1>1 DEF Slots
  <1>13. S(DataSlots + 2) \in Seqs /\ S(DataSlots + 3) \in Seqs /\ i \in Seqs
         /\ \A s \in Slots : s < DataSlots => S(s + 1) \in Seqs
    BY <1>8, <1>12
  <1> HIDE DEF S, i
  <1>14. LET r == f[0][0]
         IN  r \in Record /\ r.magic = "snapshot" /\ r.seq = S(0) /\ BodyValid(r)
    BY <1>1, <1>2, <1>3, <1>4, <1>6, <1>9, RecordsAreValid
  <1>15. LET r == f[0][Intent]
         IN  /\ r \in Record /\ r.magic = "intent" /\ r.seq = i /\ BodyValid(r)
             /\ r.target = 1 /\ r.parent = i /\ r.value = 0
    BY <1>4, <1>6, <1>9, <1>13, RecordsAreValid
  <1>16. LET r == f[0][Activate]
         IN  /\ r \in Record /\ r.magic = "activate" /\ r.seq = S(DataSlots + 3) /\ BodyValid(r)
             /\ r.target = 1 /\ r.parent = i /\ r.value = 0
    BY <1>4, <1>6, <1>9, <1>13, RecordsAreValid
  <1>17. LET r == f[1][0]
         IN  /\ r \in Record /\ r.magic = "snapshot" /\ r.seq = S(DataSlots + 2) /\ BodyValid(r) /\ r # Erased
             /\ r.target = 1 /\ r.parent = i /\ r.value = 0
    BY <1>4, <1>6, <1>9, <1>13, RecordsAreValid
  <1>18. \A s \in Slots : s # 0 /\ s < DataSlots =>
           f[0][s] \in Record /\ f[0][s].magic = "data" /\ f[0][s].seq = S(s + 1) /\ BodyValid(f[0][s])
    <2>1. SUFFICES ASSUME NEW s \in Slots, s # 0, s < DataSlots
                   PROVE  /\ f[0][s] \in Record /\ f[0][s].magic = "data" /\ f[0][s].seq = S(s + 1)
                          /\ BodyValid(f[0][s])
      OBVIOUS
    <2>2. f[0][s] = Com(Data(S(s + 1), 0)) /\ S(s + 1) \in Seqs
      BY <1>6, <1>13, <2>1
    <2>3. QED
      BY <1>5, <2>2, RecordsAreValid
  <1>19. \A s \in Slots : s # 0 => f[1][s] = Erased /\ ~BodyValid(f[1][s])
    BY <1>6, RecordsAreValid
  <1>20. i = S(DataSlots + 1)
    BY DEF i
  <1> HIDE DEF K
  <1>21. \A p \in Pages, s \in Slots : BodyValid(f[p][s]) =>
           f[p][s] \in Record /\ f[p][s].seq = S(K(p, s)) /\ (p = 1 => s = 0)
    BY <1>9, <1>10, <1>11, <1>14, <1>15, <1>16, <1>17, <1>18, <1>19, <1>20
  <1>22. Typed(f)
    <2>1. \A p \in Pages, s \in Slots : f[p][s] \in Record \cup {Erased, Torn}
      BY <1>9, <1>10, <1>14, <1>15, <1>16, <1>17, <1>18, <1>19
    <2>2. f \in Flash
      <3>1. \A p \in Pages : [s \in Slots |-> f[p][s]] \in [Slots -> Record \cup {Erased, Torn}]
        BY <2>1
      <3>2. QED
        BY <3>1, <1>6 DEF Flash
    <2>3. 1 - 0 = 1
      OBVIOUS
    <2>4. ASSUME NEW p \in Pages, NEW s \in Slots, BodyValid(f[p][s])
          PROVE  Fits(f[p][s], p, s)
      BY <1>9, <1>10, <1>14, <1>15, <1>16, <1>17, <1>18, <1>19, <2>3, <2>4 DEF Fits
    <2>5. QED
      BY <2>2, <2>4 DEF Typed
  <1>23. \A a, b \in 0 .. DataSlots + 3 : /\ S(a) = S(b) => a = b
                                          /\ a < b => Newer(S(b), S(a))
                                          /\ a <= b => Age(S(b), S(a)) = b - a
    BY <1>1, SuccOrders DEF S
  <1>24. Distinct(f)
    <2>1. SUFFICES ASSUME NEW p \in Pages, NEW q \in Pages, NEW t \in Slots, NEW u \in Slots,
                          BodyValid(f[p][t]), BodyValid(f[q][u]), f[p][t].seq = f[q][u].seq
                   PROVE  p = q /\ t = u
      BY DEF Distinct
    <2>2. K(p, t) = K(q, u)
      BY <1>7, <1>21, <1>23, <2>1
    <2>3. /\ (p = 1 => t = 0) /\ (q = 1 => u = 0)
      BY <1>21, <2>1
    <2>4. t \in Nat /\ u \in Nat /\ t <= DataSlots + 1 /\ u <= DataSlots + 1
      BY <1>1 DEF Slots
    <2>5. QED
      BY <1>1, <1>9, <2>2, <2>3, <2>4 DEF K
  <1>25. Authority(f, 0) /\ ~Authority(f, 1)
    BY <1>15, <1>19, PagesAre DEF Authority
  <1>26. Succ(f[0][Intent].seq, 2) = S(DataSlots + 3) /\ Succ(f[0][Intent].seq, 1) = S(DataSlots + 2)
    BY <1>2, <1>15
  <1>27. Below(f)
    <2>1. ASSUME NEW t \in 0 .. DataSlots - 1, BodyValid(f[0][t])
          PROVE  Newer(f[0][Intent].seq, f[0][t].seq)
      <3>1. t \in Slots /\ t < DataSlots /\ t \in Nat
        BY <1>1 DEF Slots
      <3>2. K(0, t) < DataSlots + 1
        BY <1>1, <3>1 DEF K
      <3>3. f[0][t].seq = S(K(0, t)) /\ K(0, t) \in 0 .. DataSlots + 3
        BY <1>7, <1>9, <1>21, <2>1, <3>1
      <3>4. QED
        BY <1>12, <1>15, <1>20, <1>23, <3>2, <3>3
    <2>2. Matches(f[0][Activate], "activate", f[0][Intent], Succ(f[0][Intent].seq, 2))
      BY <1>15, <1>16, <1>26 DEF Matches
    <2>3. QED
      BY <1>9, <1>25, <2>1, <2>2 DEF Below
  <1>28. Above(f)
    <2>1. Matches(f[1 - 0][0], "snapshot", f[0][Intent], Succ(f[0][Intent].seq, 1))
      BY <1>15, <1>17, <1>26 DEF Matches
    <2>2. \A t \in Slots \ {0} : ~BodyValid(f[1 - 0][t])
      BY <1>19
    <2>3. QED
      BY <1>9, <1>25, <2>1, <2>2 DEF Above
  <1>29. Ended(f, 0)
    <2>1. 1 - 0 = 1
      OBVIOUS
    <2>2. Clean(f, 1)
      BY <1>17, <1>19 DEF Clean, Plain
    <2>3. QED
      BY <1>16, <1>17, <1>25, <2>1, <2>2 DEF Ended, Owner
  <1>30. Ages(f, 1, S(DataSlots + 3), 0)
    <2>1. DataSlots - 1 \in 0 .. DataSlots
      BY <1>1
    <2>2. Room(f, 1, DataSlots - 1)
      <3>1. \A t \in 0 .. DataSlots - 1 : t < DataSlots - (DataSlots - 1) => t = 0
        BY <1>1
      <3>2. QED
        BY <1>17, <3>1 DEF Room
    <2>3. ASSUME NEW q \in Pages, NEW t \in Slots, BodyValid(f[q][t])
          PROVE  Age(S(DataSlots + 3), f[q][t].seq) + (DataSlots - 1)
                   <= IF q = 1 THEN Span(0) - DataSlots - 5 ELSE Span(0) - 3
      <3>1. f[q][t].seq = S(K(q, t)) /\ K(q, t) \in 0 .. DataSlots + 3
        BY <1>7, <1>21, <2>3
      <3>2. K(q, t) \in Nat /\ K(q, t) <= DataSlots + 3
        BY <1>1, <3>1
      <3>3. Age(S(DataSlots + 3), f[q][t].seq) = DataSlots + 3 - K(q, t)
        BY <1>1, <1>12, <1>23, <3>1, <3>2
      <3>4. q = 1 => K(q, t) = DataSlots + 2
        BY DEF K
      <3>5. QED
        BY <1>1, <3>2, <3>3, <3>4
    <2>4. QED
      BY <2>1, <2>2, <2>3 DEF Ages
  <1>31. Quiet(f, <<1, 0>>, S(DataSlots + 3), 0, 0)
    <2>1. 1 - 1 = 0
      OBVIOUS
    <2>2. Leads(f, 1, 0, S(DataSlots + 3))
      BY <1>16, <1>19, <1>29, <2>1 DEF Leads
    <2>3. QED
      BY <1>9, <1>13, <1>17, <1>22, <1>24, <1>27, <1>28, <1>30, <2>2, PagesAre DEF Quiet, Struct
  <1>32. QED
    BY <1>31 DEF f
-----------------------------------------------------------------------------
(* What the invariant says of each state of the service. *)
LEMMA ValuesAre ==
  /\ None \notin Values /\ Refused \notin Values /\ None # Refused
  /\ Values \subseteq Nat
  BY NotRecords, JournalAssumption DEF Values

LEMMA IdleHere ==
  ASSUME IInv, Idle
  PROVE  Here /\ Sound(flash, resets) /\ saved \in Values \cup {None}
PROOF
  <1>1. Here
    BY ValuesAre DEF IInv, Idle, Saving
  <1>2. QED
    BY <1>1, RecoveredGood, GoodValue DEF IInv, Here

LEMMA RestingIs ==
  ASSUME IInv, ~authorised, power # "on"
  PROVE  plan = <<>> /\ request = None /\ Sound(flash, resets)
  BY DEF IInv

LEMMA SavingStep ==
  ASSUME IInv, ~authorised, power = "on", request # None \/ plan # <<>>
  PROVE  /\ Base /\ Saving
         /\ plan = <<>> => pending = None /\ Here /\ Outcome(flash)
         /\ plan # <<>> =>
              /\ Head(plan).op = "body" => flash[Head(plan).at[1]][Head(plan).at[2]] = Erased
              /\ \A g \in Interrupted(Head(plan)) :
                   /\ Outcome(g)
                   /\ pending # None /\ Head(plan).at[1] # pending[1] => Recovered(g) = saved
              /\ Perform => Saving'
PROOF
  <1>1. Saving
    BY DEF IInv
  <1>2. Base
    BY <1>1 DEF IInv, Saving, Base
  <1>3. CASE plan = <<>> /\ pending = None /\ Here
    BY <1>1, <1>2, <1>3, HereOutcome
  <1>4. CASE \E p \in Pages, t \in 0 .. DataSlots - 1 : Appending(p, t)
    BY <1>1, <1>2, <1>4, AppendingStep
  <1>5. CASE \E p \in Pages : Authorising(p)
    BY <1>1, <1>2, <1>5, AuthorisingStep
  <1>6. ASSUME NEW p \in Pages, Resuming(p)
        PROVE  /\ plan # <<>>
               /\ Head(plan).op = "body" => flash[Head(plan).at[1]][Head(plan).at[2]] = Erased
               /\ \A g \in Interrupted(Head(plan)) :
                    /\ Outcome(g)
                    /\ pending # None /\ Head(plan).at[1] # pending[1] => Recovered(g) = saved
               /\ Perform => Saving'
    <2>1. plan # <<>> /\ pending = <<p, Intent>>
      BY <1>2, <1>6, ResumingStep
    <2>2. pending[1] = p
      BY <2>1
    <2>3. QED
      BY <1>2, <1>6, <2>1, <2>2, ResumingStep
  <1>7. QED
    BY <1>1, <1>2, <1>3, <1>4, <1>5, <1>6 DEF Saving

LEMMA DecidingHere ==
  ASSUME IInv, Deciding
  PROVE  ~authorised /\ Base /\ pending = None /\ Here /\ saved \in Values \cup {None} /\ Sound(flash, resets)
PROOF
  <1>1. ~authorised
    BY DEF IInv, Deciding, Erasing
  <1>2. Base /\ pending = None /\ Here /\ Outcome(flash)
    BY <1>1, SavingStep DEF Deciding
  <1>3. saved \in Values \cup {None}
    BY <1>2, GoodValue DEF Here
  <1>4. QED
    BY <1>1, <1>2, <1>3 DEF Outcome

(* An erase that was authorised loses records and nothing else. *)
LEMMA ErasingStep ==
  ASSUME IInv, authorised, NEW g \in IF plan = <<>> THEN {flash} ELSE Interrupted(Head(plan))
  PROVE  /\ Erasing /\ g \in Flash /\ Struct(g) /\ Window(g, Span(resets) - 2 * DataSlots - 6)
         /\ Sound(g, resets) /\ Recovered(g) \in Values \cup {None, Refused}
         /\ plan # <<>> => Head(plan).op = "erase" /\ Tail(plan) \in {<<Erase(1)>>, <<>>}
PROOF
  <1>1. Erasing /\ flash \in Flash /\ resets \in 0 .. MaxResets
    BY DEF IInv
  <1>2. resets \in 1 .. MaxResets
    BY <1>1, Constants DEF Erasing
  <1>3. CASE plan = <<>>
    <2>1. g = flash
      BY <1>3
    <2>2. Struct(g) /\ Window(g, Span(resets) - 2 * DataSlots - 6)
      BY <1>1, <2>1 DEF Erasing
    <2>3. Sound(g, resets)
      BY <1>2, <2>2, SoundAfterReset
    <2>4. QED
      BY <1>1, <1>3, <2>1, <2>2, <2>3, RecoveredSound
  <1>4. CASE plan # <<>>
    <2>1. \E q \in Pages : Head(plan) = Erase(q) /\ Tail(plan) \in {<<Erase(1)>>, <<>>}
      <3>1. plan = <<Erase(0), Erase(1)>> \/ plan = <<Erase(1)>>
        BY <1>1, <1>4 DEF Erasing
      <3>2. 0 \in Pages /\ 1 \in Pages
        BY DEF Pages
      <3>3. CASE plan = <<Erase(0), Erase(1)>>
        <4>1. Head(plan) = Erase(0) /\ Tail(plan) = <<Erase(1)>>
          BY <3>3
        <4>2. QED
          BY <3>2, <4>1
      <3>4. CASE plan = <<Erase(1)>>
        <4>1. Head(plan) = Erase(1) /\ Tail(plan) = <<>>
          BY <3>4
        <4>2. QED
          BY <3>2, <4>1
      <3>5. QED
        BY <3>1, <3>3, <3>4
    <2>2. PICK q \in Pages : Head(plan) = Erase(q) /\ Tail(plan) \in {<<Erase(1)>>, <<>>}
      BY <2>1
    <2>3. /\ Head(plan).op = "erase"
          /\ Interrupted(Head(plan)) = {flash, [flash EXCEPT ![q] = [s \in Slots |-> Erased]]} \cup HalfErased(q)
      BY <2>2, EraseIs
    <2>4. g = flash \/ g \in HalfErased(q) \cup {[flash EXCEPT ![q] = [s \in Slots |-> Erased]]}
      BY <1>4, <2>3
    <2>5. g \in Flash /\ Struct(g) /\ Window(g, Span(resets) - 2 * DataSlots - 6)
      <3>1. CASE g = flash
        BY <1>1, <3>1 DEF Erasing
      <3>2. CASE g \in HalfErased(q) \cup {[flash EXCEPT ![q] = [s \in Slots |-> Erased]]}
        <4>1. Lost(flash, g)
          BY <1>1, <3>2, EraseLoses
        <4>2. Struct(flash) /\ Window(flash, Span(resets) - 2 * DataSlots - 6)
          BY <1>1 DEF Erasing
        <4>3. Struct(g) /\ Window(g, Span(resets) - 2 * DataSlots - 6)
          BY <4>1, <4>2, LostStruct
        <4>4. QED
          BY <4>1, <4>3 DEF Lost
      <3>3. QED
        BY <2>4, <3>1, <3>2
    <2>6. Sound(g, resets)
      BY <1>2, <2>5, SoundAfterReset
    <2>7. QED
      BY <1>1, <2>2, <2>3, <2>5, <2>6, RecoveredSound
  <1>5. QED
    BY <1>3, <1>4
-----------------------------------------------------------------------------
(* Every action keeps the invariant, and is a step of the register. *)
LEMMA InitInv == Init => IInv /\ Register!Init
PROOF
  <1>1. SUFFICES ASSUME Init
                 PROVE  IInv /\ Register!Init
    OBVIOUS
  <1>2. \E lat, seq, value : Quiet(flash, lat, seq, value, 0)
    BY <1>1, LegacyGood, ReclaimedGood DEF Init
  <1>3. PICK lat, seq, value : Good(flash, lat, seq, None, value, 0)
    BY <1>2 DEF Good
  <1>4. 0 \in 0 .. MaxResets
    BY SpanZero
  <1>5. Recovered(flash) = value /\ Sound(flash, 0) /\ Struct(flash) /\ value \in Values \cup {None}
    BY <1>3, <1>4, RecoveredGood, GoodValue
  <1>6. flash \in Flash
    BY <1>5 DEF Struct, Typed
  <1>7. IInv
    BY <1>1, <1>4, <1>5, <1>6 DEF Init, IInv
  <1>8. Register!Init
    BY <1>1, <1>5 DEF Init, Register!Init
  <1>9. QED
    BY <1>7, <1>8

LEMMA RestsAfter ==
  ASSUME resets' \in 0 .. MaxResets, flash' \in Flash, durable' = Recovered(flash'), Sound(flash', resets'),
         power' \in {"off", "failed"}, plan' = <<>>, request' = None, authorised' = FALSE
  PROVE  IInv'
PROOF
  <1>1. durable' \in Values \cup {None, Refused}
    BY RecoveredSound
  <1>2. QED
    BY <1>1 DEF IInv

LEMMA AwakeAfter ==
  ASSUME resets' \in 0 .. MaxResets, flash' \in Flash, durable' = Recovered(flash'), Sound(flash', resets'),
         power' = "on", authorised' = FALSE, (request' = None /\ plan' = <<>> /\ Here') \/ Saving'
  PROVE  IInv'
PROOF
  <1>1. durable' \in Values \cup {None, Refused}
    BY RecoveredSound
  <1>2. QED
    BY <1>1 DEF IInv

Registers == [Register!Next]_<<durable, authorised>>

LEMMA MountStep ==
  ASSUME IInv, Mount
  PROVE  IInv' /\ Registers
PROOF
  <1>1. Registers
    BY DEF Mount, pages, Registers
  <1>2. ~authorised
    BY DEF IInv, Mount, Erasing, Idle
  <1>3. plan = <<>> /\ request = None /\ Sound(flash, resets)
    <2>1. CASE power = "off"
      BY <1>2, <2>1, RestingIs
    <2>2. CASE Idle
      BY <2>2, IdleHere DEF Idle
    <2>3. QED
      BY <2>1, <2>2 DEF Mount
  <1>4. /\ resets' = resets /\ flash' = flash /\ durable' = durable /\ plan' = <<>> /\ request' = None
        /\ authorised' = FALSE
    BY <1>2, <1>3 DEF Mount, pages, IInv
  <1>5. resets \in 0 .. MaxResets /\ flash \in Flash /\ durable = Recovered(flash)
    BY DEF IInv
  <1>6. CASE power' = "failed"
    BY <1>1, <1>3, <1>4, <1>5, <1>6, RestsAfter
  <1>7. CASE power' # "failed"
    <2>1. LET found == Scan(flash)
          IN  /\ found.accepts /\ power' = "on"
              /\ latest' = found.latest /\ sequence' = found.sequence
              /\ pending' = found.pending /\ saved' = found.saved
      BY <1>7 DEF Mount
    <2>2. Here'
      BY <1>3, <1>4, <2>1 DEF Sound, Here
    <2>3. QED
      BY <1>1, <1>3, <1>4, <1>5, <2>1, <2>2, AwakeAfter
  <1>8. QED
    BY <1>1, <1>6, <1>7

LEMMA SaveStep ==
  ASSUME IInv, NEW v \in Values, Save(v)
  PROVE  IInv' /\ Registers
PROOF
  <1>1. Registers
    BY DEF Save, pages, Registers
  <1>2. Here /\ Sound(flash, resets) /\ saved \in Values \cup {None} /\ ~authorised /\ power = "on"
    BY IdleHere DEF Save, Idle
  <1>3. /\ resets' = resets /\ flash' = flash /\ durable' = durable /\ power' = "on" /\ authorised' = FALSE
        /\ latest' = latest /\ sequence' = sequence /\ pending' = pending /\ saved' = saved /\ request' = v
    BY <1>2 DEF Save, pages, mirror, IInv
  <1>4. resets \in 0 .. MaxResets /\ flash \in Flash /\ durable = Recovered(flash)
    BY DEF IInv
  <1>5. Here'
    BY <1>2, <1>3 DEF Here
  <1>6. request' \in Values /\ (saved' # None => request' >= saved')
    <2>1. CASE saved = None
      BY <1>3, <2>1
    <2>2. CASE saved # None
      <3>1. v \in {saved, saved + 1} /\ saved \in Nat
        BY <1>2, <2>2, ValuesAre DEF Save
      <3>2. v >= saved
        BY <3>1
      <3>3. QED
        BY <1>3, <3>2
    <2>3. QED
      BY <2>1, <2>2
  <1>7. CASE pending = None
    <2>1. plan' = <<>>
      BY <1>7 DEF Save
    <2>2. Saving'
      BY <1>3, <1>5, <1>6, <1>7, <2>1 DEF Saving
    <2>3. QED
      BY <1>1, <1>2, <1>3, <1>4, <2>2, AwakeAfter
  <1>8. CASE pending # None
    <2>1. PICK p \in Pages : pending = <<p, Intent>> /\ Pending(flash, p, sequence, saved, resets)
      BY <1>2, <1>8, PendingIs DEF Here
    <2> DEFINE i == flash[p][Intent]
    <2>2. i.seq = sequence /\ i.value = saved /\ Authority(flash, p) /\ Typed(flash)
      BY <2>1 DEF Pending, Owner, Struct
    <2>3. i.target = 1 - p
      <3>1. BodyValid(i) /\ i.magic = "intent"
        BY <2>2 DEF Authority
      <3>2. Fits(i, p, Intent)
        BY <2>2, <3>1, PagesAre, RecordIs
      <3>3. QED
        BY <3>1, <3>2, PagesAre DEF Fits
    <2>4. pending[1] = p /\ pending[2] = Intent
      BY <2>1
    <2>5. plan' = Resume(<<p, Intent>>, i)
      BY <1>8, <2>1, <2>4 DEF Save
    <2> HIDE DEF i
    <2>6. plan' = ResumeSteps(p, sequence, saved)
      BY <2>2, <2>3, <2>5, PlansAre
    <2>7. Resuming(p)'
      BY <1>3, <1>5, <2>1, <2>6 DEF Resuming
    <2>8. Saving'
      BY <1>6, <2>7 DEF Saving
    <2>9. QED
      BY <1>1, <1>2, <1>3, <1>4, <2>8, AwakeAfter
  <1>9. QED
    BY <1>7, <1>8
LEMMA AcknowledgeStep ==
  ASSUME IInv, Acknowledge
  PROVE  IInv' /\ Registers
PROOF
  <1>1. Registers
    BY DEF Acknowledge, pages, Registers
  <1>2. ~authorised /\ Here /\ Sound(flash, resets)
    BY DecidingHere DEF Acknowledge
  <1>3. /\ resets' = resets /\ flash' = flash /\ durable' = durable /\ power' = "on" /\ authorised' = FALSE
        /\ latest' = latest /\ sequence' = sequence /\ pending' = pending /\ saved' = saved
        /\ request' = None /\ plan' = <<>>
    BY <1>2 DEF Acknowledge, Deciding, pages, mirror, IInv
  <1>4. resets \in 0 .. MaxResets /\ flash \in Flash /\ durable = Recovered(flash)
    BY DEF IInv
  <1>5. Here'
    BY <1>2, <1>3 DEF Here
  <1>6. QED
    BY <1>1, <1>2, <1>3, <1>4, <1>5, AwakeAfter

LEMMA AppendDataStep ==
  ASSUME IInv, AppendData
  PROVE  IInv' /\ Registers
PROOF
  <1>1. Registers
    BY DEF AppendData, pages, Registers
  <1>2. ~authorised /\ Base /\ pending = None /\ Here /\ Sound(flash, resets)
    BY DecidingHere DEF AppendData
  <1>3. /\ resets' = resets /\ flash' = flash /\ durable' = durable /\ power' = "on" /\ authorised' = FALSE
        /\ latest' = latest /\ sequence' = sequence /\ pending' = pending /\ saved' = saved
        /\ request' = request
    BY <1>2 DEF AppendData, Deciding, pages, mirror, IInv
  <1>4. resets \in 0 .. MaxResets /\ flash \in Flash /\ durable = Recovered(flash)
    BY DEF IInv
  <1>5. Here'
    BY <1>2, <1>3 DEF Here
  <1>6. Page \in Pages
    BY <1>2, <1>4, PendingIs, QuietParts DEF Here, PageOf, Page
  <1>7. PICK t \in 0 .. DataSlots - 1 :
          t = FirstFree(Page) /\ flash[Page][t] = Erased /\ \A u \in 0 .. t - 1 : flash[Page][u] # Erased
    <2> DEFINE t == FirstFree(Page)
    <2>1. FreeSlots(Page) # {} /\ FreeSlots(Page) \in SUBSET Nat /\ FreeSlots(Page) \subseteq 0 .. DataSlots - 1
      BY DEF AppendData, FreeSlots
    <2>2. t \in FreeSlots(Page) /\ \A u \in FreeSlots(Page) : t <= u
      BY <2>1, LeastNat DEF FirstFree
    <2> HIDE DEF t
    <2>3. t \in 0 .. DataSlots - 1 /\ t \in Nat /\ flash[Page][t] = Erased
      BY <2>1, <2>2 DEF FreeSlots
    <2>4. ASSUME NEW u \in 0 .. t - 1
          PROVE  flash[Page][u] # Erased
      <3>1. u \in 0 .. DataSlots - 1 /\ ~ (t <= u)
        BY <2>3, Constants
      <3>2. u \notin FreeSlots(Page)
        BY <2>2, <3>1
      <3>3. QED
        BY <3>1, <3>2 DEF FreeSlots
    <2>5. QED
      BY <2>3, <2>4 DEF t
  <1>8. plan' = AppendPlan(<<Page, t>>, request)
    BY <1>7 DEF AppendData
  <1>9. plan' = AppendSteps(Page, t, Succ(sequence, 1), request)
    BY <1>2, <1>8, PlansAre
  <1>10. Page' = Page
    BY <1>3 DEF Page
  <1>11. PICK p \in Pages : p = Page
    BY <1>6
  <1>12. FirstFreeAt(p, t)'
    BY <1>3, <1>7, <1>10, <1>11 DEF FirstFreeAt
  <1>13. plan' = AppendSteps(p, t, Succ(sequence', 1), request')
    BY <1>3, <1>9, <1>11
  <1>14. Appending(p, t)'
    BY <1>2, <1>3, <1>5, <1>12, <1>13 DEF Appending
  <1>15. request' \in Values /\ (saved' # None => request' >= saved')
    BY <1>2, <1>3 DEF Base
  <1>16. Saving'
    BY <1>7, <1>14, <1>15 DEF Saving
  <1>17. QED
    BY <1>1, <1>2, <1>3, <1>4, <1>16, AwakeAfter

LEMMA BeginReclaimStep ==
  ASSUME IInv, BeginReclaim
  PROVE  IInv' /\ Registers
PROOF
  <1>1. Registers
    BY DEF BeginReclaim, pages, Registers
  <1>2. ~authorised /\ Base /\ pending = None /\ Here /\ Sound(flash, resets)
    BY DecidingHere DEF BeginReclaim
  <1>3. /\ resets' = resets /\ flash' = flash /\ durable' = durable /\ authorised' = FALSE
        /\ latest' = latest /\ sequence' = sequence /\ pending' = pending /\ saved' = saved
    BY <1>2 DEF BeginReclaim, pages, mirror, IInv
  <1>4. resets \in 0 .. MaxResets /\ flash \in Flash /\ durable = Recovered(flash)
    BY DEF IInv
  <1>5. Here'
    BY <1>2, <1>3 DEF Here
  <1>6. PICK p \in Pages : p = Page
    BY <1>2, <1>4, PendingIs, QuietParts DEF Here, PageOf, Page
  <1>7. CASE saved # None /\ flash[Page][Intent] = Erased /\ flash[Page][Activate] = Erased
    <2>1. plan' = Reclaim(p) /\ power' = "on" /\ request' = request
      BY <1>6, <1>7 DEF BeginReclaim, Deciding
    <2>2. plan' = ReclaimSteps(p, Succ(sequence', 1), saved')
      BY <1>3, <2>1, PlansAre
    <2>3. \A t \in 0 .. DataSlots - 1 : flash[p][t] # Erased
      BY <1>6 DEF BeginReclaim, FreeSlots
    <2>4. Full(p)'
      <3>1. Page' = Page
        BY <1>3 DEF Page
      <3>2. QED
        BY <1>3, <1>6, <1>7, <2>3, <3>1 DEF Full
    <2>5. Authorising(p)'
      BY <1>2, <1>3, <1>5, <1>7, <2>2, <2>4 DEF Authorising
    <2>6. request' \in Values /\ (saved' # None => request' >= saved')
      BY <1>2, <1>3, <2>1 DEF Base
    <2>7. Saving'
      BY <2>5, <2>6 DEF Saving
    <2>8. QED
      BY <1>1, <1>2, <1>3, <1>4, <2>1, <2>7, AwakeAfter
  <1>8. CASE ~ (saved # None /\ flash[Page][Intent] = Erased /\ flash[Page][Activate] = Erased)
    <2>1. power' = "failed" /\ request' = None /\ plan' = <<>>
      BY <1>8 DEF BeginReclaim, Deciding
    <2>2. QED
      BY <1>1, <1>2, <1>3, <1>4, <2>1, RestsAfter
  <1>9. QED
    BY <1>7, <1>8

(* What a save may leave is a step of the register. *)
LEMMA AllowedRegisters ==
  ASSUME IInv, Allows(durable'), UNCHANGED authorised
  PROVE  Registers
PROOF
  <1>1. CASE durable' = durable
    BY <1>1 DEF Registers
  <1>2. CASE durable' = Refused
    BY <1>2 DEF Registers, Register!Next, Register!Damage
  <1>3. CASE durable # Refused /\ durable' \in Values /\ (durable # None => durable' >= durable)
    BY <1>3 DEF Registers, Register!Next, Register!Store, Supersedes
  <1>4. QED
    BY <1>1, <1>2, <1>3 DEF Allows

LEMMA ForgetRegisters ==
  ASSUME authorised, authorised' \in BOOLEAN, durable' \in Values \cup {None, Refused}
  PROVE  Registers
  BY DEF Registers, Register!Next, Register!Forget

LEMMA PerformStep ==
  ASSUME IInv, Perform
  PROVE  IInv' /\ Registers
PROOF
  <1> DEFINE g == Done(Head(plan))
  <1>1. /\ plan # <<>> /\ power = "on" /\ flash' = g /\ durable' = Recovered(g) /\ power' = power
        /\ authorised' = authorised /\ resets' = resets /\ request' = request /\ plan' = Tail(plan)
    BY DEF Perform, Becomes
  <1>2. g \in Interrupted(Head(plan))
    BY DEF Interrupted
  <1> HIDE DEF g
  <1>3. CASE ~authorised
    <2>1. Outcome(g) /\ Saving'
      BY <1>1, <1>2, <1>3, SavingStep
    <2>2. g \in Flash /\ Sound(g, resets) /\ Allows(Recovered(g))
      BY <2>1 DEF Outcome
    <2>3. Registers
      BY <1>1, <2>2, AllowedRegisters
    <2>4. resets' \in 0 .. MaxResets /\ authorised' = FALSE
      BY <1>1, <1>3 DEF IInv
    <2>5. QED
      BY <1>1, <2>1, <2>2, <2>3, <2>4, AwakeAfter
  <1>4. CASE authorised
    <2>1. /\ Erasing /\ g \in Flash /\ Struct(g) /\ Window(g, Span(resets) - 2 * DataSlots - 6)
          /\ Recovered(g) \in Values \cup {None, Refused}
          /\ Tail(plan) \in {<<Erase(1)>>, <<>>}
      BY <1>1, <1>2, <1>4, ErasingStep
    <2>2. Registers
      BY <1>1, <1>4, <2>1, ForgetRegisters DEF IInv
    <2>3. Erasing'
      BY <1>1, <1>4, <2>1 DEF Erasing
    <2>4. QED
      BY <1>1, <1>4, <2>1, <2>2, <2>3 DEF IInv
  <1>5. QED
    BY <1>3, <1>4

LEMMA SaveFailsStep ==
  ASSUME IInv, SaveFails
  PROVE  IInv' /\ Registers
PROOF
  <1>1. ~authorised /\ power = "on" /\ request # None
    BY DEF IInv, SaveFails, Erasing
  <1>2. PICK g \in IF plan = <<>> THEN {flash} ELSE Interrupted(Head(plan)) : flash' = g /\ durable' = Recovered(g)
    BY DEF SaveFails, Becomes
  <1>3. Outcome(g)
    BY <1>1, <1>2, SavingStep
  <1>4. g \in Flash /\ Sound(g, resets) /\ Allows(Recovered(g))
    BY <1>3 DEF Outcome
  <1>5. /\ power' = "failed" /\ request' = None /\ plan' = <<>> /\ resets' = resets /\ authorised' = FALSE
        /\ UNCHANGED authorised
    BY <1>1 DEF SaveFails, IInv
  <1>6. resets \in 0 .. MaxResets
    BY DEF IInv
  <1>7. Registers
    BY <1>2, <1>4, <1>5, AllowedRegisters
  <1>8. QED
    BY <1>2, <1>4, <1>5, <1>6, <1>7, RestsAfter

LEMMA PowerLossStep ==
  ASSUME IInv, PowerLoss
  PROVE  IInv' /\ Registers
PROOF
  <1>1. PICK g \in IF plan = <<>> THEN {flash} ELSE Interrupted(Head(plan)) : flash' = g /\ durable' = Recovered(g)
    BY DEF PowerLoss, Becomes
  <1>2. power' = "off" /\ request' = None /\ plan' = <<>> /\ resets' = resets /\ authorised' = FALSE
    BY DEF PowerLoss
  <1>3. resets \in 0 .. MaxResets /\ flash \in Flash /\ durable = Recovered(flash) /\ authorised \in BOOLEAN
    BY DEF IInv
  <1>4. CASE authorised
    <2>1. g \in Flash /\ Sound(g, resets) /\ Recovered(g) \in Values \cup {None, Refused}
      BY <1>1, <1>4, ErasingStep
    <2>2. Registers
      BY <1>1, <1>2, <1>4, <2>1, ForgetRegisters
    <2>3. QED
      BY <1>1, <1>2, <1>3, <2>1, <2>2, RestsAfter
  <1>5. CASE ~authorised
    <2>1. g \in Flash /\ Sound(g, resets) /\ Allows(Recovered(g))
      <3>1. CASE power = "on" /\ (request # None \/ plan # <<>>)
        <4>1. Outcome(g)
          BY <1>1, <1>5, <3>1, SavingStep
        <4>2. QED
          BY <4>1 DEF Outcome
      <3>2. CASE ~ (power = "on" /\ (request # None \/ plan # <<>>))
        <4>1. plan = <<>> /\ Sound(flash, resets)
          BY <1>5, <3>2, RestingIs, IdleHere DEF Idle
        <4>2. g = flash
          BY <1>1, <4>1
        <4>3. QED
          BY <1>3, <4>1, <4>2 DEF Allows
      <3>3. QED
        BY <3>1, <3>2
    <2>2. Registers
      BY <1>1, <1>2, <1>3, <1>5, <2>1, AllowedRegisters
    <2>3. QED
      BY <1>1, <1>2, <1>3, <2>1, <2>2, RestsAfter
  <1>6. QED
    BY <1>4, <1>5

LEMMA FactoryEraseStep ==
  ASSUME IInv, FactoryErase
  PROVE  IInv' /\ Registers
PROOF
  <1>1. Here /\ power = "on" /\ request = None /\ ~authorised /\ resets < MaxResets
    BY IdleHere DEF FactoryErase, Idle
  <1>2. /\ flash' = flash /\ durable' = durable /\ power' = "on" /\ request' = None /\ authorised' = TRUE
        /\ resets' = resets + 1 /\ plan' = <<Erase(0), Erase(1)>>
    BY <1>1 DEF FactoryErase, pages
  <1>3. resets \in 0 .. MaxResets /\ flash \in Flash /\ durable = Recovered(flash)
        /\ durable \in Values \cup {None, Refused}
    BY DEF IInv
  <1>4. resets' \in 0 .. MaxResets /\ resets' > 0 /\ resets' - 1 = resets
    BY <1>1, <1>2, <1>3, Constants
  <1>5. Struct(flash) /\ Window(flash, Span(resets))
    BY <1>1, <1>3, GoodWindow DEF Here
  <1>6. Span(resets') - 2 * DataSlots - 6 = Span(resets)
    <2>1. \A c \in 0 .. MaxResets : c > 0 => Span(c) - 2 * DataSlots - 6 = Span(c - 1)
      BY Constants
    <2>2. QED
      BY <1>4, <2>1
  <1>7. Erasing'
    BY <1>2, <1>4, <1>5, <1>6 DEF Erasing
  <1>8. Registers
    BY <1>1, <1>2 DEF Registers, Register!Next, Register!Authorise
  <1>9. QED
    BY <1>2, <1>3, <1>4, <1>7, <1>8 DEF IInv

LEMMA EraseFailsStep ==
  ASSUME IInv, EraseFails
  PROVE  IInv' /\ Registers
PROOF
  <1>1. authorised /\ plan # <<>>
    BY DEF EraseFails
  <1>2. PICK g \in Interrupted(Head(plan)) : flash' = g /\ durable' = Recovered(g)
    BY DEF EraseFails, Becomes
  <1>3. /\ Erasing /\ g \in Flash /\ Struct(g) /\ Window(g, Span(resets) - 2 * DataSlots - 6)
        /\ Recovered(g) \in Values \cup {None, Refused}
    BY <1>1, <1>2, ErasingStep
  <1>4. /\ power' = power /\ request' = request /\ authorised' = authorised /\ resets' = resets
        /\ plan' = <<Erase(0), Erase(1)>>
    BY DEF EraseFails
  <1>5. Erasing'
    BY <1>2, <1>3, <1>4 DEF Erasing
  <1>6. Registers
    BY <1>1, <1>2, <1>3, <1>4, ForgetRegisters DEF IInv
  <1>7. QED
    BY <1>1, <1>2, <1>3, <1>4, <1>5, <1>6 DEF IInv

LEMMA EraseDoneStep ==
  ASSUME IInv, EraseDone
  PROVE  IInv' /\ Registers
PROOF
  <1>1. authorised /\ plan = <<>>
    BY DEF EraseDone
  <1>2. /\ Sound(flash, resets) /\ Erasing
    BY <1>1, ErasingStep
  <1>3. /\ power' = "off" /\ authorised' = FALSE /\ flash' = flash /\ durable' = durable
        /\ request' = None /\ plan' = <<>> /\ resets' = resets
    BY <1>1, <1>2 DEF EraseDone, pages, Erasing
  <1>4. /\ resets \in 0 .. MaxResets /\ flash \in Flash /\ durable = Recovered(flash)
        /\ durable \in Values \cup {None, Refused}
    BY DEF IInv
  <1>5. Registers
    BY <1>1, <1>3, <1>4, ForgetRegisters
  <1>6. QED
    BY <1>2, <1>3, <1>4, <1>5, RestsAfter

LEMMA StutterStep ==
  ASSUME IInv, UNCHANGED vars
  PROVE  IInv' /\ Registers
PROOF
  <1>1. /\ flash' = flash /\ power' = power /\ latest' = latest /\ sequence' = sequence /\ pending' = pending
        /\ saved' = saved /\ request' = request /\ plan' = plan /\ authorised' = authorised
        /\ resets' = resets /\ durable' = durable
    BY DEF vars
  <1>2. Here' = Here /\ Page' = Page
    BY <1>1 DEF Here, Page
  <1>3. \A p, t : Appending(p, t)' = Appending(p, t)
    BY <1>1, <1>2 DEF Appending, FirstFreeAt
  <1>4. \A p : Authorising(p)' = Authorising(p)
    BY <1>1, <1>2 DEF Authorising, Full
  <1>5. \A p : Resuming(p)' = Resuming(p)
    BY <1>1, <1>2 DEF Resuming, Bare, Copied
  <1>6. Saving' = Saving /\ Erasing' = Erasing
    BY <1>1, <1>2, <1>3, <1>4, <1>5 DEF Saving, Erasing
  <1>7. IInv'
    BY <1>1, <1>2, <1>6 DEF IInv
  <1>8. QED
    BY <1>1, <1>7 DEF Registers

LEMMA StepKeepsIInv == IInv /\ [Next]_vars => IInv' /\ Registers
PROOF
  <1>1. SUFFICES ASSUME IInv, [Next]_vars
                 PROVE  IInv' /\ Registers
    OBVIOUS
  <1>2. CASE Mount \/ \E v \in Values : Save(v)
    BY <1>1, <1>2, MountStep, SaveStep
  <1>3. CASE Acknowledge \/ AppendData \/ BeginReclaim \/ Perform
    BY <1>1, <1>3, AcknowledgeStep, AppendDataStep, BeginReclaimStep, PerformStep
  <1>4. CASE SaveFails \/ PowerLoss \/ FactoryErase \/ EraseFails \/ EraseDone
    BY <1>1, <1>4, SaveFailsStep, PowerLossStep, FactoryEraseStep, EraseFailsStep, EraseDoneStep
  <1>5. CASE UNCHANGED vars
    BY <1>1, <1>5, StutterStep
  <1>6. QED
    BY <1>1, <1>2, <1>3, <1>4, <1>5 DEF Next

LEMMA InductiveInvariant == Spec => []IInv
PROOF
  <1>1. Init => IInv
    BY InitInv
  <1>2. IInv /\ [Next]_vars => IInv'
    BY StepKeepsIInv
  <1>3. QED
    BY <1>1, <1>2, PTL DEF Spec
-----------------------------------------------------------------------------
(* What nonceStoreSave keeps in RAM is what a scan of the pages would find,  *)
(* through every append, reclamation, restart and interrupted erase, and      *)
(* flash is only ever programmed where it reads erased.                       *)
THEOREM MirrorIsExact == Spec => []MirrorMatchesFlash
PROOF
  <1>1. ASSUME IInv, Idle
        PROVE  Scan(flash) = [accepts |-> TRUE, latest |-> latest, sequence |-> sequence,
                              pending |-> pending, saved |-> saved]
    <2>1. Here /\ resets \in 0 .. MaxResets
      BY <1>1, IdleHere DEF IInv
    <2>2. Scan(flash) = Found(latest, sequence, pending, saved)
      BY <2>1, ScanGood DEF Here
    <2>3. QED
      BY <2>2 DEF Found
  <1>2. ASSUME IInv, plan # <<>>, Head(plan).op = "body"
        PROVE  flash[Head(plan).at[1]][Head(plan).at[2]] = Erased
    <2>1. CASE authorised
      <3>1. \E g : g \in Interrupted(Head(plan))
        BY DEF Interrupted
      <3>2. Head(plan).op = "erase"
        BY <1>2, <2>1, <3>1, ErasingStep
      <3>3. QED
        BY <1>2, <3>2
    <2>2. CASE ~authorised
      <3>1. power = "on"
        BY <1>2, <2>2, RestingIs
      <3>2. QED
        BY <1>2, <2>2, <3>1, SavingStep
    <2>3. QED
      BY <2>1, <2>2
  <1>3. IInv => MirrorMatchesFlash
    BY <1>1, <1>2 DEF MirrorMatchesFlash
  <1>4. QED
    BY <1>3, InductiveInvariant, PTL

(* Whenever the erase of the stale page, or the copy into it, is cut short by *)
(* a power loss or given up after an error, a restart restores what was saved. *)
THEOREM InterruptionsRecover == Spec => StalePageInterruptionRecovers
PROOF
  <1>1. IInv /\ [Next]_vars => [ErasingStalePage /\ power' # "on" => durable' = saved]_vars
    <2>1. SUFFICES ASSUME IInv, Next, ErasingStalePage, power' # "on"
                   PROVE  durable' = saved
      OBVIOUS
    <2>2. ~authorised /\ plan # <<>> /\ pending # None /\ Head(plan).at[1] # pending[1]
      BY <2>1 DEF ErasingStalePage
    <2>3. power = "on"
      BY <2>1, <2>2, RestingIs
    <2>4. SaveFails \/ PowerLoss
      BY <2>1, <2>2, <2>3 DEF Next, Mount, Save, Idle, Acknowledge, AppendData, BeginReclaim, Deciding,
                              Perform, FactoryErase, EraseFails, EraseDone
    <2>5. PICK g \in Interrupted(Head(plan)) : durable' = Recovered(g)
      BY <2>2, <2>4 DEF SaveFails, PowerLoss, Becomes
    <2>6. QED
      BY <2>1, <2>2, <2>3, <2>5, SavingStep
  <1>2. QED
    BY <1>1, InductiveInvariant, PTL DEF Spec, StalePageInterruptionRecovers

(* The two pages implement the register that the join path relies on: what a  *)
(* restart restores never goes back, whatever is interrupted and however the   *)
(* numbers wrap, unless a confirmed factory erase forgets it.                  *)
THEOREM PagesAreARegister == Spec => RegisterSpec
PROOF
  <1>1. Init => Register!Init
    BY InitInv
  <1>2. IInv /\ [Next]_vars => [Register!Next]_<<durable, authorised>>
    BY StepKeepsIInv DEF Registers
  <1>3. QED
    BY <1>1, <1>2, InductiveInvariant, PTL DEF Spec, RegisterSpec, Register!Spec
=============================================================================
