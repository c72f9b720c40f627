---------------------------- MODULE BufferProofs ----------------------------
(***************************************************************************)
(* Theorems about the two bounded buffers of the firmware.  The serial log, *)
(* for every number of slots, every reserve, every number of levels and     *)
(* every number of messages: the reserve for WARN and ERROR, the order of   *)
(* the lines, and that a begun line finishes.  The one-hour ring, for every *)
(* capacity, every width of millis() and every span of the history: what it *)
(* holds, and what a walk reads while the worker appends.                   *)
(***************************************************************************)
EXTENDS LogQueue, HistoryRing, FiniteSetTheorems, FunctionTheorems, SequenceTheorems, TLAPS

Records == [level : Levels, sent : {0, 1}, id : Nat]

LogTypeOK ==
  /\ queue \in Seq(Records) /\ level \in Levels \cup {Off} /\ writes \in Nat
  /\ ready \in BOOLEAN /\ noticePending \in BOOLEAN /\ open \in BOOLEAN /\ cut \in BOOLEAN
  /\ backpressured \in BOOLEAN
  /\ state \in {"Stopped", "Disabled", "Idle", "Backpressured", "Queued"}

(* Positions of a queue that hold lines less severe than WARN. *)
Low(q) == {i \in 1..Len(q) : q[i].level > Warn}

(* What the calls keep true of a queue after n messages: its lines are in the *)
(* order of writing, only the first may be partly sent, and the reserve holds. *)
Ordered(q, n) == /\ \A i \in 1..Len(q) : q[i].id <= n
                 /\ \A i, j \in 1..Len(q) : i < j => q[i].id < q[j].id /\ q[j].sent = 0
Kept(q, n) == /\ Ordered(q, n)
              /\ Len(q) <= Slots
              /\ Cardinality(Low(q)) <= Slots - Reserved

LineInv == open /\ ~cut => queue # <<>> /\ queue[1].sent = 1

IInv == LogTypeOK /\ Kept(queue, writes) /\ LineInv

-----------------------------------------------------------------------------
(* The least element of a set of numbers, from the well-foundedness of <.     *)
LEMMA LeastNat ==
  ASSUME NEW T \in SUBSET Nat, T # {}
  PROVE  \E x \in T : \A y \in T : x <= y
PROOF
  <1> DEFINE Smaller == {p \in Nat \X Nat : p[1] < p[2]}
  <1>1. IsWellFoundedOn(Smaller, Nat)
    BY NatLessThanWellFounded DEF OpToRel
  <1>2. PICK x \in T : \A y \in T : ~ (<<y, x>> \in Smaller)
    BY <1>1, WFMin
  <1>3. \A y \in T : ~ (y < x)
    BY <1>2
  <1>4. QED
    BY <1>3

LEMMA LowFinite ==
  ASSUME NEW q \in Seq(Records)
  PROVE  /\ IsFiniteSet(Low(q)) /\ Cardinality(Low(q)) \in Nat
         /\ Cardinality(Low(q)) <= Len(q)
PROOF
  <1>1. Len(q) \in Nat
    BY LenProperties
  <1>2. IsFiniteSet(1..Len(q)) /\ Cardinality(1..Len(q)) = Len(q)
    BY SMTT(30), <1>1, FS_Interval
  <1>3. Low(q) \in SUBSET (1..Len(q))
    BY DEF Low
  <1>4. QED
    BY <1>2, <1>3, FS_Subset, FS_CardinalityType

(* The reserve survives when the low lines of a queue are found, one to one,  *)
(* among those of the queue before.                                          *)
LEMMA LowInjects ==
  ASSUME NEW p \in Seq(Records), NEW q \in Seq(Records), NEW f \in [Low(q) -> Low(p)],
         \A a, b \in Low(q) : f[a] = f[b] => a = b
  PROVE  Cardinality(Low(q)) <= Cardinality(Low(p))
  BY LowFinite, Fun_IsInj, FS_Injection

LEMMA WithoutProperties ==
  ASSUME NEW q \in Seq(Records), NEW v \in 1..Len(q)
  PROVE  /\ Without(q, v) \in Seq(Records) /\ Len(Without(q, v)) = Len(q) - 1
         /\ \A i \in 1..Len(q) - 1 : Without(q, v)[i] = IF i < v THEN q[i] ELSE q[i + 1]
PROOF
  <1> DEFINE front == SubSeq(q, 1, v - 1)
             back  == SubSeq(q, v + 1, Len(q))
  <1>1. Len(q) \in Nat /\ \A i \in 1..Len(q) : q[i] \in Records
    BY LenProperties, ElementOfSeq
  <1>2. /\ front \in Seq(Records) /\ Len(front) = v - 1
        /\ \A i \in 1..v - 1 : front[i] = q[i]
    BY <1>1, SubSeqProperties
  <1>3. /\ back \in Seq(Records) /\ Len(back) = Len(q) - v
        /\ \A i \in 1..Len(q) - v : back[i] = q[v + i]
    <2>1. v + 1 \in Int /\ Len(q) \in Int /\ \A i \in v + 1..Len(q) : q[i] \in Records
      BY <1>1
    <2>2. /\ back \in Seq(Records) /\ Len(back) = IF v + 1 <= Len(q) THEN Len(q) - (v + 1) + 1 ELSE 0
          /\ \A i \in 1..Len(q) - (v + 1) + 1 : back[i] = q[v + 1 + i - 1]
      BY <2>1, SubSeqProperties
    <2>3. QED
      BY <1>1, <2>2
  <1>4. /\ front \o back \in Seq(Records) /\ Len(front \o back) = Len(front) + Len(back)
        /\ \A i \in 1..Len(front) + Len(back) :
             (front \o back)[i] = IF i <= Len(front) THEN front[i] ELSE back[i - Len(front)]
    BY <1>2, <1>3, ConcatProperties
  <1>5. Without(q, v) = front \o back
    BY DEF Without
  <1> HIDE DEF front, back
  <1>6. \A i \in 1..Len(q) - 1 : (front \o back)[i] = IF i < v THEN q[i] ELSE q[i + 1]
    <2> SUFFICES ASSUME NEW i \in 1..Len(q) - 1
                 PROVE  (front \o back)[i] = IF i < v THEN q[i] ELSE q[i + 1]
      OBVIOUS
    <2>1. CASE i < v
      BY <1>1, <1>2, <1>3, <1>4, <2>1
    <2>2. CASE i >= v
      <3>1. (front \o back)[i] = back[i - (v - 1)]
        BY <1>1, <1>2, <1>3, <1>4, <2>2
      <3>2. back[i - (v - 1)] = q[v + (i - (v - 1))]
        BY <1>1, <1>3, <2>2
      <3>3. v + (i - (v - 1)) = i + 1
        BY <1>1
      <3>4. QED
        BY <1>1, <2>2, <3>1, <3>2, <3>3
    <2>3. i < v \/ i >= v
      BY <1>1
    <2>4. QED
      BY <2>1, <2>2, <2>3
  <1>7. Len(front \o back) = Len(q) - 1
    BY <1>1, <1>2, <1>3, <1>4
  <1>8. QED
    BY <1>4, <1>5, <1>6, <1>7

-----------------------------------------------------------------------------
(* A new line below its limit. *)
LEMMA AppendKept ==
  ASSUME NEW q \in Seq(Records), NEW n \in Nat, Kept(q, n),
         NEW l \in Levels, Len(q) < Limit(l), NEW r \in Records,
         r.level = l, r.sent = 0, r.id = n + 1
  PROVE  Append(q, r) \in Seq(Records) /\ Kept(Append(q, r), n + 1)
PROOF
  <1> DEFINE new == Append(q, r)
  <1>1. /\ new \in Seq(Records) /\ Len(new) = Len(q) + 1 /\ Len(q) \in Nat
        /\ \A i \in 1..Len(q) : new[i] = q[i] /\ q[i] \in Records
        /\ new[Len(q) + 1] = r
    BY AppendProperties, LenProperties, ElementOfSeq
  <1> HIDE DEF new
  <1>2. Slots \in Nat /\ Reserved \in 1..Slots - 1 /\ l \in Nat
    BY LogAssumption DEF Levels
  <1>3. Len(new) <= Slots /\ (l > Warn => Len(new) <= Slots - Reserved)
    BY <1>1, <1>2 DEF Limit, Warn
  <1>4. Ordered(new, n + 1)
    <2>1. \A i \in 1..Len(new) : new[i].id <= n + 1
      <3>1. TAKE i \in 1..Len(new)
      <3>2. CASE i \in 1..Len(q)
        <4>1. q[i].id <= n /\ q[i].id \in Nat /\ new[i] = q[i]
          BY <1>1, <3>2 DEF Kept, Ordered, Records
        <4>2. QED
          BY <4>1
      <3>3. CASE i \notin 1..Len(q)
        <4>1. i = Len(q) + 1
          BY <1>1, <3>1, <3>3
        <4>2. QED
          BY <1>1, <4>1
      <3>4. QED
        BY <3>2, <3>3
    <2>2. ASSUME NEW i \in 1..Len(new), NEW j \in 1..Len(new), i < j
          PROVE  new[i].id < new[j].id /\ new[j].sent = 0
      <3>1. i \in 1..Len(q) /\ new[i] = q[i] /\ q[i].id \in Nat /\ q[i].id <= n
        <4>1. i \in 1..Len(q)
          BY <1>1, <2>2
        <4>2. q[i] \in Records /\ new[i] = q[i]
          BY <1>1, <4>1
        <4>3. q[i].id <= n
          BY <4>1 DEF Kept, Ordered
        <4>4. QED
          BY <4>1, <4>2, <4>3 DEF Records
      <3>2. CASE j = Len(q) + 1
        BY <1>1, <3>1, <3>2
      <3>3. CASE j # Len(q) + 1
        <4>1. j \in 1..Len(q) /\ new[j] = q[j]
          BY <1>1, <2>2, <3>3
        <4>2. q[i].id < q[j].id /\ q[j].sent = 0
          BY <2>2, <3>1, <4>1 DEF Kept, Ordered
        <4>3. QED
          BY <3>1, <4>1, <4>2
      <3>4. QED
        BY <3>2, <3>3
    <2>3. QED
      BY <2>1, <2>2 DEF Ordered
  <1>5. Cardinality(Low(new)) <= Slots - Reserved
    <2>1. CASE l > Warn
      BY <1>1, <1>2, <1>3, <2>1, LowFinite
    <2>2. CASE ~(l > Warn)
      <3>1. Low(new) = Low(q)
        BY <1>1, <2>2 DEF Low
      <3>2. QED
        BY <3>1 DEF Kept
    <2>3. QED
      BY <2>1, <2>2
  <1>6. QED
    BY <1>1, <1>3, <1>4, <1>5 DEF Kept, new

(* A new line in the place of an unsent, less severe one. *)
LEMMA EvictKept ==
  ASSUME NEW q \in Seq(Records), NEW n \in Nat, Kept(q, n),
         NEW l \in Levels, NEW v \in 1..Len(q), q[v].level > l, NEW r \in Records,
         r.level = l, r.sent = 0, r.id = n + 1
  PROVE  /\ Append(Without(q, v), r) \in Seq(Records) /\ Kept(Append(Without(q, v), r), n + 1)
         /\ v # 1 => Append(Without(q, v), r)[1] = q[1]
PROOF
  <1> DEFINE rest == Without(q, v)
             new  == Append(rest, r)
  <1>1. /\ rest \in Seq(Records) /\ Len(rest) = Len(q) - 1
        /\ \A i \in 1..Len(q) - 1 : rest[i] = IF i < v THEN q[i] ELSE q[i + 1]
    BY WithoutProperties
  <1>2. Len(q) \in Nat /\ \A i \in 1..Len(q) : q[i] \in Records
    BY LenProperties, ElementOfSeq
  <1> HIDE DEF rest
  <1>3. /\ new \in Seq(Records) /\ Len(new) = Len(q)
        /\ \A i \in 1..Len(q) - 1 : new[i] = rest[i]
        /\ new[Len(q)] = r
    <2>1. /\ new \in Seq(Records) /\ Len(new) = Len(rest) + 1
          /\ \A i \in 1..Len(rest) : new[i] = rest[i]
          /\ new[Len(rest) + 1] = r
      BY <1>1, AppendProperties
    <2>2. Len(rest) + 1 = Len(q)
      BY <1>1, <1>2
    <2>3. QED
      BY <1>1, <2>1, <2>2
  <1> HIDE DEF new
  <1> DEFINE was == [i \in 1..Len(q) |-> IF i = Len(q) THEN v ELSE IF i < v THEN i ELSE i + 1]
  <1>4. \A i \in 1..Len(q) : was[i] \in 1..Len(q) /\ (i # Len(q) => new[i] = q[was[i]])
    BY <1>1, <1>2, <1>3
  <1>5. \A i, j \in 1..Len(q) : /\ was[i] = was[j] => i = j
                                /\ i < j /\ j # Len(q) => was[i] < was[j]
    BY <1>2
  <1> HIDE DEF was
  <1>6. Ordered(new, n + 1)
    <2>1. ASSUME NEW i \in 1..Len(q)
          PROVE  new[i].id <= n + 1 /\ (i # Len(q) => new[i].id <= n /\ new[i].id \in Nat)
      <3>1. CASE i = Len(q)
        BY <1>3, <3>1
      <3>2. CASE i # Len(q)
        <4>1. was[i] \in 1..Len(q) /\ new[i] = q[was[i]]
          BY <1>4, <3>2
        <4>2. q[was[i]] \in Records /\ q[was[i]].id <= n
          BY <1>2, <4>1 DEF Kept, Ordered
        <4>3. q[was[i]].id \in Nat
          BY <4>2 DEF Records
        <4>4. QED
          BY <4>1, <4>2, <4>3
      <3>3. QED
        BY <3>1, <3>2
    <2>2. ASSUME NEW i \in 1..Len(q), NEW j \in 1..Len(q), i < j
          PROVE  new[i].id < new[j].id /\ new[j].sent = 0
      <3>1. i # Len(q)
        BY <1>2, <2>2
      <3>2. CASE j = Len(q)
        BY <1>3, <2>1, <3>1, <3>2
      <3>3. CASE j # Len(q)
        <4>1. /\ was[i] \in 1..Len(q) /\ was[j] \in 1..Len(q) /\ was[i] < was[j]
              /\ new[i] = q[was[i]] /\ new[j] = q[was[j]]
          BY <1>4, <1>5, <2>2, <3>1, <3>3
        <4>2. QED
          BY <4>1 DEF Kept, Ordered
      <3>4. QED
        BY <3>2, <3>3
    <2>3. QED
      BY <1>3, <2>1, <2>2 DEF Ordered
  <1>7. Cardinality(Low(new)) <= Slots - Reserved
    <2> DEFINE f == [i \in Low(new) |-> was[i]]
    <2>1. \A i \in Low(new) : i \in 1..Len(q) /\ was[i] \in Low(q)
      <3> SUFFICES ASSUME NEW i \in Low(new) PROVE i \in 1..Len(q) /\ was[i] \in Low(q)
        OBVIOUS
      <3>1. i \in 1..Len(q) /\ new[i].level > Warn
        BY <1>3 DEF Low
      <3>2. CASE i = Len(q)
        <4>1. was[i] = v /\ q[v].level \in Nat /\ l \in Nat /\ l > Warn
          <5>1. was[i] = v
            BY <3>1, <3>2 DEF was
          <5>2. q[v] \in Records
            BY <1>2
          <5>3. q[v].level \in Nat /\ l \in Nat
            BY <5>2, LogAssumption DEF Records, Levels
          <5>4. l > Warn
            BY <1>3, <3>1, <3>2
          <5>5. QED
            BY <5>1, <5>3, <5>4
        <4>2. QED
          BY <3>1, <4>1 DEF Low, Warn
      <3>3. CASE i # Len(q)
        BY <1>4, <3>1, <3>3 DEF Low
      <3>4. QED
        BY <3>2, <3>3
    <2>2. f \in [Low(new) -> Low(q)] /\ \A a, b \in Low(new) : f[a] = f[b] => a = b
      <3>1. f \in [Low(new) -> Low(q)]
        BY <2>1
      <3>2. ASSUME NEW a \in Low(new), NEW b \in Low(new), f[a] = f[b]
            PROVE  a = b
        <4>1. a \in 1..Len(q) /\ b \in 1..Len(q) /\ was[a] = was[b]
          BY <2>1, <3>2
        <4>2. QED
          BY <1>5, <4>1
      <3>3. QED
        BY <3>1, <3>2
    <2>3. Cardinality(Low(new)) <= Cardinality(Low(q))
      BY <1>3, <2>2, LowInjects
    <2>4. Cardinality(Low(new)) \in Nat /\ Cardinality(Low(q)) \in Nat /\ Slots - Reserved \in Int
      BY <1>3, LowFinite, LogAssumption
    <2>5. QED
      BY <2>3, <2>4 DEF Kept
  <1>8. v # 1 => new[1] = q[1]
    <2>1. ASSUME v # 1
          PROVE  new[1] = q[1]
      <3>1. 1 \in 1..Len(q) - 1 /\ 1 < v
        BY <1>2, <2>1
      <3>2. new[1] = rest[1]
        BY <1>3, <3>1
      <3>3. rest[1] = q[1]
        BY <1>1, <3>1
      <3>4. QED
        BY <3>2, <3>3
    <2>2. QED
      BY <2>1
  <1>9. QED
    BY <1>3, <1>6, <1>7, <1>8 DEF Kept, new, rest

(* The oldest line is sent, and one byte of it. *)
LEMMA TailKept ==
  ASSUME NEW q \in Seq(Records), NEW n \in Nat, Kept(q, n), q # <<>>
  PROVE  Tail(q) \in Seq(Records) /\ Kept(Tail(q), n)
PROOF
  <1>1. /\ Tail(q) \in Seq(Records) /\ Len(Tail(q)) = Len(q) - 1 /\ Len(q) \in Nat \ {0}
        /\ \A i \in 1..Len(Tail(q)) : Tail(q)[i] = q[i + 1] /\ i + 1 \in 1..Len(q)
    BY HeadTailProperties, LenProperties, EmptySeq
  <1>2. Ordered(Tail(q), n)
    <2>1. ASSUME NEW i \in 1..Len(Tail(q)), NEW j \in 1..Len(Tail(q)), i < j
          PROVE  Tail(q)[i].id < Tail(q)[j].id /\ Tail(q)[j].sent = 0
      <3>1. i + 1 \in 1..Len(q) /\ j + 1 \in 1..Len(q) /\ i + 1 < j + 1
        BY <1>1, <2>1
      <3>2. QED
        BY <1>1, <3>1 DEF Kept, Ordered
    <2>2. QED
      BY <1>1, <2>1 DEF Kept, Ordered
  <1>3. Cardinality(Low(Tail(q))) <= Cardinality(Low(q))
    <2> DEFINE f == [i \in Low(Tail(q)) |-> i + 1]
    <2>1. f \in [Low(Tail(q)) -> Low(q)]
      BY <1>1 DEF Low
    <2>2. ASSUME NEW a \in Low(Tail(q)), NEW b \in Low(Tail(q)), f[a] = f[b]
          PROVE  a = b
      BY <1>1, <2>2 DEF Low
    <2>3. QED
      BY <1>1, <2>1, <2>2, LowInjects
  <1>4. Cardinality(Low(Tail(q))) \in Nat /\ Cardinality(Low(q)) \in Nat
    BY <1>1, LowFinite
  <1>5. QED
    BY <1>1, <1>2, <1>3, <1>4, LogAssumption DEF Kept

LEMMA SentKept ==
  ASSUME NEW q \in Seq(Records), NEW n \in Nat, Kept(q, n), q # <<>>
  PROVE  /\ [q EXCEPT ![1].sent = 1] \in Seq(Records) /\ Kept([q EXCEPT ![1].sent = 1], n)
         /\ [q EXCEPT ![1].sent = 1] # <<>> /\ [q EXCEPT ![1].sent = 1][1].sent = 1
PROOF
  <1> DEFINE e   == [q[1] EXCEPT !.sent = 1]
             new == [q EXCEPT ![1] = e]
  <1>1. Len(q) \in Nat \ {0} /\ 1 \in 1..Len(q) /\ q[1] \in Records
    BY LenProperties, EmptySeq, ElementOfSeq
  <1>2. e \in Records /\ e.sent = 1 /\ e.id = q[1].id /\ e.level = q[1].level
    BY <1>1 DEF Records
  <1>3. new = [q EXCEPT ![1].sent = 1]
    OBVIOUS
  <1> HIDE DEF e
  <1>4. /\ new \in Seq(Records) /\ Len(new) = Len(q)
        /\ \A i \in 1..Len(q) : new[i] = IF i = 1 THEN e ELSE q[i]
    BY <1>1, <1>2, ExceptSeq
  <1> HIDE DEF new
  <1>5. \A i \in 1..Len(q) : /\ new[i].id = q[i].id /\ new[i].level = q[i].level
                             /\ i # 1 => new[i].sent = q[i].sent
    BY <1>2, <1>4
  <1>6. new # <<>> /\ new[1].sent = 1
    BY <1>1, <1>2, <1>4, EmptySeq
  <1>7. Ordered(new, n)
    <2>1. ASSUME NEW i \in 1..Len(q), NEW j \in 1..Len(q), i < j
          PROVE  new[i].id < new[j].id /\ new[j].sent = 0
      <3>1. j # 1
        BY <1>1, <2>1
      <3>2. q[i].id < q[j].id /\ q[j].sent = 0
        BY <2>1 DEF Kept, Ordered
      <3>3. QED
        BY <1>5, <3>1, <3>2
    <2>2. \A i \in 1..Len(q) : new[i].id <= n
      BY <1>5 DEF Kept, Ordered
    <2>3. QED
      BY <1>4, <2>1, <2>2 DEF Ordered
  <1>8. Low(new) = Low(q)
    BY <1>4, <1>5 DEF Low
  <1>9. Kept(new, n)
    BY <1>4, <1>7, <1>8 DEF Kept
  <1>10. QED
    BY <1>3, <1>4, <1>6, <1>9

LEMMA EmptyKept == \A n \in Nat : Kept(<<>>, n)
PROOF
  <1>1. Len(<<>>) = 0 /\ 1..0 = {}
    BY EmptySeq
  <1>2. Low(<<>>) = {} /\ Cardinality({}) = 0
    BY <1>1, FS_EmptySet DEF Low
  <1>3. \A n \in Nat : Ordered(<<>>, n)
    BY <1>1 DEF Ordered
  <1>4. 0 <= Slots /\ 0 <= Slots - Reserved
    BY LogAssumption
  <1>5. Len(<<>>) <= Slots /\ Cardinality(Low(<<>>)) <= Slots - Reserved
    BY <1>1, <1>2, <1>4
  <1>6. QED
    BY <1>3, <1>5 DEF Kept

(* logMakeRoom finds a line to drop whenever there is one. *)
LEMMA VictimExists ==
  ASSUME LogTypeOK, NEW l \in Levels, Victims(l) # {}
  PROVE  Victim(l) \in 1..Len(queue) /\ queue[Victim(l)].sent = 0 /\ queue[Victim(l)].level > l
PROOF
  <1>1. /\ Len(queue) \in Nat /\ DOMAIN queue = 1..Len(queue)
        /\ \A i \in 1..Len(queue) : queue[i] \in Records
    BY LenProperties, ElementOfSeq DEF LogTypeOK
  <1>2. \A i \in Victims(l) : /\ i \in 1..Len(queue) /\ queue[i].level \in 1..Trace
                              /\ Trace - queue[i].level \in Nat
    <2> SUFFICES ASSUME NEW i \in Victims(l)
                 PROVE  /\ i \in 1..Len(queue) /\ queue[i].level \in 1..Trace
                        /\ Trace - queue[i].level \in Nat
      OBVIOUS
    <2>1. i \in 1..Len(queue)
      BY <1>1 DEF Victims
    <2>2. queue[i].level \in 1..Trace
      BY <1>1, <2>1 DEF Records, Levels
    <2>3. QED
      BY <2>1, <2>2, LogAssumption
  <1> DEFINE ranks == {Trace - queue[i].level : i \in Victims(l)}
  <1>3. PICK x \in ranks : \A y \in ranks : x <= y
    <2>1. ranks \in SUBSET Nat /\ ranks # {}
      BY <1>2
    <2>2. QED
      BY <2>1, LeastNat
  <1> DEFINE worst == {i \in Victims(l) : Trace - queue[i].level = x}
  <1>4. PICK v \in worst : \A j \in worst : v <= j
    <2>1. worst \in SUBSET Nat /\ worst # {}
      BY <1>2
    <2>2. QED
      BY <2>1, LeastNat
  <1>5. v \in Victims(l) /\ Trace - queue[v].level = x
    OBVIOUS
  <1>6. ASSUME NEW j \in Victims(l)
        PROVE  queue[j].level < queue[v].level \/ (queue[j].level = queue[v].level /\ v <= j)
    <2>1. x <= Trace - queue[j].level
      BY <1>3
    <2>2. CASE Trace - queue[j].level = x
      <3>1. v <= j
        BY <1>4, <2>2
      <3>2. queue[j].level = queue[v].level
        <4>1. queue[j].level \in 1..Trace /\ queue[v].level \in 1..Trace /\ Trace \in Nat
          BY <1>2, <1>5, LogAssumption
        <4>2. \A a, b \in 1..Trace : Trace - a = Trace - b => a = b
          BY <4>1
        <4>3. QED
          BY <1>5, <2>2, <4>1, <4>2
      <3>3. QED
        BY <3>1, <3>2
    <2>3. CASE Trace - queue[j].level # x
      <3>1. queue[j].level \in 1..Trace /\ queue[v].level \in 1..Trace /\ Trace \in Nat
        BY <1>2, <1>5, LogAssumption
      <3>2. \A a, b \in 1..Trace : Trace - b <= Trace - a /\ Trace - a # Trace - b => a < b
        BY <3>1
      <3>3. QED
        BY <1>5, <2>1, <2>3, <3>1, <3>2
    <2>4. QED
      BY <2>2, <2>3
  <1>7. Victim(l) \in Victims(l)
    BY <1>5, <1>6 DEF Victim
  <1>8. QED
    BY <1>1, <1>7 DEF Victims

-----------------------------------------------------------------------------
LEMMA InitIInv == Init => IInv
PROOF
  <1> SUFFICES ASSUME Init PROVE IInv
    OBVIOUS
  <1>1. <<>> \in Seq(Records)
    BY EmptySeq
  <1>2. LogTypeOK
    <2>1. level \in Levels
      BY LogAssumption DEF Init, Levels
    <2>2. QED
      BY <1>1, <2>1 DEF Init, LogTypeOK
  <1>3. Kept(queue, writes) /\ LineInv
    BY EmptyKept DEF Init, LineInv
  <1>4. QED
    BY <1>2, <1>3 DEF IInv

(* Every call settles the cached state. *)
LEMMA StateTypeOK ==
  ASSUME NEW backed \in BOOLEAN, UpdateState(backed)
  PROVE  /\ state' \in {"Stopped", "Disabled", "Idle", "Backpressured", "Queued"}
         /\ backpressured' \in BOOLEAN
  BY DEF UpdateState

LEMMA WriteIInv ==
  ASSUME IInv, NEW l \in Levels, Write(l)
  PROVE  IInv'
PROOF
  <1>0. /\ LogTypeOK /\ Kept(queue, writes) /\ LineInv
        /\ queue \in Seq(Records) /\ writes \in Nat
    BY DEF IInv, LogTypeOK
  <1>1. /\ writes' = writes + 1 /\ UNCHANGED <<level, ready, open, cut>>
        /\ UpdateState(backpressured)
    BY DEF Write
  <1>2. Record(l) \in Records /\ Record(l).level = l /\ Record(l).sent = 0 /\ Record(l).id = writes + 1
    BY <1>0 DEF Record, Records
  <1>3. /\ queue' \in Seq(Records) /\ Kept(queue', writes') /\ noticePending' \in BOOLEAN
        /\ open /\ ~cut => queue' # <<>> /\ queue'[1].sent = 1
    <2>1. CASE Len(queue) < Limit(l) /\ queue' = Append(queue, Record(l)) /\ UNCHANGED noticePending
      <3>1. Append(queue, Record(l)) \in Seq(Records) /\ Kept(Append(queue, Record(l)), writes + 1)
        BY <1>0, <1>2, <2>1, AppendKept
      <3>2. open /\ ~cut => queue' # <<>> /\ queue'[1] = queue[1]
        <4>1. queue # <<>> => Len(queue) \in Nat \ {0}
          BY <1>0, EmptySeq
        <4>2. /\ Append(queue, Record(l)) # <<>>
              /\ \A i \in 1..Len(queue) : Append(queue, Record(l))[i] = queue[i]
          BY <1>0, <1>2, AppendProperties
        <4>3. QED
          BY <1>0, <2>1, <4>1, <4>2 DEF LineInv
      <3>3. QED
        BY <1>0, <1>1, <2>1, <3>1, <3>2 DEF LogTypeOK, LineInv
    <2>2. CASE /\ Victims(l) # {} /\ noticePending' = TRUE
               /\ queue' = Append(Without(queue, Victim(l)), Record(l))
      <3>1. /\ Victim(l) \in 1..Len(queue) /\ queue[Victim(l)].sent = 0
            /\ queue[Victim(l)].level > l
        BY <1>0, <2>2, VictimExists
      <3>2. /\ queue' \in Seq(Records) /\ Kept(queue', writes + 1)
            /\ Victim(l) # 1 => queue'[1] = queue[1]
        BY <1>0, <1>2, <2>2, <3>1, EvictKept
      <3>3. queue' # <<>>
        <4>1. Without(queue, Victim(l)) \in Seq(Records)
          BY <1>0, <3>1, WithoutProperties
        <4>2. QED
          BY <1>2, <2>2, <4>1, AppendProperties
      <3>4. open /\ ~cut => Victim(l) # 1
        BY <1>0, <3>1 DEF LineInv
      <3>5. QED
        BY <1>0, <1>1, <2>2, <3>2, <3>3, <3>4 DEF LineInv
    <2>3. CASE noticePending' = TRUE /\ UNCHANGED queue
      <3>1. \A i \in 1..Len(queue) : queue[i].id \in Nat
        <4>1. \A i \in 1..Len(queue) : queue[i] \in Records
          BY <1>0, ElementOfSeq
        <4>2. QED
          BY <4>1 DEF Records
      <3>2. \A i \in 1..Len(queue) : queue[i].id <= writes + 1
        BY <1>0, <3>1 DEF Kept, Ordered
      <3>3. Kept(queue, writes + 1)
        BY <1>0, <3>2 DEF Kept, Ordered
      <3>4. QED
        BY <1>0, <1>1, <2>3, <3>3 DEF LineInv
    <2>4. QED
      BY <2>1, <2>2, <2>3 DEF Write
  <1>4. LogTypeOK'
    <2>1. backpressured \in BOOLEAN
      BY <1>0 DEF LogTypeOK
    <2>2. /\ state' \in {"Stopped", "Disabled", "Idle", "Backpressured", "Queued"}
          /\ backpressured' \in BOOLEAN
      BY <1>1, <2>1, StateTypeOK
    <2>3. QED
      BY <1>0, <1>1, <1>3, <2>2 DEF LogTypeOK
  <1>5. LineInv'
    BY <1>1, <1>3 DEF LineInv
  <1>6. QED
    BY <1>3, <1>4, <1>5 DEF IInv

LEMMA NoticeIInv ==
  ASSUME IInv, Notice
  PROVE  IInv'
PROOF
  <1>0. /\ LogTypeOK /\ Kept(queue, writes) /\ LineInv
        /\ queue \in Seq(Records) /\ writes \in Nat /\ backpressured \in BOOLEAN
    BY DEF IInv, LogTypeOK
  <1> DEFINE line == [level |-> Warn, sent |-> 0, id |-> writes]
  <1>1. /\ queue = <<>> /\ queue' \in {<<>>, <<line>>} /\ noticePending' = FALSE
        /\ UNCHANGED <<level, ready, writes, open, cut>> /\ UpdateState(backpressured)
    BY DEF Notice, Cleared
  <1>2. line \in Records
    BY <1>0, LogAssumption DEF Records, Levels, Warn
  <1>3. Kept(<<>>, writes)
    BY <1>0, EmptyKept
  <1>4. <<line>> \in Seq(Records) /\ Kept(<<line>>, writes)
    <2>1. <<line>> \in Seq(Records) /\ Len(<<line>>) = 1 /\ <<line>>[1] = line
      BY <1>2
    <2>2. Ordered(<<line>>, writes)
      BY <1>0, <2>1 DEF Ordered
    <2>3. Low(<<line>>) = {}
      BY <2>1 DEF Low, Warn
    <2>4. 1 <= Slots /\ 0 <= Slots - Reserved
      BY LogAssumption
    <2>5. QED
      BY <2>1, <2>2, <2>3, <2>4, FS_EmptySet DEF Kept
  <1>5. queue' \in Seq(Records) /\ Kept(queue', writes')
    BY <1>1, <1>3, <1>4, EmptySeq
  <1>6. LogTypeOK'
    <2>1. /\ state' \in {"Stopped", "Disabled", "Idle", "Backpressured", "Queued"}
          /\ backpressured' \in BOOLEAN
      BY <1>0, <1>1, StateTypeOK
    <2>2. QED
      BY <1>0, <1>1, <1>5, <2>1 DEF LogTypeOK
  <1>7. LineInv'
    BY <1>0, <1>1 DEF LineInv
  <1>8. QED
    BY <1>5, <1>6, <1>7 DEF IInv

LEMMA ByteIInv ==
  ASSUME IInv, Byte
  PROVE  IInv'
PROOF
  <1>0. /\ LogTypeOK /\ Kept(queue, writes) /\ LineInv
        /\ queue \in Seq(Records) /\ writes \in Nat
    BY DEF IInv, LogTypeOK
  <1>1. /\ queue # <<>> /\ cut' = FALSE
        /\ UNCHANGED <<level, ready, noticePending, writes>> /\ UpdateState(FALSE)
    BY DEF Byte
  <1>2. /\ queue' \in Seq(Records) /\ Kept(queue', writes) /\ open' \in BOOLEAN
        /\ open' => queue' # <<>> /\ queue'[1].sent = 1
    <2>1. CASE queue' = [queue EXCEPT ![1].sent = 1] /\ open' = TRUE
      BY <1>0, <1>1, <2>1, SentKept
    <2>2. CASE queue' = Tail(queue) /\ open' = FALSE
      BY <1>0, <1>1, <2>2, TailKept
    <2>3. QED
      BY <2>1, <2>2 DEF Byte
  <1>3. LogTypeOK'
    <2>1. /\ state' \in {"Stopped", "Disabled", "Idle", "Backpressured", "Queued"}
          /\ backpressured' \in BOOLEAN
      BY <1>1, StateTypeOK
    <2>2. QED
      BY <1>0, <1>1, <1>2, <2>1 DEF LogTypeOK
  <1>4. LineInv'
    BY <1>2 DEF LineInv
  <1>5. QED
    BY <1>1, <1>2, <1>3, <1>4 DEF IInv

(* Only OFF touches the queue here, and empties it. *)
LEMMA CallIInv ==
  ASSUME IInv, Begin \/ Blocked \/ \E l \in Levels \cup {Off} : SetLevel(l)
  PROVE  IInv'
PROOF
  <1>0. /\ LogTypeOK /\ Kept(queue, writes) /\ LineInv /\ writes \in Nat /\ backpressured \in BOOLEAN
    BY DEF IInv, LogTypeOK
  <1>1. PICK backed \in BOOLEAN : UpdateState(backed)
    BY <1>0 DEF Begin, Blocked, SetLevel
  <1>2. /\ state' \in {"Stopped", "Disabled", "Idle", "Backpressured", "Queued"}
        /\ backpressured' \in BOOLEAN
    BY <1>1, StateTypeOK
  <1>3. CASE Begin \/ Blocked
    <2>1. UNCHANGED <<queue, level, noticePending, writes, open, cut>> /\ ready' \in BOOLEAN
      BY <1>0, <1>3 DEF Begin, Blocked, LogTypeOK
    <2>2. LogTypeOK'
      BY <1>0, <1>2, <2>1 DEF LogTypeOK
    <2>3. QED
      BY <1>0, <2>1, <2>2 DEF IInv, LineInv
  <1>4. CASE \E l \in Levels \cup {Off} : SetLevel(l)
    <2>1. PICK l \in Levels \cup {Off} : SetLevel(l)
      BY <1>4
    <2>2. level' \in Levels \cup {Off} /\ UNCHANGED <<ready, writes, open>>
      BY <2>1 DEF SetLevel
    <2>3. CASE queue' = <<>> /\ noticePending' = FALSE /\ cut' = open
      <3>1. queue' \in Seq(Records) /\ Kept(queue', writes)
        BY <1>0, <2>3, EmptySeq, EmptyKept
      <3>2. LogTypeOK'
        BY <1>0, <1>2, <2>2, <2>3, <3>1 DEF LogTypeOK
      <3>3. QED
        BY <2>2, <2>3, <3>1, <3>2 DEF IInv, LineInv
    <2>4. CASE UNCHANGED <<queue, noticePending, cut>>
      <3>1. LogTypeOK'
        BY <1>0, <1>2, <2>2, <2>4 DEF LogTypeOK
      <3>2. QED
        BY <1>0, <2>2, <2>4, <3>1 DEF IInv, LineInv
    <2>5. QED
      BY <2>1, <2>3, <2>4 DEF SetLevel
  <1>5. QED
    BY <1>3, <1>4

LEMMA NextIInv == IInv /\ [Next]_vars => IInv'
PROOF
  <1> SUFFICES ASSUME IInv, [Next]_vars PROVE IInv'
    OBVIOUS
  <1>1. CASE UNCHANGED vars
    BY <1>1 DEF vars, IInv, LogTypeOK, LineInv
  <1>2. CASE Next
    BY <1>2, WriteIInv, NoticeIInv, ByteIInv, CallIInv DEF Next
  <1>3. QED
    BY <1>1, <1>2

-----------------------------------------------------------------------------
(* What logWrite, logSetLevel and logPump keep true of the queue and of the   *)
(* line on the wire, at every step.                                          *)
THEOREM LogInvariant == Spec => []IInv
  BY InitIInv, NextIInv, PTL DEF Spec

LEMMA IInvImplies == IInv => ReserveIsKept /\ BegunLinesFinish
PROOF
  <1> SUFFICES ASSUME IInv PROVE ReserveIsKept /\ BegunLinesFinish
    OBVIOUS
  <1>1. DOMAIN queue = 1..Len(queue)
    BY LenProperties DEF IInv, LogTypeOK
  <1>2. Low(queue) = {i \in DOMAIN queue : queue[i].level > Warn}
    BY <1>1 DEF Low
  <1>3. ReserveIsKept
    BY <1>1, <1>2 DEF IInv, Kept, Ordered, ReserveIsKept
  <1>4. BegunLinesFinish
    BY DEF IInv, LineInv, LogTypeOK, BegunLinesFinish
  <1>5. QED
    BY <1>3, <1>4

(* INFO and less severe lines never hold the reserved slots and lines stay in *)
(* the order they were written in, however writes, evictions in logMakeRoom,  *)
(* levels and partial sends alternate.                                       *)
THEOREM ReserveKept == Spec => []ReserveIsKept
  BY LogInvariant, IInvImplies, PTL

(* A line that logPump has begun is finished before another begins; only OFF  *)
(* cuts it.                                                                  *)
THEOREM BegunLinesFinished == Spec => []BegunLinesFinish
  BY LogInvariant, IInvImplies, PTL
-----------------------------------------------------------------------------
(***************************************************************************)
(* The one-hour ring.                                                      *)
(***************************************************************************)
Times == 0 .. Wrap - 1
At(n) == history[Slot(n - 1)]

RingTypeOK ==
  /\ now \in Times /\ idle \in 0 .. MaxPause
  /\ history \in [0 .. Capacity - 1 -> Times] /\ nextRecord \in 0 .. Capacity - 1
  /\ recordCount \in 0 .. Capacity /\ generation \in Nat /\ recordPending \in BOOLEAN
  /\ writer \in {"idle", "measured", "admitted", "committed"} /\ acquired \in Times
  /\ reader \in {"idle", "exchanged", "timed", "counted", "walking", "judging"}
  /\ readGeneration \in Nat /\ started \in Times /\ count \in 0 .. Capacity
  /\ seen \in Seq(Times) /\ live \in Seq(Times) /\ covered \in Nat

(* Older records lie further back, and a prune is never far away. *)
Rising(t, k) == \A n, m \in 1 .. k : n < m => Age(t, At(n)) < Age(t, At(m))
RecordsInv == /\ \A n \in 1 .. recordCount : Age(now, At(n)) < HistoryMs + idle
              /\ Rising(now, recordCount)

(* The young records are the live ones. *)
LiveInv == /\ Len(live) <= recordCount
           /\ \A n \in 1 .. recordCount : IF n <= Len(live) THEN live[n] = At(n) /\ Age(now, At(n)) < HistoryMs
                                                        ELSE Age(now, At(n)) >= HistoryMs

(* What the worker holds is no older than what was committed. *)
HeldInv == writer \in {"measured", "admitted"} =>
             /\ Age(now, acquired) <= MaxHold
             /\ \A n \in 1 .. recordCount : Age(now, acquired) <= Age(now, At(n))

(* A walk that was not overtaken sees the records as they were at its start. *)
WalkInv ==
  /\ readGeneration <= generation
  /\ reader \in {"counted", "walking", "judging"} /\ ~Superseded =>
       /\ Rising(started, IF reader = "counted" THEN recordCount ELSE count)
       /\ \A n \in 1 .. Len(live) : Age(started, At(n)) < HistoryMs
       /\ reader # "counted" => /\ Len(live) <= count /\ Len(seen) <= count
                                /\ \A n \in 1 .. Len(seen) : seen[n] = At(n)
       /\ reader = "judging" => Len(live) <= Len(seen)

(* A reading that no walk has covered is known to the worker or the scheduler. *)
Noticed == covered # generation => recordPending \/ writer = "committed" \/ reader # "idle"

RingInv == RingTypeOK /\ RecordsInv /\ LiveInv /\ HeldInv /\ WalkInv /\ Noticed
-----------------------------------------------------------------------------
LEMMA RingConstants ==
  /\ Capacity \in Nat /\ Capacity > 0 /\ HistoryMs \in Nat /\ HistoryMs > 0 /\ MaxPause \in Nat /\ MaxPause > 0
  /\ MaxHold \in Nat /\ MaxHold < HistoryMs /\ Wrap \in Nat /\ HistoryMs + MaxPause < Wrap
  BY RingAssumption

LEMMA AgeIs ==
  ASSUME NEW t \in Times, NEW a \in Times
  PROVE  /\ Age(t, a) = IF t >= a THEN t - a ELSE t - a + Wrap
         /\ Age(t, a) \in Times /\ Age(t, a) \in Nat
         /\ Age(t, t) = 0
  BY RingConstants DEF Age, Times

LEMMA AgeTicks ==
  ASSUME NEW t \in Times, NEW a \in Times, Age(t, a) + 1 < Wrap
  PROVE  (t + 1) % Wrap \in Times /\ Age((t + 1) % Wrap, a) = Age(t, a) + 1
PROOF
  <1>1. Age(t, a) = IF t >= a THEN t - a ELSE t - a + Wrap
    BY AgeIs
  <1>2. (t + 1) % Wrap = (IF t + 1 < Wrap THEN t + 1 ELSE 0) /\ (t + 1) % Wrap \in Times
    BY RingConstants DEF Times
  <1>3. LET u == (t + 1) % Wrap IN Age(u, a) = IF u >= a THEN u - a ELSE u - a + Wrap
    BY <1>2, AgeIs
  <1>4. QED
    BY <1>1, <1>2, <1>3, RingConstants DEF Times

LEMMA SlotFormula ==
  ASSUME NEW p \in 0 .. Capacity - 1, NEW k \in 0 .. Capacity - 1
  PROVE  (p + Capacity - 1 - k) % Capacity = IF p > k THEN p - 1 - k ELSE p - 1 - k + Capacity
  BY RingConstants

LEMMA SlotIs ==
  ASSUME nextRecord \in 0 .. Capacity - 1, NEW k \in 0 .. Capacity - 1
  PROVE  /\ Slot(k) = IF nextRecord > k THEN nextRecord - 1 - k ELSE nextRecord - 1 - k + Capacity
         /\ Slot(k) \in 0 .. Capacity - 1
  BY RingConstants DEF Slot

LEMMA AtIs ==
  ASSUME RingTypeOK, NEW n \in 1 .. Capacity
  PROVE  At(n) \in Times
PROOF
  <1>1. n - 1 \in 0 .. Capacity - 1
    BY RingConstants
  <1>2. Slot(n - 1) \in 0 .. Capacity - 1
    BY <1>1, SlotIs DEF RingTypeOK
  <1>3. QED
    BY <1>2 DEF RingTypeOK, At

LEMMA PrunedIs ==
  ASSUME RingTypeOK, LiveInv
  PROVE  Pruned = Len(live) /\ Len(live) \in 0 .. recordCount
PROOF
  <1>1. Len(live) \in Nat /\ Len(live) <= recordCount /\ recordCount \in Nat /\ recordCount <= Capacity
    BY RingConstants, LenProperties DEF RingTypeOK, LiveInv
  <1>2. \A n \in 1 .. recordCount : Age(now, At(n)) \in Nat
    <2>1. TAKE n \in 1 .. recordCount
    <2>2. n \in 1 .. Capacity
      BY <1>1, RingConstants
    <2>3. At(n) \in Times /\ now \in Times
      BY <2>2, AtIs DEF RingTypeOK
    <2>4. QED
      BY <2>3, AgeIs
  <1>3. Young = 1 .. Len(live)
    BY <1>1, <1>2, RingConstants DEF LiveInv, Young, Expired, At
  <1>4. CASE Len(live) = 0
    BY <1>1, <1>3, <1>4 DEF Pruned
  <1>5. CASE Len(live) # 0
    <2>1. Len(live) \in Young /\ \A k \in Young : k <= Len(live)
      BY <1>1, <1>3, <1>5
    <2>2. \A n \in Young : (\A k \in Young : k <= n) => n = Len(live)
      BY <1>1, <1>3, <2>1
    <2>3. QED
      BY <1>1, <2>1, <2>2 DEF Pruned
  <1>6. QED
    BY <1>1, <1>4, <1>5

LEMMA SameRecords ==
  ASSUME UNCHANGED <<history, nextRecord>>
  PROVE  /\ \A n : At(n)' = At(n)
         /\ \A t, k : Rising(t, k)' <=> Rising(t, k)
PROOF
  <1>1. history' = history /\ nextRecord' = nextRecord
    OBVIOUS
  <1>2. \A k : Slot(k)' = Slot(k)
    BY <1>1 DEF Slot
  <1>3. \A n : At(n)' = At(n)
    BY <1>1, <1>2 DEF At
  <1>4. QED
    BY <1>3 DEF Rising, Age

LEMMA InitRing == RingInit => RingInv
PROOF
  <1> SUFFICES ASSUME RingInit PROVE RingInv
    OBVIOUS
  <1>1. 0 \in Times
    BY RingConstants DEF Times
  <1>2. seen \in Seq(Times) /\ live \in Seq(Times) /\ Len(live) = 0
    BY EmptySeq DEF RingInit
  <1>3. history \in [0 .. Capacity - 1 -> Times] /\ nextRecord \in 0 .. Capacity - 1
    BY <1>1, RingConstants DEF RingInit
  <1>4. RingTypeOK
    <2>1. now \in Times /\ acquired \in Times /\ started \in Times
      BY <1>1 DEF RingInit
    <2>2. idle \in 0 .. MaxPause /\ recordCount \in 0 .. Capacity /\ count \in 0 .. Capacity
      BY RingConstants DEF RingInit
    <2>3. generation \in Nat /\ readGeneration \in Nat /\ covered \in Nat /\ recordPending \in BOOLEAN
      BY DEF RingInit
    <2>4. writer = "idle" /\ reader = "idle"
      BY DEF RingInit
    <2>5. QED
      BY <1>2, <1>3, <2>1, <2>2, <2>3, <2>4 DEF RingTypeOK
  <1>5. RecordsInv /\ LiveInv
    BY <1>2 DEF RingInit, RecordsInv, Rising, LiveInv
  <1>6. HeldInv /\ WalkInv /\ Noticed
    BY DEF RingInit, HeldInv, WalkInv, Noticed
  <1>7. QED
    BY <1>4, <1>5, <1>6 DEF RingInv
-----------------------------------------------------------------------------
(* What is common to the steps. *)
LEMMA AgesAreNumbers ==
  ASSUME RingTypeOK
  PROVE  \A n \in 1 .. recordCount : At(n) \in Times /\ Age(now, At(n)) \in Times
PROOF
  <1>1. TAKE n \in 1 .. recordCount
  <1>2. n \in 1 .. Capacity /\ now \in Times
    BY RingConstants DEF RingTypeOK
  <1>3. At(n) \in Times
    BY <1>2, AtIs
  <1>4. QED
    BY <1>2, <1>3, AgeIs

LEMMA RecordsKept ==
  ASSUME RingInv, UNCHANGED <<now, idle, history, nextRecord, recordCount, live>>
  PROVE  RecordsInv' /\ LiveInv'
PROOF
  <1>1. \A n : At(n)' = At(n)
    BY SameRecords
  <1>2. \A t, k : Rising(t, k)' <=> Rising(t, k)
    BY SameRecords
  <1>3. now' = now /\ idle' = idle /\ recordCount' = recordCount /\ live' = live
    OBVIOUS
  <1>4. \A n : Age(now, At(n))' = Age(now, At(n))
    BY <1>1, <1>3 DEF Age
  <1>5. Rising(now, recordCount)' <=> Rising(now, recordCount)
    BY <1>3, <1>4 DEF Rising
  <1>6. QED
    BY <1>1, <1>3, <1>4, <1>5 DEF RingInv, RecordsInv, LiveInv

LEMMA RecordsPruned ==
  ASSUME RingInv, Prunes, UNCHANGED <<now, history, nextRecord, live>>
  PROVE  /\ recordCount' = Len(live) /\ recordCount' <= recordCount
         /\ recordCount' \in 0 .. Capacity /\ idle' = 0
         /\ RecordsInv' /\ LiveInv'
PROOF
  <1>1. Pruned = Len(live) /\ Len(live) \in 0 .. recordCount /\ recordCount \in 0 .. Capacity
    BY PrunedIs DEF RingInv, RingTypeOK
  <1>2. recordCount' = Len(live) /\ idle' = 0 /\ now' = now /\ live' = live
    BY <1>1 DEF Prunes
  <1>3. recordCount' <= recordCount /\ recordCount' \in 0 .. Capacity
    BY <1>1, <1>2, RingConstants
  <1>4. \A n : At(n)' = At(n)
    BY SameRecords
  <1>5. \A n : Age(now, At(n))' = Age(now, At(n))
    BY <1>2, <1>4 DEF Age
  <1>6. \A n \in 1 .. recordCount' : n \in 1 .. recordCount /\ n <= Len(live)
    BY <1>1, <1>2
  <1>7. RecordsInv'
    <2>1. \A n \in 1 .. recordCount' : Age(now, At(n))' < HistoryMs + idle'
      BY <1>2, <1>5, <1>6, RingConstants DEF RingInv, LiveInv
    <2>2. Rising(now, recordCount)'
      BY <1>5, <1>6 DEF RingInv, RecordsInv, Rising
    <2>3. QED
      BY <2>1, <2>2 DEF RecordsInv
  <1>8. LiveInv'
    BY <1>1, <1>2, <1>4, <1>5, <1>6 DEF RingInv, LiveInv
  <1>9. QED
    BY <1>2, <1>3, <1>7, <1>8

LEMMA HeldKept ==
  ASSUME RingInv, UNCHANGED <<now, history, nextRecord, writer, acquired>>,
         recordCount' \in Nat, recordCount' <= recordCount
  PROVE  HeldInv'
PROOF
  <1>1. \A n : Age(now, At(n))' = Age(now, At(n))
    BY SameRecords DEF Age
  <1>2. \A n \in 1 .. recordCount' : n \in 1 .. recordCount
    BY DEF RingInv, RingTypeOK
  <1>3. Age(now, acquired)' = Age(now, acquired)
    BY DEF Age
  <1>4. QED
    BY <1>1, <1>2, <1>3 DEF RingInv, HeldInv

LEMMA WalkKept ==
  ASSUME RingInv, UNCHANGED <<history, nextRecord, generation, reader, readGeneration, started, count, seen>>,
         recordCount' \in Nat, recordCount' <= recordCount, Len(live') \in Nat, Len(live') <= Len(live)
  PROVE  WalkInv'
PROOF
  <1>1. \A n : At(n)' = At(n)
    BY SameRecords
  <1>2. \A n : Age(started, At(n))' = Age(started, At(n))
    BY <1>1 DEF Age
  <1>3. Len(live) \in Nat /\ Len(seen) \in Nat /\ count \in Nat /\ recordCount \in Nat
    BY LenProperties DEF RingInv, RingTypeOK
  <1>4. Superseded' <=> Superseded
    BY DEF Superseded
  <1>5. \A n \in 1 .. Len(live') : n \in 1 .. Len(live)
    BY <1>3
  <1>6. SUFFICES ASSUME reader \in {"counted", "walking", "judging"}, ~Superseded PROVE WalkInv'
    BY <1>4 DEF RingInv, WalkInv
  <1>7. Rising(started, IF reader = "counted" THEN recordCount ELSE count)'
    <2>1. \A n \in 1 .. recordCount' : n \in 1 .. recordCount
      BY <1>3
    <2>2. Rising(started, IF reader = "counted" THEN recordCount ELSE count)
      BY <1>6 DEF RingInv, WalkInv
    <2>3. CASE reader = "counted"
      BY <1>2, <2>1, <2>2, <2>3 DEF Rising
    <2>4. CASE reader # "counted"
      BY <1>2, <2>2, <2>4 DEF Rising
    <2>5. QED
      BY <2>3, <2>4
  <1>8. \A n \in 1 .. Len(live') : Age(started, At(n))' < HistoryMs
    BY <1>2, <1>5, <1>6 DEF RingInv, WalkInv
  <1>9. reader # "counted" => /\ Len(live') <= count /\ Len(seen) <= count
                              /\ \A n \in 1 .. Len(seen) : seen[n] = At(n)'
    BY <1>1, <1>3, <1>6 DEF RingInv, WalkInv
  <1>10. reader = "judging" => Len(live') <= Len(seen)
    BY <1>3, <1>6 DEF RingInv, WalkInv
  <1>11. readGeneration' <= generation'
    BY DEF RingInv, WalkInv
  <1>12. QED
    BY <1>7, <1>8, <1>9, <1>10, <1>11 DEF WalkInv
-----------------------------------------------------------------------------
(* One lemma per step. *)
LEMMA TickStep ==
  ASSUME RingInv, Tick
  PROVE  RingInv'
PROOF
  <1> DEFINE L == Len(live)
             young == {k \in DOMAIN live : ~Expired(now', live[k])}
  <1> USE RingConstants
  <1>1. RingTypeOK /\ RecordsInv /\ LiveInv /\ HeldInv /\ WalkInv /\ Noticed
    BY DEF RingInv
  <1>2. /\ idle \in Nat /\ idle < MaxPause /\ idle' = idle + 1 /\ now' = (now + 1) % Wrap
        /\ live' = [n \in young |-> live[n]]
        /\ UNCHANGED <<history, nextRecord, recordCount, generation, recordPending, writer, acquired,
                       reader, readGeneration, started, count, seen, covered>>
    BY <1>1 DEF Tick, RingTypeOK, ring, walk
  <1>3. L \in Nat /\ DOMAIN live = 1 .. L /\ L <= recordCount /\ recordCount \in Nat /\ live \in [1 .. L -> Times]
    BY <1>1, LenProperties DEF RingTypeOK, LiveInv
  <1>4. \A n \in 1 .. recordCount : At(n) \in Times /\ Age(now, At(n)) \in Nat
    BY <1>1, AgesAreNumbers DEF Times
  <1>5. \A n \in 1 .. recordCount : Age(now', At(n)) = Age(now, At(n)) + 1
    <2>1. TAKE n \in 1 .. recordCount
    <2>2. Age(now, At(n)) + 1 < Wrap
      BY <1>1, <1>2, <1>4 DEF RecordsInv
    <2>3. now \in Times /\ At(n) \in Times
      BY <1>1, <1>4 DEF RingTypeOK
    <2>4. QED
      BY <1>2, <2>2, <2>3, AgeTicks
  <1>6. now' \in Times
    BY <1>1, <1>2 DEF RingTypeOK, Times
  <1>7. \A n : At(n)' = At(n)
    BY <1>2, SameRecords
  <1>8. \A n \in 1 .. recordCount : Age(now, At(n))' = Age(now, At(n)) + 1
    BY <1>5, <1>7 DEF Age
  <1>9. \A n \in 1 .. L : n \in young <=> Age(now, At(n)) + 1 < HistoryMs
    <2>1. TAKE n \in 1 .. L
    <2>2. n \in 1 .. recordCount /\ live[n] = At(n)
      BY <1>1, <1>3 DEF LiveInv
    <2>3. Age(now', live[n]) = Age(now, At(n)) + 1 /\ Age(now, At(n)) \in Nat
      BY <1>4, <1>5, <2>2
    <2>4. QED
      BY <1>3, <2>3 DEF Expired
  <1>10. \A n, m \in 1 .. L : n < m /\ m \in young => n \in young
    <2>1. TAKE n, m \in 1 .. L
    <2>2. n \in 1 .. recordCount /\ m \in 1 .. recordCount
      BY <1>3
    <2>3. n < m => Age(now, At(n)) < Age(now, At(m))
      BY <1>1, <2>2 DEF RecordsInv, Rising
    <2>4. QED
      BY <1>4, <1>9, <2>2, <2>3
  <1>11. PICK K \in 0 .. L : young = 1 .. K
    <2>1. \A n \in 1 .. L : Age(now, At(n)) < HistoryMs /\ Age(now, At(n)) \in Nat
      BY <1>1, <1>3, <1>4 DEF LiveInv
    <2>2. \A n \in 1 .. L : n < L => n \in young
      <3>1. TAKE n \in 1 .. L
      <3>2. HAVE n < L
      <3>3. n \in 1 .. recordCount /\ L \in 1 .. recordCount /\ L \in 1 .. L
        BY <1>3, <3>2
      <3>4. Age(now, At(n)) < Age(now, At(L))
        BY <1>1, <3>2, <3>3 DEF RecordsInv, Rising
      <3>5. QED
        BY <1>9, <2>1, <3>3, <3>4
    <2>3. young \subseteq 1 .. L
      BY <1>3
    <2>4. CASE L = 0
      BY <1>3, <2>3, <2>4
    <2>5. CASE L # 0 /\ L \in young
      <3>1. young = 1 .. L
        BY <1>3, <2>2, <2>3, <2>5
      <3>2. QED
        BY <1>3, <3>1
    <2>6. CASE L # 0 /\ L \notin young
      <3>1. young = 1 .. (L - 1)
        BY <1>3, <2>2, <2>3, <2>6
      <3>2. L - 1 \in 0 .. L
        BY <1>3, <2>6
      <3>3. QED
        BY <3>1, <3>2
    <2>7. QED
      BY <2>4, <2>5, <2>6
  <1>12. live' \in Seq(Times) /\ Len(live') = K /\ \A n \in 1 .. K : live'[n] = live[n]
    <2>1. live' = [n \in 1 .. K |-> live[n]]
      BY <1>2, <1>11
    <2>2. \A n \in 1 .. K : live[n] \in Times
      BY <1>3, <1>11
    <2>3. live' \in [1 .. K -> Times] /\ K \in Nat
      BY <2>1, <2>2, <1>11, <1>3
    <2>4. QED
      BY <2>1, <2>3, SeqDef, LenProperties
  <1>13. RingTypeOK'
    BY <1>1, <1>2, <1>6, <1>12 DEF RingTypeOK
  <1>14. RecordsInv'
    <2>1. \A n \in 1 .. recordCount' : Age(now, At(n))' < HistoryMs + idle'
      BY <1>1, <1>2, <1>4, <1>8 DEF RecordsInv
    <2>2. Rising(now, recordCount)'
      BY <1>1, <1>2, <1>4, <1>8 DEF RecordsInv, Rising
    <2>3. QED
      BY <2>1, <2>2 DEF RecordsInv
  <1>15. LiveInv'
    <2>1. K <= recordCount'
      BY <1>2, <1>3, <1>11
    <2>2. ASSUME NEW n \in 1 .. recordCount, n <= K
          PROVE  live'[n] = At(n)' /\ Age(now, At(n))' < HistoryMs
      <3>1. n \in 1 .. L /\ n \in young /\ n \in 1 .. K
        BY <1>3, <1>11, <2>2
      <3>2. live'[n] = At(n)'
        BY <1>1, <1>7, <1>12, <3>1, <2>2 DEF LiveInv
      <3>3. QED
        BY <1>8, <1>9, <2>2, <3>1, <3>2
    <2>3. ASSUME NEW n \in 1 .. recordCount, ~(n <= K)
          PROVE  Age(now, At(n))' >= HistoryMs
      <3>1. CASE n \in 1 .. L
        BY <1>4, <1>8, <1>9, <1>11, <2>3, <3>1
      <3>2. CASE n \notin 1 .. L
        BY <1>1, <1>3, <1>4, <1>8, <2>3, <3>2 DEF LiveInv
      <3>3. QED
        BY <3>1, <3>2
    <2>4. QED
      BY <1>2, <1>12, <2>1, <2>2, <2>3 DEF LiveInv
  <1>16. HeldInv'
    <2>1. SUFFICES ASSUME writer \in {"measured", "admitted"} PROVE HeldInv'
      BY <1>2 DEF HeldInv
    <2>2. Age(now, acquired) < MaxHold /\ now \in Times /\ acquired \in Times
      BY <1>1, <2>1 DEF Tick, RingTypeOK
    <2>3. Age(now, acquired) \in Nat
      BY <2>2, AgeIs
    <2>4. Age(now', acquired) = Age(now, acquired) + 1
      BY <1>2, <2>2, <2>3, AgeTicks
    <2>5. Age(now, acquired)' = Age(now, acquired) + 1
      BY <1>2, <2>4 DEF Age
    <2>6. \A n \in 1 .. recordCount : Age(now, acquired) <= Age(now, At(n))
      BY <1>1, <2>1 DEF HeldInv
    <2>7. QED
      BY <1>2, <1>4, <1>8, <2>2, <2>3, <2>5, <2>6 DEF HeldInv
  <1>17. WalkInv'
    BY <1>1, <1>2, <1>3, <1>11, <1>12, WalkKept DEF RingInv
  <1>18. Noticed'
    BY <1>1, <1>2 DEF Noticed
  <1>19. QED
    BY <1>13, <1>14, <1>15, <1>16, <1>17, <1>18 DEF RingInv

LEMMA MeasureStep ==
  ASSUME RingInv, Measure
  PROVE  RingInv'
PROOF
  <1>1. RingTypeOK /\ HeldInv /\ Noticed
    BY DEF RingInv
  <1>2. /\ writer = "idle" /\ writer' = "measured" /\ acquired' = now
        /\ UNCHANGED <<now, idle, history, nextRecord, recordCount, generation, recordPending, reader,
                       readGeneration, started, count, seen, live, covered>>
    BY DEF Measure, ring, walk
  <1>3. RingTypeOK'
    BY <1>1, <1>2 DEF RingTypeOK
  <1>4. RecordsInv' /\ LiveInv'
    BY <1>2, RecordsKept
  <1>5. HeldInv'
    <2>1. Age(now, now) = 0
      BY <1>1, AgeIs DEF RingTypeOK
    <2>2. Age(now, acquired)' = 0
      BY <1>2, <2>1 DEF Age
    <2>3. \A n \in 1 .. recordCount' : Age(now, At(n))' \in Nat
      <3>1. \A n : Age(now, At(n))' = Age(now, At(n))
        BY <1>2, SameRecords DEF Age
      <3>2. QED
        BY <1>1, <1>2, <3>1, AgesAreNumbers DEF Times
    <2>4. QED
      BY <2>2, <2>3, RingConstants DEF HeldInv
  <1>6. WalkInv'
    BY <1>1, <1>2, WalkKept, LenProperties DEF RingInv, RingTypeOK
  <1>7. Noticed'
    BY <1>1, <1>2 DEF Noticed
  <1>8. QED
    BY <1>3, <1>4, <1>5, <1>6, <1>7 DEF RingInv

LEMMA AdmitStep ==
  ASSUME RingInv, Admit
  PROVE  RingInv'
PROOF
  <1>1. RingTypeOK /\ HeldInv /\ Noticed
    BY DEF RingInv
  <1>2. /\ writer = "measured"
        /\ UNCHANGED <<now, idle, history, nextRecord, recordCount, generation, recordPending, reader,
                       readGeneration, started, count, seen, live, covered>>
    BY DEF Admit, ring, walk
  <1>3. (writer' = "idle" /\ acquired' = 0) \/ (writer' = "admitted" /\ acquired' = acquired)
    BY DEF Admit
  <1>4. 0 \in Times
    BY RingConstants DEF Times
  <1>5. RingTypeOK'
    BY <1>1, <1>2, <1>3, <1>4 DEF RingTypeOK
  <1>6. RecordsInv' /\ LiveInv'
    BY <1>2, RecordsKept
  <1>7. HeldInv'
    <2>1. CASE writer' = "idle"
      BY <2>1 DEF HeldInv
    <2>2. CASE writer' = "admitted" /\ acquired' = acquired
      <3>1. \A n : Age(now, At(n))' = Age(now, At(n))
        BY <1>2, SameRecords DEF Age
      <3>2. Age(now, acquired)' = Age(now, acquired)
        BY <1>2, <2>2 DEF Age
      <3>3. QED
        BY <1>1, <1>2, <3>1, <3>2 DEF HeldInv
    <2>3. QED
      BY <1>3, <2>1, <2>2
  <1>8. WalkInv'
    BY <1>1, <1>2, WalkKept, LenProperties DEF RingInv, RingTypeOK
  <1>9. Noticed'
    BY <1>1, <1>2, <1>3 DEF Noticed
  <1>10. QED
    BY <1>5, <1>6, <1>7, <1>8, <1>9 DEF RingInv

LEMMA DuplicateStep ==
  ASSUME RingInv, Commit, Duplicate
  PROVE  RingInv'
PROOF
  <1>1. RingTypeOK /\ HeldInv /\ Noticed
    BY DEF RingInv
  <1>2. /\ writer = "admitted" /\ writer' = "idle" /\ acquired' = 0 /\ Prunes
        /\ UNCHANGED <<now, history, nextRecord, generation, recordPending, reader, readGeneration,
                       started, count, seen, live, covered>>
    BY DEF Commit, Prunes, walk
  <1>3. recordCount' <= recordCount /\ recordCount' \in 0 .. Capacity /\ idle' = 0 /\ RecordsInv' /\ LiveInv'
    BY <1>2, RecordsPruned
  <1>4. 0 \in Times /\ 0 \in 0 .. MaxPause
    BY RingConstants DEF Times
  <1>5. RingTypeOK'
    BY <1>1, <1>2, <1>3, <1>4 DEF RingTypeOK
  <1>6. HeldInv'
    BY <1>2 DEF HeldInv
  <1>7. WalkInv'
    BY <1>1, <1>2, <1>3, WalkKept, LenProperties, RingConstants DEF RingInv, RingTypeOK
  <1>8. Noticed'
    BY <1>1, <1>2, <1>5 DEF Noticed
  <1>9. QED
    BY <1>3, <1>5, <1>6, <1>7, <1>8 DEF RingInv

(* The slot a commit writes is the newest record, and each older one moves by one. *)
LEMMA CommitMoves ==
  ASSUME RingTypeOK, history' = [history EXCEPT ![nextRecord] = acquired],
         nextRecord' = (nextRecord + 1) % Capacity
  PROVE  /\ nextRecord' \in 0 .. Capacity - 1 /\ history' \in [0 .. Capacity - 1 -> Times]
         /\ At(1)' = acquired
         /\ \A n \in 2 .. Capacity : n - 1 \in 1 .. Capacity /\ At(n)' = At(n - 1)
PROOF
  <1> USE RingConstants
  <1>1. /\ nextRecord \in 0 .. Capacity - 1 /\ history \in [0 .. Capacity - 1 -> Times] /\ acquired \in Times
    BY DEF RingTypeOK
  <1>2. nextRecord' = (IF nextRecord + 1 < Capacity THEN nextRecord + 1 ELSE 0)
    BY <1>1
  <1>3. nextRecord' \in 0 .. Capacity - 1 /\ history' \in [0 .. Capacity - 1 -> Times]
    BY <1>1, <1>2
  <1>4. \A k \in 0 .. Capacity - 1 :
          Slot(k)' = IF nextRecord' > k THEN nextRecord' - 1 - k ELSE nextRecord' - 1 - k + Capacity
    BY <1>3, SlotFormula DEF Slot
  <1>5. At(1)' = acquired
    <2>1. Slot(0)' = nextRecord
      BY <1>1, <1>2, <1>4
    <2>2. At(1)' = history'[Slot(0)']
      BY DEF At
    <2>3. QED
      BY <1>1, <2>1, <2>2
  <1>6. ASSUME NEW n \in 2 .. Capacity
        PROVE  n - 1 \in 1 .. Capacity /\ At(n)' = At(n - 1)
    <2>1. n \in Nat /\ n - 1 \in 1 .. Capacity /\ n - 1 \in 0 .. Capacity - 1 /\ n - 2 \in 0 .. Capacity - 1
      OBVIOUS
    <2>2. Slot(n - 2) = IF nextRecord > n - 2 THEN nextRecord - 1 - (n - 2) ELSE nextRecord - 1 - (n - 2) + Capacity
      BY <1>1, <2>1, SlotIs
    <2>3. Slot(n - 1)' = IF nextRecord' > n - 1 THEN nextRecord' - 1 - (n - 1) ELSE nextRecord' - 1 - (n - 1) + Capacity
      BY <1>4, <2>1
    <2>4. Slot(n - 1)' = Slot(n - 2) /\ Slot(n - 2) # nextRecord /\ Slot(n - 2) \in 0 .. Capacity - 1
      BY <1>1, <1>2, <2>1, <2>2, <2>3
    <2>5. At(n)' = history'[Slot(n - 1)'] /\ At(n - 1) = history[Slot((n - 1) - 1)]
      BY DEF At
    <2>6. (n - 1) - 1 = n - 2
      BY <2>1
    <2>7. QED
      BY <1>1, <2>1, <2>4, <2>5, <2>6
  <1>7. QED
    BY <1>3, <1>5, <1>6

LEMMA AgeTellsApart ==
  ASSUME NEW t \in Times, NEW a \in Times, NEW b \in Times, a # b
  PROVE  Age(t, a) # Age(t, b)
PROOF
  <1>1. Age(t, a) = (IF t >= a THEN t - a ELSE t - a + Wrap)
    BY AgeIs
  <1>2. Age(t, b) = (IF t >= b THEN t - b ELSE t - b + Wrap)
    BY AgeIs
  <1>3. t \in Int /\ a \in Int /\ b \in Int /\ Wrap \in Int /\ 0 <= a /\ a < Wrap /\ 0 <= b /\ b < Wrap
    BY RingConstants DEF Times
  <1>4. QED
    BY <1>1, <1>2, <1>3

LEMMA RecordStep ==
  ASSUME RingInv, Commit, ~Duplicate
  PROVE  RingInv'
PROOF
  <1> DEFINE L == Len(live)
  <1> USE RingConstants
  <1>1. RingTypeOK /\ RecordsInv /\ LiveInv /\ HeldInv /\ WalkInv /\ Noticed
    BY DEF RingInv
  <1>2. /\ writer = "admitted" /\ writer' = "committed" /\ acquired' = 0 /\ idle' = 0
        /\ history' = [history EXCEPT ![nextRecord] = acquired]
        /\ nextRecord' = (nextRecord + 1) % Capacity
        /\ recordCount' = Fill /\ generation' = generation + 1
        /\ live' = SubSeq(<<acquired>> \o live, 1, IF L < Capacity THEN L + 1 ELSE Capacity)
        /\ UNCHANGED <<now, recordPending, reader, readGeneration, started, count, seen, covered>>
    BY DEF Commit, walk
  <1>3. Pruned = L /\ L \in 0 .. recordCount /\ recordCount \in 0 .. Capacity
    BY <1>1, PrunedIs DEF RingTypeOK
  <1>4. /\ nextRecord' \in 0 .. Capacity - 1 /\ history' \in [0 .. Capacity - 1 -> Times]
        /\ At(1)' = acquired
        /\ \A n \in 2 .. Capacity : n - 1 \in 1 .. Capacity /\ At(n)' = At(n - 1)
    BY <1>1, <1>2, CommitMoves
  <1> DEFINE F == IF L < Capacity THEN L + 1 ELSE Capacity
  <1>5. F \in 1 .. Capacity /\ F <= L + 1 /\ recordCount' = F
    BY <1>2, <1>3 DEF Fill
  <1>6. live \in Seq(Times) /\ acquired \in Times /\ now \in Times
    BY <1>1 DEF RingTypeOK
  <1>7. live' \in Seq(Times) /\ Len(live') = F
        /\ live'[1] = acquired /\ \A n \in 2 .. F : live'[n] = live[n - 1]
    <2> DEFINE longer == <<acquired>> \o live
    <2>1. <<acquired>> \in Seq(Times) /\ Len(<<acquired>>) = 1 /\ <<acquired>>[1] = acquired
      BY <1>6
    <2>2. longer \in Seq(Times) /\ Len(longer) = L + 1
      BY <1>6, <2>1, ConcatProperties
    <2>3. longer[1] = acquired /\ \A n \in 2 .. L + 1 : longer[n] = live[n - 1]
      BY <1>3, <1>6, <2>1, ConcatProperties
    <2>4. F \in 1 .. Len(longer) /\ 1 \in 1 .. Len(longer)
      BY <1>3, <1>5, <2>2
    <2>5. live' = SubSeq(longer, 1, F)
      BY <1>2
    <2> HIDE DEF longer, F
    <2>6. live' \in Seq(Times) /\ Len(live') = F /\ \A n \in 1 .. F : live'[n] = longer[n]
      BY <1>5, <2>2, <2>4, <2>5, SubSeqProperties
    <2>7. QED
      BY <1>3, <1>5, <2>3, <2>6
  <1>8. 0 \in Times /\ 0 \in 0 .. MaxPause
    BY DEF Times
  <1>9. RingTypeOK'
    <2>1. recordCount' \in 0 .. Capacity /\ generation' \in Nat
      BY <1>1, <1>2, <1>5 DEF RingTypeOK
    <2> HIDE DEF F
    <2>2. QED
      BY <1>1, <1>2, <1>4, <1>7, <1>8, <2>1 DEF RingTypeOK
  <1>10. \A n \in 2 .. F : n - 1 \in 1 .. L /\ n - 1 \in 1 .. recordCount
                           /\ Age(now, At(n))' = Age(now, At(n - 1))
    <2>1. \A n \in 2 .. F : n - 1 \in 1 .. L /\ n - 1 \in 1 .. recordCount /\ n \in 2 .. Capacity
      BY <1>3, <1>5
    <2>2. now' = now
      BY <1>2
    <2>3. \A n \in 2 .. F : At(n)' = At(n - 1)
      BY <1>4, <2>1
    <2>4. QED
      BY <2>1, <2>2, <2>3 DEF Age
  <1>11. Age(now, At(1))' = Age(now, acquired) /\ Age(now, acquired) \in Nat /\ Age(now, acquired) < HistoryMs
    BY <1>1, <1>2, <1>4, <1>6, AgeIs DEF HeldInv, Age
  <1>12. \A n \in 1 .. L : /\ At(n) \in Times /\ Age(now, At(n)) \in Nat /\ Age(now, At(n)) < HistoryMs
                           /\ live[n] = At(n) /\ Age(now, acquired) < Age(now, At(n))
    <2>1. \A n \in 1 .. L : n \in 1 .. recordCount
      BY <1>3
    <2>2. \A n \in 1 .. L : At(n) \in Times /\ Age(now, At(n)) \in Nat
      BY <1>1, <2>1, AgesAreNumbers DEF Times
    <2>3. \A n \in 1 .. L : live[n] = At(n) /\ Age(now, At(n)) < HistoryMs
      BY <1>1, <2>1 DEF LiveInv
    <2>4. L > 0 => At(1) # acquired
      BY <1>3 DEF Duplicate, At
    <2>5. L > 0 => Age(now, acquired) < Age(now, At(1))
      <3>1. SUFFICES ASSUME L > 0 PROVE Age(now, acquired) < Age(now, At(1))
        OBVIOUS
      <3>2. 1 \in 1 .. L /\ 1 \in 1 .. recordCount
        BY <1>3, <3>1
      <3>3. Age(now, acquired) <= Age(now, At(1))
        BY <1>1, <1>2, <3>2 DEF HeldInv
      <3>4. Age(now, acquired) # Age(now, At(1))
        BY <1>6, <2>2, <2>4, <3>1, <3>2, AgeTellsApart
      <3>5. QED
        BY <1>11, <2>2, <3>2, <3>3, <3>4
    <2>6. \A n \in 1 .. L : Age(now, acquired) < Age(now, At(n))
      <3>1. TAKE n \in 1 .. L
      <3>2. 1 \in 1 .. L /\ 1 \in 1 .. recordCount /\ n \in 1 .. recordCount /\ L > 0
        BY <1>3
      <3>3. CASE n = 1
        BY <2>5, <3>2, <3>3
      <3>4. CASE n # 1
        <4>1. Age(now, At(1)) < Age(now, At(n))
          BY <1>1, <3>2, <3>4 DEF RecordsInv, Rising
        <4>2. QED
          BY <1>11, <2>2, <2>5, <3>2, <4>1
      <3>5. QED
        BY <3>3, <3>4
    <2>7. QED
      BY <2>2, <2>3, <2>6
  <1> HIDE DEF F, L
  <1>13. \A n \in 1 .. F : live'[n] = At(n)' /\ Age(now, At(n))' < HistoryMs
    <2>1. TAKE n \in 1 .. F
    <2>2. CASE n = 1
      BY <1>4, <1>7, <1>11, <2>2
    <2>3. CASE n # 1
      <3>1. n \in 2 .. F /\ n \in 2 .. Capacity
        BY <1>5, <2>3
      <3>2. QED
        BY <1>4, <1>7, <1>10, <1>12, <3>1
    <2>4. QED
      BY <2>2, <2>3
  <1>14. LiveInv'
    BY <1>5, <1>7, <1>13 DEF LiveInv
  <1>15. RecordsInv'
    <2>1. \A n \in 1 .. recordCount' : Age(now, At(n))' < HistoryMs + idle'
      BY <1>2, <1>5, <1>13
    <2>2. ASSUME NEW n \in 1 .. F, NEW m \in 1 .. F, n < m
          PROVE  Age(now, At(n))' < Age(now, At(m))'
      <3>1. m \in 2 .. F
        BY <1>5, <2>2
      <3>2. CASE n = 1
        BY <1>10, <1>11, <1>12, <3>1, <3>2
      <3>3. CASE n # 1
        <4>1. n \in 2 .. F /\ n - 1 < m - 1
          BY <1>5, <2>2, <3>3
        <4>2. QED
          BY <1>1, <1>10, <3>1, <4>1 DEF RecordsInv, Rising
      <3>4. QED
        BY <3>2, <3>3
    <2>3. Rising(now, recordCount)'
      BY <1>5, <2>2 DEF Rising
    <2>4. QED
      BY <2>1, <2>3 DEF RecordsInv
  <1>16. HeldInv'
    BY <1>2 DEF HeldInv
  <1>17. WalkInv'
    <2>1. readGeneration' < generation'
      BY <1>1, <1>2 DEF WalkInv, RingTypeOK
    <2>2. readGeneration' \in Nat /\ generation' \in Nat
      BY <1>9 DEF RingTypeOK
    <2>3. Superseded'
      BY <2>1, <2>2 DEF Superseded
    <2>4. QED
      BY <2>1, <2>2, <2>3 DEF WalkInv
  <1>18. Noticed'
    BY <1>2 DEF Noticed
  <1>19. QED
    BY <1>9, <1>14, <1>15, <1>16, <1>17, <1>18 DEF RingInv

LEMMA CommitStep == RingInv /\ Commit => RingInv'
  BY DuplicateStep, RecordStep

LEMMA NotifyStep ==
  ASSUME RingInv, Notify
  PROVE  RingInv'
PROOF
  <1>1. RingTypeOK
    BY DEF RingInv
  <1>2. /\ writer' = "idle" /\ recordPending' = TRUE
        /\ UNCHANGED <<now, idle, history, nextRecord, recordCount, generation, acquired, reader,
                       readGeneration, started, count, seen, live, covered>>
    BY DEF Notify, ring, walk
  <1>3. RingTypeOK'
    BY <1>1, <1>2 DEF RingTypeOK
  <1>4. RecordsInv' /\ LiveInv'
    BY <1>2, RecordsKept
  <1>5. HeldInv' /\ Noticed'
    BY <1>2 DEF HeldInv, Noticed
  <1>6. WalkInv'
    BY <1>1, <1>2, WalkKept, LenProperties DEF RingInv, RingTypeOK
  <1>7. QED
    BY <1>3, <1>4, <1>5, <1>6 DEF RingInv

LEMMA StatusStep ==
  ASSUME RingInv, Status
  PROVE  RingInv'
PROOF
  <1>1. RingTypeOK /\ Noticed
    BY DEF RingInv
  <1>2. /\ Prunes
        /\ UNCHANGED <<now, history, nextRecord, generation, recordPending, writer, acquired, reader,
                       readGeneration, started, count, seen, live, covered>>
    BY DEF Status, walk
  <1>3. recordCount' <= recordCount /\ recordCount' \in 0 .. Capacity /\ idle' = 0 /\ RecordsInv' /\ LiveInv'
    BY <1>2, RecordsPruned
  <1>4. RingTypeOK'
    BY <1>1, <1>2, <1>3, RingConstants DEF RingTypeOK
  <1>5. HeldInv'
    BY <1>2, <1>3, HeldKept, RingConstants
  <1>6. WalkInv'
    BY <1>1, <1>2, <1>3, WalkKept, LenProperties, RingConstants DEF RingTypeOK
  <1>7. Noticed'
    BY <1>1, <1>2 DEF Noticed
  <1>8. QED
    BY <1>3, <1>4, <1>5, <1>6, <1>7 DEF RingInv

LEMMA ExchangeStep ==
  ASSUME RingInv, Exchange
  PROVE  RingInv'
PROOF
  <1>1. RingTypeOK /\ WalkInv
    BY DEF RingInv
  <1>2. /\ recordPending' = FALSE /\ reader' = "exchanged"
        /\ UNCHANGED <<now, idle, history, nextRecord, recordCount, generation, writer, acquired,
                       readGeneration, started, count, seen, live, covered>>
    BY DEF Exchange, ring
  <1>3. RingTypeOK'
    BY <1>1, <1>2 DEF RingTypeOK
  <1>4. RecordsInv' /\ LiveInv'
    BY <1>2, RecordsKept
  <1>5. HeldInv'
    BY <1>1, <1>2, HeldKept, RingConstants DEF RingTypeOK
  <1>6. WalkInv' /\ Noticed'
    BY <1>1, <1>2 DEF WalkInv, Noticed
  <1>7. QED
    BY <1>3, <1>4, <1>5, <1>6 DEF RingInv

LEMMA ReadGenerationStep ==
  ASSUME RingInv, ReadGeneration
  PROVE  RingInv'
PROOF
  <1>1. RingTypeOK
    BY DEF RingInv
  <1>2. /\ readGeneration' = generation /\ reader' = "timed"
        /\ UNCHANGED <<now, idle, history, nextRecord, recordCount, generation, recordPending, writer,
                       acquired, started, count, seen, live, covered>>
    BY DEF ReadGeneration, ring
  <1>3. RingTypeOK'
    BY <1>1, <1>2 DEF RingTypeOK
  <1>4. RecordsInv' /\ LiveInv'
    BY <1>2, RecordsKept
  <1>5. HeldInv'
    BY <1>1, <1>2, HeldKept, RingConstants DEF RingTypeOK
  <1>6. WalkInv' /\ Noticed'
    BY <1>1, <1>2 DEF WalkInv, Noticed, RingTypeOK
  <1>7. QED
    BY <1>3, <1>4, <1>5, <1>6 DEF RingInv

LEMMA ReadClockStep ==
  ASSUME RingInv, ReadClock
  PROVE  RingInv'
PROOF
  <1>1. RingTypeOK /\ RecordsInv /\ LiveInv /\ WalkInv
    BY DEF RingInv
  <1>2. /\ started' = now /\ reader' = "counted"
        /\ UNCHANGED <<now, idle, history, nextRecord, recordCount, generation, recordPending, writer,
                       acquired, readGeneration, count, seen, live, covered>>
    BY DEF ReadClock, ring
  <1>3. RingTypeOK'
    BY <1>1, <1>2 DEF RingTypeOK
  <1>4. RecordsInv' /\ LiveInv'
    BY <1>2, RecordsKept
  <1>5. HeldInv'
    BY <1>1, <1>2, HeldKept, RingConstants DEF RingTypeOK
  <1>6. WalkInv'
    <2>1. \A n : Age(started, At(n))' = Age(now, At(n))
      BY <1>2, SameRecords DEF Age
    <2>2. Rising(started, recordCount)'
      BY <1>1, <1>2, <2>1 DEF RecordsInv, Rising
    <2>3. Len(live) \in Nat /\ Len(live) <= recordCount /\ recordCount \in Nat
      BY <1>1, LenProperties DEF RingTypeOK, LiveInv
    <2>4. \A n \in 1 .. Len(live') : Age(started, At(n))' < HistoryMs
      BY <1>1, <1>2, <2>1, <2>3 DEF LiveInv
    <2>5. readGeneration' <= generation'
      BY <1>1, <1>2 DEF WalkInv
    <2>6. QED
      BY <1>2, <2>2, <2>4, <2>5 DEF WalkInv
  <1>7. Noticed'
    BY <1>2 DEF Noticed
  <1>8. QED
    BY <1>3, <1>4, <1>5, <1>6, <1>7 DEF RingInv

LEMMA CountStep ==
  ASSUME RingInv, Count
  PROVE  RingInv'
PROOF
  <1>1. RingTypeOK /\ LiveInv /\ WalkInv
    BY DEF RingInv
  <1>2. /\ reader = "counted" /\ Prunes
        /\ count' = Pruned /\ seen' = <<>> /\ reader' = "walking"
        /\ UNCHANGED <<now, history, nextRecord, generation, recordPending, writer, acquired,
                       readGeneration, started, live, covered>>
    BY DEF Count
  <1>3. /\ recordCount' = Len(live) /\ recordCount' <= recordCount
        /\ recordCount' \in 0 .. Capacity /\ idle' = 0 /\ RecordsInv' /\ LiveInv'
    BY <1>2, RecordsPruned
  <1>4. count' = Len(live) /\ seen' \in Seq(Times) /\ Len(seen') = 0
    BY <1>1, <1>2, PrunedIs, EmptySeq
  <1>5. RingTypeOK'
    BY <1>1, <1>2, <1>3, <1>4, RingConstants DEF RingTypeOK
  <1>6. HeldInv'
    BY <1>2, <1>3, HeldKept, RingConstants
  <1>7. WalkInv'
    <2>1. readGeneration' <= generation' /\ (Superseded' <=> Superseded)
      BY <1>1, <1>2 DEF WalkInv, Superseded
    <2>2. SUFFICES ASSUME ~Superseded PROVE WalkInv'
      BY <2>1 DEF WalkInv
    <2>3. Rising(started, recordCount) /\ \A n \in 1 .. Len(live) : Age(started, At(n)) < HistoryMs
      BY <1>1, <1>2, <2>2 DEF WalkInv
    <2>4. \A n : Age(started, At(n))' = Age(started, At(n))
      BY <1>2, SameRecords DEF Age
    <2>5. recordCount \in Nat /\ \A n \in 1 .. count' : n \in 1 .. recordCount
      BY <1>1, <1>3, <1>4, RingConstants DEF RingTypeOK
    <2>6. Rising(started, count)'
      BY <2>3, <2>4, <2>5 DEF Rising
    <2>7. \A n \in 1 .. Len(live') : Age(started, At(n))' < HistoryMs
      BY <1>2, <2>3, <2>4
    <2>8. Len(live') <= count' /\ Len(seen') <= count' /\ \A n \in 1 .. Len(seen') : seen'[n] = At(n)'
      BY <1>2, <1>3, <1>4
    <2>9. QED
      BY <1>2, <2>1, <2>6, <2>7, <2>8 DEF WalkInv
  <1>8. Noticed'
    BY <1>2 DEF Noticed
  <1>9. QED
    BY <1>3, <1>5, <1>6, <1>7, <1>8 DEF RingInv

LEMMA ReadStep ==
  ASSUME RingInv, Read
  PROVE  RingInv'
PROOF
  <1>1. RingTypeOK /\ LiveInv /\ WalkInv
    BY DEF RingInv
  <1>2. /\ reader = "walking"
        /\ Prunes \/ UNCHANGED <<recordCount, idle>>
        /\ UNCHANGED <<now, history, nextRecord, generation, recordPending, writer, acquired,
                       readGeneration, started, count, live, covered>>
    BY DEF Read
  <1>3. recordCount \in 0 .. Capacity /\ Len(live) \in Nat /\ Len(seen) \in Nat /\ count \in 0 .. Capacity
    BY <1>1, LenProperties DEF RingTypeOK
  <1>4. /\ recordCount' <= recordCount /\ recordCount' \in 0 .. Capacity /\ idle' \in 0 .. MaxPause
        /\ RecordsInv' /\ LiveInv'
    <2>1. CASE Prunes
      BY <1>2, <2>1, RecordsPruned, RingConstants
    <2>2. CASE UNCHANGED <<recordCount, idle>>
      <3>1. RecordsInv' /\ LiveInv'
        BY <1>2, <2>2, RecordsKept
      <3>2. QED
        BY <1>1, <1>3, <2>2, <3>1, RingConstants DEF RingTypeOK
    <2>3. QED
      BY <1>2, <2>1, <2>2
  <1>5. HeldInv'
    BY <1>2, <1>4, HeldKept, RingConstants
  <1>6. \A n : At(n)' = At(n)
    BY <1>2, SameRecords
  <1>7. \A n : Age(started, At(n))' = Age(started, At(n))
    BY <1>2, <1>6 DEF Age
  <1>8. CASE Ends
    <2>1. reader' = "judging" /\ seen' = seen
      BY <1>8 DEF Read
    <2>2. RingTypeOK'
      BY <1>1, <1>2, <1>4, <2>1 DEF RingTypeOK
    <2>3. ASSUME ~Superseded
          PROVE  Len(live) <= Len(seen)
      <3>1. Len(live) <= count /\ \A n \in 1 .. Len(live) : Age(started, At(n)) < HistoryMs
        BY <1>1, <1>2, <2>3 DEF WalkInv
      <3>2. Pruned = Len(live)
        BY <1>1, PrunedIs
      <3>3. CASE Len(seen) >= count \/ Len(seen) >= Pruned
        BY <1>3, <3>1, <3>2, <3>3
      <3>4. CASE TooOld(history[Slot(Len(seen))])
        <4>1. SUFFICES ASSUME Len(seen) < Len(live) PROVE FALSE
          BY <1>3
        <4> DEFINE n == Len(seen) + 1
        <4>2. n \in 1 .. Len(live) /\ n \in 1 .. Capacity /\ n - 1 = Len(seen)
          BY <1>3, <3>1, <4>1, RingConstants
        <4>3. Age(started, At(n)) >= HistoryMs
          BY <3>4, <4>2 DEF TooOld, Expired, At
        <4>4. started \in Times /\ At(n) \in Times
          BY <1>1, <4>2, AtIs DEF RingTypeOK
        <4>5. Age(started, At(n)) \in Nat
          BY <4>4, AgeIs
        <4>6. QED
          BY <3>1, <4>2, <4>3, <4>5, RingConstants
      <3>5. QED
        BY <1>8, <3>3, <3>4 DEF Ends
    <2>4. WalkInv'
      <3>1. readGeneration' <= generation' /\ (Superseded' <=> Superseded)
        BY <1>1, <1>2 DEF WalkInv, Superseded
      <3>2. SUFFICES ASSUME ~Superseded PROVE WalkInv'
        BY <3>1 DEF WalkInv
      <3>3. Rising(started, count)'
        BY <1>1, <1>2, <1>7, <3>2 DEF WalkInv, Rising
      <3>4. \A n \in 1 .. Len(live') : Age(started, At(n))' < HistoryMs
        BY <1>1, <1>2, <1>7, <3>2 DEF WalkInv
      <3>5. Len(live') <= count' /\ Len(seen') <= count' /\ \A n \in 1 .. Len(seen') : seen'[n] = At(n)'
        BY <1>1, <1>2, <1>6, <2>1, <3>2 DEF WalkInv
      <3>6. Len(live') <= Len(seen')
        BY <1>2, <2>1, <2>3, <3>2
      <3>7. QED
        BY <2>1, <3>1, <3>3, <3>4, <3>5, <3>6 DEF WalkInv
    <2>5. Noticed'
      BY <2>1 DEF Noticed
    <2>6. QED
      BY <1>4, <1>5, <2>2, <2>4, <2>5 DEF RingInv
  <1>9. CASE ~Ends
    <2> DEFINE k == Len(seen)
    <2>1. reader' = reader /\ seen' = Append(seen, history[Slot(k)]) /\ k < count
      BY <1>3, <1>9 DEF Read, Ends
    <2>2. k + 1 \in 1 .. Capacity /\ (k + 1) - 1 = k /\ history[Slot(k)] = At(k + 1)
      BY <1>3, <2>1, RingConstants DEF At
    <2>3. At(k + 1) \in Times
      BY <1>1, <2>2, AtIs
    <2>4. /\ seen' \in Seq(Times) /\ Len(seen') = k + 1 /\ seen'[k + 1] = At(k + 1)
          /\ \A n \in 1 .. k : seen'[n] = seen[n]
      BY <1>1, <2>1, <2>2, <2>3, AppendProperties DEF RingTypeOK
    <2>5. RingTypeOK'
      BY <1>1, <1>2, <1>4, <2>1, <2>4 DEF RingTypeOK
    <2>6. WalkInv'
      <3>1. readGeneration' <= generation' /\ (Superseded' <=> Superseded)
        BY <1>1, <1>2 DEF WalkInv, Superseded
      <3>2. SUFFICES ASSUME ~Superseded PROVE WalkInv'
        BY <3>1 DEF WalkInv
      <3>3. Rising(started, count)'
        BY <1>1, <1>2, <1>7, <3>2 DEF WalkInv, Rising
      <3>4. \A n \in 1 .. Len(live') : Age(started, At(n))' < HistoryMs
        BY <1>1, <1>2, <1>7, <3>2 DEF WalkInv
      <3>5. Len(live') <= count' /\ Len(seen') <= count'
        BY <1>1, <1>2, <1>3, <2>1, <2>4, <3>2, RingConstants DEF WalkInv
      <3>6. \A n \in 1 .. k : seen[n] = At(n)
        BY <1>1, <1>2, <3>2 DEF WalkInv
      <3>7. \A n \in 1 .. Len(seen') : seen'[n] = At(n)'
        <4>1. TAKE n \in 1 .. Len(seen')
        <4>2. n \in 1 .. k \/ n = k + 1
          BY <1>3, <2>4
        <4>3. QED
          BY <1>6, <2>4, <3>6, <4>2
      <3>8. QED
        BY <1>2, <2>1, <3>1, <3>3, <3>4, <3>5, <3>7 DEF WalkInv
    <2>7. Noticed'
      BY <1>2, <2>1 DEF Noticed
    <2>8. QED
      BY <1>4, <1>5, <2>5, <2>6, <2>7 DEF RingInv
  <1>10. QED
    BY <1>8, <1>9

LEMMA JudgeStep ==
  ASSUME RingInv, Judge
  PROVE  RingInv'
PROOF
  <1>1. RingTypeOK
    BY DEF RingInv
  <1>2. /\ IF Superseded THEN recordPending' = TRUE /\ covered' = covered
                         ELSE covered' = readGeneration /\ recordPending' = recordPending
        /\ reader' = "idle" /\ seen' = <<>> /\ readGeneration' = 0 /\ started' = 0 /\ count' = 0
        /\ UNCHANGED <<now, idle, history, nextRecord, recordCount, generation, writer, acquired, live>>
    BY DEF Judge, ring, AskAgain
  <1>3. 0 \in Times /\ 0 \in 0 .. Capacity /\ seen' \in Seq(Times)
    BY <1>2, RingConstants, EmptySeq DEF Times
  <1>4. RingTypeOK'
    <2>1. recordPending' \in BOOLEAN /\ covered' \in Nat
      BY <1>1, <1>2 DEF RingTypeOK
    <2>2. QED
      BY <1>1, <1>2, <1>3, <2>1 DEF RingTypeOK
  <1>5. RecordsInv' /\ LiveInv'
    BY <1>2, RecordsKept
  <1>6. HeldInv'
    BY <1>1, <1>2, HeldKept, RingConstants DEF RingTypeOK
  <1>7. WalkInv'
    BY <1>1, <1>2 DEF WalkInv, RingTypeOK
  <1>8. Noticed'
    BY <1>2 DEF Noticed, Superseded
  <1>9. QED
    BY <1>4, <1>5, <1>6, <1>7, <1>8 DEF RingInv

LEMMA StutterStep ==
  ASSUME RingInv, UNCHANGED ringVars
  PROVE  RingInv'
PROOF
  <1>1. UNCHANGED <<now, idle, history, nextRecord, recordCount, generation, recordPending, writer,
                    acquired, reader, readGeneration, started, count, seen, live, covered>>
    BY DEF ringVars
  <1>2. RingTypeOK'
    BY <1>1 DEF RingInv, RingTypeOK
  <1>3. RecordsInv' /\ LiveInv'
    BY <1>1, RecordsKept
  <1>4. HeldInv'
    BY <1>1, HeldKept, RingConstants DEF RingInv, RingTypeOK
  <1>5. WalkInv'
    BY <1>1, WalkKept, LenProperties, RingConstants DEF RingInv, RingTypeOK
  <1>6. Noticed'
    BY <1>1 DEF RingInv, Noticed
  <1>7. QED
    BY <1>2, <1>3, <1>4, <1>5, <1>6 DEF RingInv

(* What storageAppend, the pruning reads, and intervalFromHistory keep true   *)
(* of the ring: the records lie in order of age, the young ones are the last  *)
(* readings of the hour, and a walk nothing overtook reads them as they were  *)
(* when it began.                                                            *)
THEOREM RingInvariant == RingSpec => []RingInv
PROOF
  <1>1. RingInit => RingInv
    BY InitRing
  <1>2. RingInv /\ [RingNext]_ringVars => RingInv'
    BY TickStep, MeasureStep, AdmitStep, CommitStep, NotifyStep, StatusStep, ExchangeStep,
       ReadGenerationStep, ReadClockStep, CountStep, ReadStep, JudgeStep, StutterStep
       DEF RingNext, Worker, Main
  <1>3. QED
    BY <1>1, <1>2, PTL DEF RingSpec

(* A reader of the ring finds the last readings of the past hour and no other, *)
(* for every capacity, width of millis() and span of the history: prune and   *)
(* storageAppend lose none and keep no older one.                            *)
THEOREM TheLastHourIsHeld == RingSpec => []RingHoldsTheLastHour
PROOF
  <1>1. RingInv => RingHoldsTheLastHour
    <2>1. SUFFICES ASSUME RingInv PROVE RingHoldsTheLastHour
      OBVIOUS
    <2>2. Pruned = Len(live) /\ Len(live) \in 0 .. recordCount
      BY <2>1, PrunedIs DEF RingInv
    <2>3. live \in [1 .. Len(live) -> Times] /\ recordCount \in Nat
      BY <2>1, LenProperties DEF RingInv, RingTypeOK
    <2>4. \A n \in 1 .. Len(live) : live[n] = history[Slot(n - 1)]
      BY <2>1, <2>2, <2>3 DEF RingInv, LiveInv, At
    <2>5. live = [n \in 1 .. Len(live) |-> live[n]]
      BY <2>3
    <2>6. QED
      BY <2>2, <2>4, <2>5 DEF RingHoldsTheLastHour, Readable
  <1>2. QED
    BY <1>1, RingInvariant, PTL

(* A walk of intervalFromHistory whose generation is still current has read    *)
(* the newest readings in order, without a gap or a repeat, however appends,   *)
(* prunes and time came between its reads.                                     *)
THEOREM WalksAgree == RingSpec => []WalksAreConsistent
PROOF
  <1>1. RingInv => WalksAreConsistent
    <2>1. SUFFICES ASSUME RingInv, reader = "judging", ~Superseded
                   PROVE  /\ Len(live) <= Len(seen) /\ live = SubSeq(seen, 1, Len(live))
                          /\ \A i, j \in DOMAIN seen : i < j => Age(started, seen[i]) < Age(started, seen[j])
      BY DEF WalksAreConsistent
    <2>2. /\ live \in Seq(Times) /\ seen \in Seq(Times) /\ recordCount \in Nat /\ count \in Nat
          /\ Len(live) \in Nat /\ Len(seen) \in Nat /\ DOMAIN seen = 1 .. Len(seen)
          /\ DOMAIN live = 1 .. Len(live)
      BY <2>1, LenProperties DEF RingInv, RingTypeOK
    <2>3. /\ Rising(started, count) /\ Len(live) <= Len(seen) /\ Len(seen) <= count
          /\ \A n \in 1 .. Len(seen) : seen[n] = At(n)
      BY <2>1 DEF RingInv, WalkInv
    <2>4. Len(live) <= recordCount /\ \A n \in 1 .. Len(live) : live[n] = At(n)
      BY <2>1, <2>2 DEF RingInv, LiveInv
    <2>5. \A n \in 1 .. Len(live) : live[n] = seen[n]
      BY <2>2, <2>3, <2>4
    <2>6. live = SubSeq(seen, 1, Len(live))
      <3> DEFINE first == SubSeq(seen, 1, Len(live))
      <3>1. first \in Seq(Times) /\ Len(first) = Len(live) /\ \A n \in 1 .. Len(live) : first[n] = seen[n]
        BY <2>2, <2>3, SubSeqProperties
      <3> HIDE DEF first
      <3>2. QED
        BY <2>2, <2>5, <3>1, SeqEqual DEF first
    <2>7. \A i, j \in DOMAIN seen : i < j => Age(started, seen[i]) < Age(started, seen[j])
      BY <2>2, <2>3 DEF Rising
    <2>8. QED
      BY <2>3, <2>6, <2>7
  <1>2. QED
    BY <1>1, RingInvariant, PTL

(* A reading that no walk has covered is still going to be notified, is being  *)
(* walked, or its notification is pending: schedulerNotifyRecord and the poll  *)
(* lose none between them.  The safety half of ReadingsAreCovered.            *)
THEOREM NothingUnnoticed ==
  RingSpec => [](covered # generation => recordPending \/ writer = "committed" \/ reader # "idle")
PROOF
  <1>1. RingInv => (covered # generation => recordPending \/ writer = "committed" \/ reader # "idle")
    BY DEF RingInv, Noticed
  <1>2. QED
    BY <1>1, RingInvariant, PTL
=============================================================================
