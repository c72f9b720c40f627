--------------------------- MODULE ManagerProofs ---------------------------
(***************************************************************************)
(* Proofs about Manager: a challenge in the reply queue is the pending     *)
(* one, confirmations take effect in time, what is applied is applied once *)
(* and answered, and accepted settings hold; for every set of commands,    *)
(* queue and cache size and length of the window.                          *)
(***************************************************************************)
EXTENDS Manager, SequenceTheorems, TLAPS

TypeOK ==
  /\ state \in {"Off", "Running", "Stopping", "Erasing", "Fault"}
  /\ pc \in {"poll", "report", "receive", "dispatch"}
  /\ inbox \in Commands \cup Malformed \cup {None}
  /\ active \in Settings /\ accepted \in Settings /\ saved \in Settings \cup {None}
  /\ replies \in Seq(Replies) /\ Len(replies) <= QueueSize
  /\ cache \in [Slots -> Entries \cup {None}] /\ cacheNext \in Slots
  /\ reset \in Resets \cup {None} /\ resetAge \in 0..Window
  /\ stopAge \in 0..StopTimeout /\ eraseAttempts \in 0..255
  /\ applied \in Seq(Ids) /\ Len(applied) <= CacheSize + 1
  /\ unanswered \subseteq Ids /\ intact \in BOOLEAN
  /\ confirmed \in Commands \cup {None}

(* A downlink is being dispatched only before the window has closed, and a    *)
(* node that is off owes no answer.                                           *)
LoopInv ==
  /\ pc = "dispatch" => inbox # None /\ (reset # None => resetAge < Window)
  /\ state = "Off" => unanswered = {}

(* A node that stops was asked to, by a confirmation of what is pending. *)
StopInv ==
  state = "Stopping" => /\ reset # None /\ confirmed \in Commands
                        /\ confirmed.type \in {"ConfirmReset", "ConfirmReboot"}
                        /\ (confirmed.type = "ConfirmReboot" <=> reset.action = "Reboot")

(* The ids applied last are those in the cache slots before cacheNext, the    *)
(* latest first.                                                              *)
SlotBefore(k) == IF cacheNext >= k THEN cacheNext - k ELSE cacheNext - k + CacheSize
CacheInv ==
  \A k \in 1..CacheSize :
    k <= Len(applied) => /\ cache[SlotBefore(k)] # None
                         /\ cache[SlotBefore(k)].reply.id = applied[Len(applied) + 1 - k]

IInv == /\ TypeOK /\ LoopInv /\ StopInv /\ CacheInv
        /\ QueuedChallengesAreCurrent /\ AppliedOnce /\ AppliedIsAnswered /\ AcceptedSettingsHold

-----------------------------------------------------------------------------
(* An expired entry is a result under the same id. *)
LEMMA ExpiredReply ==
  ASSUME NEW r \in Replies
  PROVE  /\ Expired(r) \in Replies /\ Expired(r).id = r.id
         /\ ~IsConfirmationChallenge(Expired(r).kind)
PROOF
  BY DEF Replies, Expired, IsConfirmationChallenge

(* expireReset turns the entries it withdraws into results in place. *)
LEMMA WithdrawnQueue ==
  ASSUME NEW q \in Seq(Replies)
  PROVE  /\ Withdrawn(q) \in Seq(Replies) /\ Len(Withdrawn(q)) = Len(q)
         /\ \A i \in 1..Len(q) :
              /\ Withdrawn(q)[i] \in Replies /\ Withdrawn(q)[i].id = q[i].id
              /\ Withdrawn(q)[i] = q[i] \/ ~IsConfirmationChallenge(Withdrawn(q)[i].kind)
              /\ IsConfirmationChallenge(q[i].kind) /\ q[i].id = reset.id =>
                   ~IsConfirmationChallenge(Withdrawn(q)[i].kind)
PROOF
  <1>1. Len(q) \in Nat /\ DOMAIN q = 1..Len(q) /\ \A i \in 1..Len(q) : q[i] \in Replies
    BY LenProperties, ElementOfSeq
  <1>2. \A i \in 1..Len(q) :
           Withdrawn(q)[i] = IF IsConfirmationChallenge(q[i].kind) /\ q[i].id = reset.id
                             THEN Expired(q[i]) ELSE q[i]
    BY <1>1 DEF Withdrawn
  <1>3. \A i \in 1..Len(q) :
           /\ Withdrawn(q)[i] \in Replies /\ Withdrawn(q)[i].id = q[i].id
           /\ Withdrawn(q)[i] = q[i] \/ ~IsConfirmationChallenge(Withdrawn(q)[i].kind)
           /\ IsConfirmationChallenge(q[i].kind) /\ q[i].id = reset.id =>
                ~IsConfirmationChallenge(Withdrawn(q)[i].kind)
    BY <1>1, <1>2, ExpiredReply
  <1>4. Withdrawn(q) \in [1..Len(q) -> Replies]
    <2>1. DOMAIN Withdrawn(q) = 1..Len(q) /\ Withdrawn(q) = [i \in 1..Len(q) |-> Withdrawn(q)[i]]
      BY <1>1 DEF Withdrawn
    <2>2. QED
      BY <1>3, <2>1
  <1>5. Withdrawn(q) \in Seq(Replies)
    BY <1>1, <1>4
  <1>6. Len(Withdrawn(q)) = Len(q)
    BY <1>1, <1>4, <1>5, LenProperties
  <1>7. QED
    BY <1>3, <1>5, <1>6

(* A reply is queued at the tail of a queue that has room. *)
LEMMA EnqueuedReply ==
  ASSUME NEW q \in Seq(Replies), NEW r \in Replies, Len(q) <= QueueSize, Len(q) # QueueSize
  PROVE  /\ Enqueue(q, r) = Append(q, r)
         /\ Enqueue(q, r) \in Seq(Replies) /\ Len(Enqueue(q, r)) = Len(q) + 1
         /\ Len(Enqueue(q, r)) <= QueueSize
         /\ \A i \in 1..Len(q) : Enqueue(q, r)[i] = q[i]
         /\ Enqueue(q, r)[Len(q) + 1] = r
PROOF
  <1>1. Len(q) \in Nat /\ QueueSize \in Nat
    BY LenProperties, ManagerAssumption
  <1>2. Enqueue(q, r) = Append(q, r)
    BY <1>1 DEF Enqueue
  <1>3. QED
    BY <1>1, <1>2, AppendProperties

(* A command that reaches the switch of receiveCommand decodes, and none of   *)
(* the cache has its id.                                                      *)
LEMMA CommandDecodes ==
  ASSUME TypeOK, LoopInv, NEW c, Dispatch(c), Uncached(c)
  PROVE  /\ c \in Commands /\ c.id \in Ids /\ c.type \in Types
         /\ Len(replies) # QueueSize
         /\ \A s \in Slots : cache[s] # None => cache[s].reply.id # c.id
PROOF
  <1>1. c \in Commands
    BY DEF TypeOK, LoopInv, Dispatch, Uncached, Malformed
  <1>2. c.id \in Ids /\ c.type \in Types
    BY <1>1, DataAssumption DEF Ids
  <1>3. QED
    BY <1>1, <1>2 DEF Dispatch, Uncached, CachedAs, HasRoom

(* What replaces settings in force is a setting. *)
LEMMA ProposedSettings ==
  ASSUME TypeOK, NEW c \in Commands, c.type \in {"SetBatch", "ResetSettings"}
  PROVE  Proposed(c) \in Settings /\ Proposed(c) # None
PROOF
  <1>1. Proposed(c) \in Settings
    BY ManagerAssumption, ChangeAssumption DEF TypeOK, Proposed
  <1>2. QED
    BY <1>1, DataAssumption

(* The tail of receiveCommand keeps the types. *)
LEMMA AnswerTyped ==
  ASSUME TypeOK, NEW c \in Commands, NEW r \in Replies, Len(replies) # QueueSize, Answer(c, r)
  PROVE  /\ replies' \in Seq(Replies) /\ Len(replies') = Len(replies) + 1
         /\ Len(replies') <= QueueSize
         /\ \A i \in 1..Len(replies) : replies'[i] = replies[i]
         /\ replies'[Len(replies) + 1] = r
         /\ cache' \in [Slots -> Entries \cup {None}] /\ cacheNext' \in Slots
         /\ applied' \in Seq(Ids) /\ Len(applied') <= CacheSize + 1
         /\ unanswered' = unanswered \cup {c.id} /\ unanswered' \subseteq Ids
         /\ pc' = "poll" /\ inbox' = None
PROOF
  <1>1. /\ replies' = Enqueue(replies, r) /\ unanswered' = unanswered \cup {c.id}
        /\ pc' = "poll" /\ inbox' = None
        /\ cache' = [cache EXCEPT ![cacheNext] = [bytes |-> c, reply |-> r]]
        /\ cacheNext' = (cacheNext + 1) % CacheSize
    BY DEF Answer, Handled, NextSlot
  <1>2. c.id \in Ids
    BY DEF Ids
  <1>3. cache' \in [Slots -> Entries \cup {None}]
    BY <1>1 DEF TypeOK, Entries
  <1>4. cacheNext' \in Slots
    BY <1>1, ManagerAssumption DEF TypeOK, Slots
  <1>5. applied' \in Seq(Ids) /\ Len(applied') <= CacheSize + 1
    <2>1. Len(applied) \in Nat /\ CacheSize \in Nat /\ applied \in Seq(Ids)
          /\ Len(applied) <= CacheSize + 1
      BY LenProperties, ManagerAssumption DEF TypeOK
    <2>2. CASE Len(applied) <= CacheSize
      <3>1. applied' = Append(applied, c.id)
        BY <2>2 DEF Answer
      <3>2. QED
        BY <1>2, <2>1, <2>2, <3>1, AppendProperties
    <2>3. CASE ~(Len(applied) <= CacheSize)
      <3>1. applied' = Append(Tail(applied), c.id)
        BY <2>3 DEF Answer
      <3>2. applied # <<>>
        BY <2>1, <2>3, EmptySeq
      <3>3. Tail(applied) \in Seq(Ids) /\ Len(Tail(applied)) = Len(applied) - 1
        BY <2>1, <3>2, HeadTailProperties
      <3>4. QED
        BY <1>2, <2>1, <3>1, <3>3, AppendProperties
    <2>4. QED
      BY <2>2, <2>3
  <1>6. QED
    <2>1. /\ replies \in Seq(Replies) /\ Len(replies) <= QueueSize /\ unanswered \subseteq Ids
      BY DEF TypeOK
    <2>2. /\ replies' \in Seq(Replies) /\ Len(replies') = Len(replies) + 1 /\ Len(replies') <= QueueSize
          /\ \A i \in 1..Len(replies) : replies'[i] = replies[i]
          /\ replies'[Len(replies) + 1] = r
      BY <1>1, <2>1, EnqueuedReply
    <2>3. unanswered' = unanswered \cup {c.id} /\ unanswered' \subseteq Ids
      BY <1>1, <1>2, <2>1
    <2>4. QED
      BY <1>1, <1>3, <1>4, <1>5, <2>2, <2>3

(* The commands that receiveCommand answers from its switch. *)
Answering == ChangeSettings \/ Query \/ RequestRestart \/ RejectConfirmation

(* Each of them caches and queues one reply to an uncached command, and only  *)
(* a request that finds nothing pending is answered with a challenge: that of *)
(* the operation it makes pending.                                            *)
LEMMA OneAnswer ==
  ASSUME TypeOK, LoopInv, Answering
  PROVE  \E c \in Commands, r \in Replies :
            /\ Dispatch(c) /\ Uncached(c) /\ Answer(c, r) /\ r.id = c.id
            /\ \/ reset' = reset /\ resetAge' = resetAge /\ ~IsConfirmationChallenge(r.kind)
               \/ /\ reset = None /\ reset' \in Resets /\ resetAge' = 0
                  /\ reset'.id = r.id /\ reset'.code = r.value /\ r.kind = PendingChallengeKind'
PROOF
  <1>1. CASE ChangeSettings
    <2>1. PICK c : /\ Dispatch(c) /\ Uncached(c) /\ c.type \in {"SetBatch", "ResetSettings"}
                   /\ \/ Answer(c, Result(c, "Invalid"))
                      \/ active' = Proposed(c) /\ Answer(c, Reply(c, "Configuration", "Accepted", active'))
                      \/ Answer(c, Result(c, "SaveFailed"))
      BY <1>1 DEF ChangeSettings
    <2>2. c \in Commands /\ c.id \in Ids /\ c.type \in Types
      BY <2>1, CommandDecodes
    <2>3. Proposed(c) \in Settings
      BY <2>1, <2>2, ProposedSettings
    <2>4. /\ Result(c, "Invalid") \in Replies /\ Result(c, "Invalid").id = c.id
          /\ Result(c, "SaveFailed") \in Replies /\ Result(c, "SaveFailed").id = c.id
          /\ ~IsConfirmationChallenge(Result(c, "Invalid").kind)
          /\ ~IsConfirmationChallenge(Result(c, "SaveFailed").kind)
      BY <2>2 DEF Result, Reply, Replies, IsConfirmationChallenge
    <2>5. ASSUME active' = Proposed(c)
          PROVE  /\ Reply(c, "Configuration", "Accepted", active') \in Replies
                 /\ Reply(c, "Configuration", "Accepted", active').id = c.id
                 /\ ~IsConfirmationChallenge(Reply(c, "Configuration", "Accepted", active').kind)
      BY <2>2, <2>3, <2>5 DEF Reply, Replies, IsConfirmationChallenge
    <2>6. reset' = reset /\ resetAge' = resetAge
      BY <1>1 DEF ChangeSettings
    <2>7. QED
      BY <2>1, <2>2, <2>4, <2>5, <2>6
  <1>2. CASE Query
    <2>1. PICK c : /\ Dispatch(c) /\ Uncached(c)
                   /\ \/ Answer(c, Reply(c, "Configuration", "Accepted", active))
                      \/ Answer(c, Reply(c, "Status", "Accepted", None))
      BY <1>2 DEF Query
    <2>2. c \in Commands /\ c.id \in Ids /\ c.type \in Types
      BY <2>1, CommandDecodes
    <2>3. \A kind \in {"Configuration", "Status"}, v \in {active, None} :
            /\ Reply(c, kind, "Accepted", v) \in Replies /\ Reply(c, kind, "Accepted", v).id = c.id
            /\ ~IsConfirmationChallenge(Reply(c, kind, "Accepted", v).kind)
      BY <2>2 DEF Reply, Replies, IsConfirmationChallenge, TypeOK
    <2>4. reset' = reset /\ resetAge' = resetAge
      BY <1>2 DEF Query
    <2>5. QED
      BY <2>1, <2>2, <2>3, <2>4
  <1>3. CASE RequestRestart
    <2>1. PICK c : /\ Dispatch(c) /\ Uncached(c) /\ c.type \in {"RequestReset", "RequestReboot"}
                   /\ \/ Answer(c, Result(c, "Busy")) /\ UNCHANGED <<reset, resetAge>>
                      \/ /\ reset = None
                         /\ \E code \in Codes :
                              reset' = [action |-> IF c.type = "RequestReboot" THEN "Reboot"
                                                   ELSE "FactoryReset",
                                        code |-> code, id |-> c.id]
                         /\ resetAge' = 0
                         /\ Answer(c, Reply(c, PendingChallengeKind', "Accepted", reset'.code))
      BY <1>3 DEF RequestRestart
    <2>2. c \in Commands /\ c.id \in Ids /\ c.type \in Types
      BY <2>1, CommandDecodes
    <2>3. CASE Answer(c, Result(c, "Busy")) /\ UNCHANGED <<reset, resetAge>>
      <3>1. /\ Result(c, "Busy") \in Replies /\ Result(c, "Busy").id = c.id
            /\ ~IsConfirmationChallenge(Result(c, "Busy").kind)
        BY <2>2 DEF Result, Reply, Replies, IsConfirmationChallenge
      <3>2. QED
        BY <2>1, <2>2, <2>3, <3>1
    <2>4. CASE /\ reset = None
               /\ \E code \in Codes :
                    reset' = [action |-> IF c.type = "RequestReboot" THEN "Reboot" ELSE "FactoryReset",
                              code |-> code, id |-> c.id]
               /\ resetAge' = 0
               /\ Answer(c, Reply(c, PendingChallengeKind', "Accepted", reset'.code))
      <3>1. reset' \in Resets /\ reset'.id = c.id /\ reset'.code \in Codes
        BY <2>2, <2>4 DEF Resets
      <3>2. PendingChallengeKind' \in {"ResetChallenge", "RebootChallenge"}
        BY DEF PendingChallengeKind
      <3>3. \A kind \in {"ResetChallenge", "RebootChallenge"}, v \in Codes :
              /\ Reply(c, kind, "Accepted", v) \in Replies /\ Reply(c, kind, "Accepted", v).id = c.id
              /\ Reply(c, kind, "Accepted", v).kind = kind /\ Reply(c, kind, "Accepted", v).value = v
        BY <2>2 DEF Reply, Replies
      <3>4. QED
        BY <2>1, <2>2, <2>4, <3>1, <3>2, <3>3
    <2>5. QED
      BY <2>1, <2>3, <2>4
  <1>4. CASE RejectConfirmation
    <2>1. PICK c : /\ Dispatch(c) /\ Uncached(c)
                   /\ \E result \in {"Expired", "Conflict", "WrongCode"} : Answer(c, Result(c, result))
      BY <1>4 DEF RejectConfirmation
    <2>2. c \in Commands /\ c.id \in Ids /\ c.type \in Types
      BY <2>1, CommandDecodes
    <2>3. \A result \in {"Expired", "Conflict", "WrongCode"} :
            /\ Result(c, result) \in Replies /\ Result(c, result).id = c.id
            /\ ~IsConfirmationChallenge(Result(c, result).kind)
      BY <2>2 DEF Result, Reply, Replies, IsConfirmationChallenge
    <2>4. reset' = reset /\ resetAge' = resetAge
      BY <1>4 DEF RejectConfirmation
    <2>5. QED
      BY <2>1, <2>2, <2>3, <2>4
  <1>5. QED
    BY <1>1, <1>2, <1>3, <1>4 DEF Answering

(* An answer from the cache, or to a header alone: a challenge among them is  *)
(* the pending one, and nothing but the queue changes.                        *)
LEMMA AnswerFromCache ==
  ASSUME TypeOK, LoopInv, RejectMalformed \/ Replay
  PROVE  \E r \in Replies : /\ Len(replies) # QueueSize /\ replies' = Enqueue(replies, r)
                            /\ IsConfirmationChallenge(r.kind) => IsPending(r)
PROOF
  <1>1. CASE RejectMalformed
    <2>1. PICK c : Dispatch(c) /\ c.type = "Malformed" /\ replies' = Enqueue(replies, Result(c, "Invalid"))
      BY <1>1 DEF RejectMalformed
    <2>2. c \in Malformed
      BY <2>1, DataAssumption DEF Dispatch, TypeOK, LoopInv, Types
    <2>3. Result(c, "Invalid") \in Replies /\ ~IsConfirmationChallenge(Result(c, "Invalid").kind)
      BY <2>2 DEF Malformed, Result, Reply, Replies, IsConfirmationChallenge
    <2>4. QED
      BY <2>1, <2>3 DEF Dispatch, HasRoom
  <1>2. CASE Replay
    <2>1. PICK c, s : /\ Dispatch(c) /\ c.type # "Malformed" /\ s \in CachedAs(c.id)
                      /\ replies' = Enqueue(replies, AnswerAgain(c, cache[s]))
      BY <1>2 DEF Replay
    <2>2. c \in Commands
      BY <2>1 DEF Dispatch, TypeOK, LoopInv, Malformed
    <2>3. c.id \in Ids /\ c.type \in Types
      BY <2>2, DataAssumption DEF Ids
    <2>4. cache[s] \in Entries /\ cache[s].reply \in Replies
      BY <2>1 DEF CachedAs, TypeOK, Entries
    <2>5. /\ AnswerAgain(c, cache[s]) \in Replies
          /\ IsConfirmationChallenge(AnswerAgain(c, cache[s]).kind) => IsPending(AnswerAgain(c, cache[s]))
      <3>1. CASE cache[s].bytes # c
        <4>1. Result(c, "Conflict") \in Replies /\ ~IsConfirmationChallenge(Result(c, "Conflict").kind)
          BY <2>3 DEF Result, Reply, Replies, IsConfirmationChallenge
        <4>2. QED
          BY <3>1, <4>1 DEF AnswerAgain
      <3>2. CASE cache[s].bytes = c
        BY <2>4, <3>2, ExpiredReply DEF AnswerAgain
      <3>3. QED
        BY <3>1, <3>2
    <2>6. QED
      BY <2>1, <2>5 DEF Dispatch, HasRoom
  <1>3. QED
    BY <1>1, <1>2

-----------------------------------------------------------------------------
(* A node that forgets is as after power-up. *)
LEMMA Forgotten ==
  ASSUME Forget
  PROVE  /\ pc' = "poll" /\ inbox' = None /\ active' \in Settings
         /\ replies' = <<>> /\ replies' \in Seq(Replies) /\ Len(replies') <= QueueSize
         /\ cache' \in [Slots -> Entries \cup {None}] /\ cacheNext' \in Slots
         /\ reset' = None /\ resetAge' \in 0..Window
         /\ stopAge' \in 0..StopTimeout /\ eraseAttempts' \in 0..255
         /\ applied' = <<>> /\ applied' \in Seq(Ids) /\ Len(applied') = 0
         /\ Len(applied') <= CacheSize + 1 /\ unanswered' = {} /\ confirmed' = None
PROOF
  BY EmptySeq, ManagerAssumption DEF Forget, Slots

(* expireReset keeps the types, and leaves a deadline that has not passed. *)
LEMMA ExpireTyped ==
  ASSUME TypeOK, ExpireReset
  PROVE  /\ replies' \in Seq(Replies) /\ Len(replies') = Len(replies)
         /\ \A i \in 1..Len(replies) : replies'[i].id = replies[i].id
         /\ reset' \in Resets \cup {None} /\ resetAge' \in 0..Window
         /\ reset' # None => resetAge' < Window
PROOF
  <1>1. CASE RunOut
    <2>1. reset' = None /\ resetAge' = 0 /\ replies' = Withdrawn(replies)
      BY <1>1 DEF ExpireReset
    <2>2. QED
      BY <2>1, WithdrawnQueue, ManagerAssumption DEF TypeOK
  <1>2. CASE ~RunOut
    BY <1>2, ManagerAssumption DEF ExpireReset, RunOut, TypeOK
  <1>3. QED
    BY <1>1, <1>2

(* A reply taken by an uplink leaves the others in their order. *)
LEMMA SentReply ==
  ASSUME TypeOK, replies # <<>>, replies' = Tail(replies)
  PROVE  /\ replies' \in Seq(Replies) /\ Len(replies') = Len(replies) - 1
         /\ Len(replies) \in Nat \ {0} /\ Len(replies') <= QueueSize
         /\ \A i \in 1..Len(replies') : replies'[i] = replies[i + 1]
         /\ Head(replies) = replies[1]
PROOF
  <1>1. Len(replies) \in Nat \ {0} /\ QueueSize \in Nat
    BY EmptySeq, ManagerAssumption DEF TypeOK
  <1>2. QED
    BY <1>1, HeadTailProperties DEF TypeOK

(* Every step keeps the types. *)
LEMMA TypeStep ==
  ASSUME TypeOK, LoopInv, [Next]_vars
  PROVE  TypeOK'
PROOF
  <1>1. CASE AppSetup
    BY <1>1, ManagerAssumption DEF TypeOK, AppSetup, Loaded, restart
  <1>2. CASE Clock
    BY <1>2, ManagerAssumption DEF TypeOK, Clock, log
  <1>3. CASE Poll
    <2>1. UNCHANGED <<state, inbox, active, saved, cache, cacheNext, restart, log>> /\ pc' = "report"
      BY <1>3 DEF Poll
    <2>2. QED
      BY <1>3, <2>1, ExpireTyped DEF Poll, TypeOK, restart, log
  <1>4. CASE Report
    <2>1. /\ UNCHANGED <<state, inbox, active, saved, cache, cacheNext, reset, resetAge, restart,
                         applied, accepted, intact>>
          /\ pc' \in {"poll", "receive"} /\ unanswered' \subseteq unanswered
      BY <1>4 DEF Report
    <2>2. replies' \in Seq(Replies) /\ Len(replies') <= QueueSize
      BY <1>4, SentReply DEF Report, TypeOK
    <2>3. QED
      BY <2>1, <2>2 DEF TypeOK, restart
  <1>5. CASE BeginReceive
    <2>1. /\ UNCHANGED <<state, active, saved, cache, cacheNext, restart, log>>
          /\ pc' = "dispatch" /\ inbox' \in Commands \cup Malformed /\ ExpireReset
      BY <1>5 DEF BeginReceive, Receive
    <2>2. QED
      BY <2>1, ExpireTyped DEF TypeOK, restart, log
  <1>6. CASE DropForRoom
    BY <1>6 DEF TypeOK, DropForRoom, Handled, memory, restart, log
  <1>7. CASE RejectMalformed \/ Replay
    <2>1. /\ UNCHANGED <<state, saved, active, cache, cacheNext, reset, resetAge, restart, log>>
          /\ pc' = "poll" /\ inbox' = None
      BY <1>7 DEF RejectMalformed, Replay, Handled
    <2>2. replies' \in Seq(Replies) /\ Len(replies') <= QueueSize
      BY <1>7, AnswerFromCache, EnqueuedReply DEF TypeOK
    <2>3. QED
      BY <2>1, <2>2 DEF TypeOK, restart, log
  <1>8. CASE Answering
    <2>1. PICK c \in Commands, r \in Replies :
             /\ Dispatch(c) /\ Uncached(c) /\ Answer(c, r)
             /\ \/ reset' = reset /\ resetAge' = resetAge
                \/ reset' \in Resets /\ resetAge' = 0
      BY <1>8, OneAnswer
    <2>2. UNCHANGED <<state, restart>>
      BY <1>8 DEF Answering, ChangeSettings, Query, RequestRestart, RejectConfirmation
    <2>3. /\ active' \in Settings /\ accepted' \in Settings /\ saved' \in Settings \cup {None}
          /\ intact' \in BOOLEAN
      <3>1. CASE ChangeSettings
        <4>1. PICK d : /\ Dispatch(d) /\ Uncached(d) /\ d.type \in {"SetBatch", "ResetSettings"}
                       /\ active' \in {active, Proposed(d)} /\ accepted' \in {accepted, active'}
                       /\ saved' \in {saved, Proposed(d), None} /\ intact' \in {intact, TRUE, FALSE}
          BY <3>1 DEF ChangeSettings, ActiveAfterFailure
        <4>2. Proposed(d) \in Settings
          BY <4>1, CommandDecodes, ProposedSettings
        <4>3. QED
          BY <4>1, <4>2 DEF TypeOK
      <3>2. CASE Query \/ RequestRestart \/ RejectConfirmation
        BY <3>2 DEF TypeOK, Query, RequestRestart, RejectConfirmation
      <3>3. QED
        BY <1>8, <3>1, <3>2 DEF Answering
    <2>4. reset' \in Resets \cup {None} /\ resetAge' \in 0..Window
      BY <2>1, ManagerAssumption DEF TypeOK
    <2>5. Len(replies) # QueueSize
      BY <2>1 DEF Dispatch, HasRoom
    <2>6. QED
      BY <2>1, <2>2, <2>3, <2>4, <2>5, AnswerTyped DEF TypeOK, restart
  <1>9. CASE Confirm
    <2>1. PICK c : Dispatch(c) /\ Uncached(c) /\ state' = "Stopping" /\ stopAge' = 0 /\ confirmed' = c
      BY <1>9 DEF Confirm
    <2>2. QED
      BY <1>9, <2>1, CommandDecodes, ManagerAssumption DEF TypeOK, Confirm, Handled, memory, log
  <1>10. CASE StopTimesOut
    BY <1>10 DEF TypeOK, StopTimesOut, AfterStopTimeout, memory, restart, log
  <1>11. CASE StopSensor
    <2>1. CASE reset.action = "Reboot"
      BY <1>11, <2>1, Forgotten DEF TypeOK, StopSensor
    <2>2. CASE reset.action # "Reboot"
      BY <1>11, <2>2 DEF TypeOK, StopSensor, memory, log
    <2>3. QED
      BY <2>1, <2>2
  <1>12. CASE EraseStores
    BY <1>12, Forgotten DEF TypeOK, EraseStores
  <1>13. CASE EraseFails
    <2>1. eraseAttempts' \in 0..255 /\ state' \in {"Fault", state}
      BY <1>13 DEF TypeOK, EraseFails
    <2>2. QED
      BY <1>13, <2>1 DEF TypeOK, EraseFails, memory
  <1>14. CASE PowerLoss
    <2>1. Forget /\ UNCHANGED accepted /\ state' = "Off"
      BY <1>14 DEF PowerLoss
    <2>2. saved' \in Settings \cup {None} /\ intact' \in BOOLEAN
      <3>1. CASE UNCHANGED <<saved, intact>>
        BY <3>1 DEF TypeOK
      <3>2. CASE /\ \E c \in {inbox} : /\ Dispatch(c) /\ Uncached(c)
                                       /\ c.type \in {"SetBatch", "ResetSettings"} /\ Valid(Proposed(c))
                                       /\ saved' \in {saved, Proposed(c), None}
                 /\ intact' = FALSE
        <4>1. /\ Dispatch(inbox) /\ Uncached(inbox) /\ inbox.type \in {"SetBatch", "ResetSettings"}
              /\ saved' \in {saved, Proposed(inbox), None} /\ intact' = FALSE
          BY <3>2
        <4>2. inbox \in Commands
          BY <4>1, CommandDecodes
        <4>3. Proposed(inbox) \in Settings
          BY <4>1, <4>2, ProposedSettings
        <4>4. saved \in Settings \cup {None}
          BY DEF TypeOK
        <4>5. QED
          BY <4>1, <4>3, <4>4
      <3>3. CASE state = "Erasing" /\ saved' \in {saved, None} /\ intact' = FALSE
        BY <3>3 DEF TypeOK
      <3>4. QED
        BY <1>14, <3>1, <3>2, <3>3 DEF PowerLoss
    <2>3. QED
      BY <2>1, <2>2, Forgotten DEF TypeOK
  <1>15. CASE UNCHANGED vars
    BY <1>15 DEF TypeOK, vars
  <1>16. QED
    BY <1>1, <1>2, <1>3, <1>4, <1>5, <1>6, <1>7, <1>8, <1>9, <1>10, <1>11, <1>12, <1>13, <1>14, <1>15
       DEF Next, Loop, Restarting, Answering

(* A downlink is dispatched before the window closes: expireReset comes with  *)
(* it and no time passes in between.                                          *)
LEMMA LoopStep ==
  ASSUME TypeOK, LoopInv, [Next]_vars
  PROVE  LoopInv'
PROOF
  <1>1. CASE AppSetup
    BY <1>1 DEF LoopInv, AppSetup
  <1>2. CASE Clock
    BY <1>2 DEF LoopInv, Clock, log
  <1>3. CASE Poll \/ Report
    BY <1>3 DEF LoopInv, Poll, Report
  <1>4. CASE BeginReceive
    <2>1. /\ ExpireReset /\ inbox' \in Commands \cup Malformed
          /\ state = "Running" /\ state' = state
      BY <1>4 DEF BeginReceive, Receive
    <2>2. inbox' # None
      BY <2>1, DataAssumption
    <2>3. QED
      BY <2>1, <2>2, ExpireTyped DEF LoopInv
  <1>5. CASE DropForRoom \/ RejectMalformed \/ Replay \/ Confirm
    BY <1>5 DEF LoopInv, DropForRoom, RejectMalformed, Replay, Confirm, Handled, Dispatch, log
  <1>6. CASE Answering
    <2>1. PICK c \in Commands, r \in Replies : Dispatch(c) /\ Answer(c, r)
      BY <1>6, OneAnswer
    <2>2. state' = state
      BY <1>6 DEF Answering, ChangeSettings, Query, RequestRestart, RejectConfirmation
    <2>3. QED
      BY <2>1, <2>2 DEF LoopInv, Dispatch, Answer, Handled
  <1>7. CASE StopTimesOut \/ EraseFails
    BY <1>7 DEF LoopInv, StopTimesOut, AfterStopTimeout, EraseFails, memory, log
  <1>8. CASE StopSensor
    <2>1. CASE reset.action = "Reboot"
      BY <1>8, <2>1, Forgotten DEF LoopInv, StopSensor
    <2>2. CASE reset.action # "Reboot"
      BY <1>8, <2>2 DEF LoopInv, StopSensor, memory, log
    <2>3. QED
      BY <2>1, <2>2
  <1>9. CASE EraseStores \/ PowerLoss
    BY <1>9, Forgotten DEF LoopInv, EraseStores, PowerLoss
  <1>10. CASE UNCHANGED vars
    BY <1>10 DEF LoopInv, vars
  <1>11. QED
    BY <1>1, <1>2, <1>3, <1>4, <1>5, <1>6, <1>7, <1>8, <1>9, <1>10 DEF Next, Loop, Restarting, Answering

(* A node stops for a confirmation of what is pending, and keeps both. *)
LEMMA StopStep ==
  ASSUME TypeOK, LoopInv, StopInv, [Next]_vars
  PROVE  StopInv'
PROOF
  <1>1. CASE Confirm
    <2>1. PICK c : /\ Dispatch(c) /\ Uncached(c) /\ c.type \in {"ConfirmReset", "ConfirmReboot"}
                   /\ reset # None /\ Matches(c) /\ confirmed' = c
      BY <1>1 DEF Confirm
    <2>2. c \in Commands /\ reset' = reset
      BY <1>1, <2>1, CommandDecodes DEF Confirm, memory
    <2>3. QED
      BY <2>1, <2>2 DEF StopInv, Matches
  <1>2. ASSUME UNCHANGED <<state, reset, confirmed>> PROVE StopInv'
    BY <1>2 DEF StopInv
  <1>3. ASSUME state' # "Stopping" PROVE StopInv'
    BY <1>3 DEF StopInv
  <1>4. CASE AppSetup \/ StopTimesOut \/ StopSensor \/ EraseStores \/ PowerLoss
    BY <1>3, <1>4 DEF AppSetup, StopTimesOut, AfterStopTimeout, StopSensor, EraseStores, PowerLoss
  <1>5. CASE Clock \/ Report \/ DropForRoom \/ RejectMalformed \/ Replay
    BY <1>2, <1>5 DEF Clock, Report, DropForRoom, RejectMalformed, Replay, memory, restart
  <1>6. CASE Poll \/ BeginReceive
    BY <1>3, <1>6 DEF Poll, BeginReceive
  <1>7. CASE Answering
    <2>1. PICK c : Dispatch(c)
      BY <1>7, OneAnswer
    <2>2. state' = state
      BY <1>7 DEF Answering, ChangeSettings, Query, RequestRestart, RejectConfirmation
    <2>3. QED
      BY <1>3, <2>1, <2>2 DEF Dispatch
  <1>8. CASE EraseFails
    BY <1>3, <1>8 DEF EraseFails
  <1>9. CASE UNCHANGED vars
    BY <1>2, <1>9 DEF vars
  <1>10. QED
    BY <1>1, <1>4, <1>5, <1>6, <1>7, <1>8, <1>9 DEF Next, Loop, Restarting, Answering

(* expireReset withdraws the pending challenge from the queue with it, and    *)
(* nothing is queued as a challenge that is not pending.                      *)
LEMMA ChallengeStep ==
  ASSUME TypeOK, LoopInv, QueuedChallengesAreCurrent, [Next]_vars
  PROVE  QueuedChallengesAreCurrent'
PROOF
  <1> DEFINE Current == \A i \in 1..Len(replies) :
                           IsConfirmationChallenge(replies[i].kind) => IsPending(replies[i])
  <1>1. QueuedChallengesAreCurrent <=> Current
    BY LenProperties DEF QueuedChallengesAreCurrent, Challenges, TypeOK
  <1>2. TypeOK'
    BY TypeStep
  <1>3. QueuedChallengesAreCurrent' <=> Current'
    BY <1>2, LenProperties DEF QueuedChallengesAreCurrent, Challenges, TypeOK
  <1>4. Len(replies) \in Nat /\ Len(replies') \in Nat
    BY <1>2, LenProperties DEF TypeOK
  <1>5. ASSUME reset' = reset, NEW r PROVE IsPending(r)' <=> IsPending(r)
    BY <1>5 DEF IsPending, PendingChallengeKind
  <1>6. ASSUME UNCHANGED <<replies, reset>> PROVE Current'
    BY <1>1, <1>5, <1>6
  <1>7. ASSUME replies' = <<>> PROVE Current'
    <2>1. Len(replies') = 0
      BY <1>7, EmptySeq
    <2>2. QED
      BY <2>1
  <1>8. ASSUME ExpireReset PROVE Current'
    <2>1. CASE RunOut
      <3>1. reset' = None /\ replies' = Withdrawn(replies)
        BY <1>8, <2>1 DEF ExpireReset
      <3>2. \A i \in 1..Len(replies) : ~IsConfirmationChallenge(replies'[i].kind)
        <4> SUFFICES ASSUME NEW i \in 1..Len(replies), IsConfirmationChallenge(replies'[i].kind)
                     PROVE  FALSE
          OBVIOUS
        <4>1. replies'[i] = replies[i] /\ replies[i].id # reset.id
          BY <3>1, WithdrawnQueue DEF TypeOK
        <4>2. IsPending(replies[i])
          BY <1>1, <4>1
        <4>3. QED
          BY <4>1, <4>2 DEF IsPending
      <3>3. Len(replies') = Len(replies)
        BY <3>1, WithdrawnQueue DEF TypeOK
      <3>4. QED
        BY <3>2, <3>3
    <2>2. CASE ~RunOut
      BY <1>6, <1>8, <2>2 DEF ExpireReset
    <2>3. QED
      BY <2>1, <2>2
  <1>9. CASE Poll \/ BeginReceive
    BY <1>3, <1>8, <1>9 DEF Poll, BeginReceive, Receive
  <1>10. CASE Report
    <2>1. CASE UNCHANGED replies
      BY <1>3, <1>6, <1>10, <2>1 DEF Report
    <2>2. CASE replies # <<>> /\ replies' = Tail(replies)
      <3>1. reset' = reset
        BY <1>10 DEF Report
      <3>2. \A i \in 1..Len(replies') : i + 1 \in 1..Len(replies) /\ replies'[i] = replies[i + 1]
        BY <1>4, <2>2, SentReply
      <3>3. QED
        BY <1>1, <1>3, <1>5, <3>1, <3>2
    <2>3. QED
      BY <1>10, <2>1, <2>2 DEF Report
  <1>11. ASSUME NEW r \in Replies, Len(replies) # QueueSize, replies' = Enqueue(replies, r),
                reset' = reset \/ (reset = None /\ \A i \in 1..Len(replies) : ~IsPending(replies[i])),
                IsConfirmationChallenge(r.kind) => IsPending(r)'
         PROVE  Current'
    <2>1. /\ Len(replies') = Len(replies) + 1 /\ replies'[Len(replies) + 1] = r
          /\ \A i \in 1..Len(replies) : replies'[i] = replies[i]
      BY <1>11, EnqueuedReply DEF TypeOK
    <2>2. SUFFICES ASSUME NEW i \in 1..Len(replies'), IsConfirmationChallenge(replies'[i].kind)
                   PROVE  IsPending(replies[i])'
      OBVIOUS
    <2>3. CASE i = Len(replies) + 1
      BY <1>11, <2>1, <2>2, <2>3 DEF IsPending, PendingChallengeKind
    <2>4. CASE i # Len(replies) + 1
      <3>1. i \in 1..Len(replies)
        BY <1>4, <2>1, <2>4
      <3>2. IsPending(replies[i])
        BY <1>1, <2>1, <2>2, <3>1
      <3>3. reset' = reset
        BY <1>11, <3>1, <3>2
      <3>4. QED
        BY <2>1, <3>1, <3>2, <3>3 DEF IsPending, PendingChallengeKind
    <2>5. QED
      BY <2>3, <2>4
  <1>12. CASE RejectMalformed \/ Replay
    <2>1. PICK r \in Replies : /\ Len(replies) # QueueSize /\ replies' = Enqueue(replies, r)
                               /\ IsConfirmationChallenge(r.kind) => IsPending(r)
      BY <1>12, AnswerFromCache
    <2>2. reset' = reset
      BY <1>12 DEF RejectMalformed, Replay
    <2>3. IsPending(r)' <=> IsPending(r)
      BY <1>5, <2>2
    <2>4. QED
      BY <1>3, <1>11, <2>1, <2>2, <2>3
  <1>13. CASE Answering
    <2>1. PICK c \in Commands, r \in Replies :
            /\ Dispatch(c) /\ Answer(c, r)
            /\ \/ reset' = reset /\ ~IsConfirmationChallenge(r.kind)
               \/ /\ reset = None /\ reset' \in Resets
                  /\ reset'.id = r.id /\ reset'.code = r.value /\ r.kind = PendingChallengeKind'
      BY <1>13, OneAnswer
    <2>2. Len(replies) # QueueSize /\ replies' = Enqueue(replies, r)
      BY <2>1 DEF Dispatch, HasRoom, Answer
    <2>3. CASE reset' = reset /\ ~IsConfirmationChallenge(r.kind)
      BY <1>3, <1>11, <2>2, <2>3
    <2>4. CASE /\ reset = None /\ reset' \in Resets
               /\ reset'.id = r.id /\ reset'.code = r.value /\ r.kind = PendingChallengeKind'
      <3>1. IsPending(r)'
        BY <2>4, DataAssumption DEF IsPending
      <3>2. \A i \in 1..Len(replies) : ~IsPending(replies[i])
        BY <2>4 DEF IsPending
      <3>3. QED
        BY <1>3, <1>11, <2>2, <2>4, <3>1, <3>2
    <2>5. QED
      BY <2>1, <2>3, <2>4
  <1>14. CASE AppSetup \/ Clock \/ DropForRoom \/ Confirm \/ StopTimesOut \/ EraseFails
    BY <1>3, <1>6, <1>14 DEF AppSetup, Clock, DropForRoom, Confirm, StopTimesOut, EraseFails, memory
  <1>15. CASE StopSensor
    BY <1>3, <1>6, <1>7, <1>15, Forgotten DEF StopSensor, memory
  <1>16. CASE EraseStores \/ PowerLoss
    BY <1>3, <1>7, <1>16, Forgotten DEF EraseStores, PowerLoss
  <1>17. CASE UNCHANGED vars
    BY <1>3, <1>6, <1>17 DEF vars
  <1>18. QED
    BY <1>9, <1>10, <1>12, <1>13, <1>14, <1>15, <1>16, <1>17 DEF Next, Loop, Restarting, Answering

(* A reply leaves the queue only with an uplink, which settles its request. *)
LEMMA AnsweredStep ==
  ASSUME TypeOK, LoopInv, AppliedIsAnswered, [Next]_vars
  PROVE  AppliedIsAnswered'
PROOF
  <1>1. Len(replies) \in Nat /\ DOMAIN replies = 1..Len(replies)
    BY LenProperties DEF TypeOK
  <1>2. Len(replies') \in Nat /\ DOMAIN replies' = 1..Len(replies')
    BY TypeStep, LenProperties DEF TypeOK
  <1>3. ASSUME state' # "Running" PROVE AppliedIsAnswered'
    BY <1>3 DEF AppliedIsAnswered
  <1>4. ASSUME UNCHANGED <<state, replies, unanswered>> PROVE AppliedIsAnswered'
    BY <1>4 DEF AppliedIsAnswered
  <1>5. CASE AppSetup
    BY <1>5 DEF AppliedIsAnswered, AppSetup, LoopInv
  <1>6. CASE Poll \/ BeginReceive
    <2>1. ExpireReset /\ UNCHANGED <<state, unanswered>> /\ state = "Running"
      BY <1>6 DEF Poll, BeginReceive, Receive, log
    <2>2. Len(replies') = Len(replies) /\ \A i \in 1..Len(replies) : replies'[i].id = replies[i].id
      BY <2>1, ExpireTyped
    <2>3. QED
      BY <1>1, <1>2, <2>1, <2>2 DEF AppliedIsAnswered
  <1>7. CASE Report
    <2>1. CASE UNCHANGED <<replies, unanswered>>
      BY <1>4, <1>7, <2>1 DEF Report
    <2>2. CASE /\ replies # <<>> /\ replies' = Tail(replies)
               /\ unanswered' = unanswered \ {Head(replies).id}
      <3>1. /\ Head(replies) = replies[1] /\ Len(replies') = Len(replies) - 1
            /\ \A i \in 1..Len(replies') : replies'[i] = replies[i + 1]
        BY <2>2, SentReply
      <3>2. SUFFICES ASSUME NEW id \in unanswered, id # replies[1].id
                     PROVE  \E i \in DOMAIN replies' : replies'[i].id = id
        BY <2>2, <3>1 DEF AppliedIsAnswered
      <3>3. PICK i \in 1..Len(replies) : replies[i].id = id
        BY <1>1, <1>7 DEF AppliedIsAnswered, Report
      <3>4. i - 1 \in 1..Len(replies') /\ i = (i - 1) + 1
        BY <1>1, <1>2, <3>1, <3>2, <3>3
      <3>5. replies'[i - 1].id = id
        BY <3>1, <3>3, <3>4
      <3>6. QED
        BY <1>2, <3>4, <3>5
    <2>3. QED
      BY <1>7, <2>1, <2>2 DEF Report
  <1>8. CASE RejectMalformed \/ Replay
    <2>1. PICK r \in Replies : Len(replies) # QueueSize /\ replies' = Enqueue(replies, r)
      BY <1>8, AnswerFromCache
    <2>2. UNCHANGED <<state, unanswered>>
      BY <1>8 DEF RejectMalformed, Replay, log
    <2>3. /\ Len(replies') = Len(replies) + 1
          /\ \A i \in 1..Len(replies) : replies'[i] = replies[i]
      BY <2>1, EnqueuedReply DEF TypeOK
    <2>4. QED
      BY <1>1, <1>2, <2>2, <2>3 DEF AppliedIsAnswered
  <1>9. CASE Answering
    <2>1. PICK c \in Commands, r \in Replies : Dispatch(c) /\ Answer(c, r) /\ r.id = c.id
      BY <1>9, OneAnswer
    <2>2. /\ Len(replies') = Len(replies) + 1 /\ replies'[Len(replies) + 1] = r
          /\ \A i \in 1..Len(replies) : replies'[i] = replies[i]
          /\ unanswered' = unanswered \cup {c.id}
      BY <2>1, AnswerTyped DEF Dispatch, HasRoom
    <2>3. SUFFICES ASSUME NEW id \in unanswered'
                   PROVE  \E i \in DOMAIN replies' : replies'[i].id = id
      BY DEF AppliedIsAnswered
    <2>4. CASE id = c.id
      <3>1. Len(replies) + 1 \in DOMAIN replies' /\ replies'[Len(replies) + 1].id = id
        BY <1>1, <1>2, <2>1, <2>2, <2>4
      <3>2. QED
        BY <3>1
    <2>5. CASE id # c.id
      <3>1. PICK i \in 1..Len(replies) : replies[i].id = id
        BY <1>1, <2>1, <2>2, <2>3, <2>5 DEF AppliedIsAnswered, Dispatch
      <3>2. i \in DOMAIN replies' /\ replies'[i].id = id
        BY <1>1, <1>2, <2>2, <3>1
      <3>3. QED
        BY <3>2
    <2>6. QED
      BY <2>4, <2>5
  <1>10. CASE Clock \/ DropForRoom
    BY <1>4, <1>10 DEF Clock, DropForRoom, memory, log
  <1>11. CASE Confirm \/ StopTimesOut \/ StopSensor \/ EraseStores \/ PowerLoss
    BY <1>3, <1>11 DEF Confirm, StopTimesOut, AfterStopTimeout, StopSensor, EraseStores, PowerLoss
  <1>12. CASE EraseFails
    BY <1>3, <1>12 DEF EraseFails
  <1>13. CASE UNCHANGED vars
    BY <1>4, <1>13 DEF vars
  <1>14. QED
    BY <1>5, <1>6, <1>7, <1>8, <1>9, <1>10, <1>11, <1>12, <1>13 DEF Next, Loop, Restarting, Answering

(* Settings are in force only when saved, and a save that fails is known. *)
LEMMA SettingsStep ==
  ASSUME TypeOK, LoopInv, AcceptedSettingsHold, [Next]_vars
  PROVE  AcceptedSettingsHold'
PROOF
  <1>1. ASSUME UNCHANGED <<active, saved, accepted, intact>>, state' = "Running" => state = "Running"
        PROVE  AcceptedSettingsHold'
    BY <1>1 DEF AcceptedSettingsHold, Loaded
  <1>2. ASSUME UNCHANGED accepted, state' # "Running", UNCHANGED <<saved, intact>> \/ intact' = FALSE
        PROVE  AcceptedSettingsHold'
    BY <1>2 DEF AcceptedSettingsHold, Loaded
  <1>3. CASE AppSetup
    <2>1. /\ active' = Loaded(saved) \/ active' = Default
          /\ accepted' = active' /\ saved' = saved
          /\ intact' = (saved = None \/ active' = saved)
      BY <1>3 DEF AppSetup
    <2>2. CASE saved = None
      BY <2>1, <2>2 DEF AcceptedSettingsHold, Loaded
    <2>3. CASE saved # None
      BY <2>1, <2>3 DEF AcceptedSettingsHold, Loaded
    <2>4. QED
      BY <2>2, <2>3
  <1>4. CASE ChangeSettings
    <2>1. PICK c : /\ Dispatch(c) /\ Uncached(c) /\ c.type \in {"SetBatch", "ResetSettings"}
                   /\ \/ UNCHANGED <<active, saved, accepted, intact>>
                      \/ saved' = Proposed(c) /\ active' = Proposed(c) /\ accepted' = active'
                      \/ active' = active /\ intact' = FALSE /\ UNCHANGED accepted
      BY <1>4 DEF ChangeSettings, ActiveAfterFailure
    <2>2. state' = state
      BY <1>4 DEF ChangeSettings
    <2>3. CASE UNCHANGED <<active, saved, accepted, intact>>
      BY <1>1, <2>2, <2>3
    <2>4. CASE saved' = Proposed(c) /\ active' = Proposed(c) /\ accepted' = active'
      <3>1. Proposed(c) # None
        BY <2>1, CommandDecodes, ProposedSettings
      <3>2. QED
        BY <2>4, <3>1 DEF AcceptedSettingsHold, Loaded
    <2>5. CASE active' = active /\ intact' = FALSE /\ UNCHANGED accepted
      BY <2>2, <2>5 DEF AcceptedSettingsHold
    <2>6. QED
      BY <2>1, <2>3, <2>4, <2>5
  <1>5. CASE Clock \/ Poll \/ Report \/ BeginReceive \/ DropForRoom
    BY <1>1, <1>5 DEF Clock, Poll, Report, BeginReceive, DropForRoom, memory, log
  <1>6. CASE RejectMalformed \/ Replay \/ Query \/ RequestRestart \/ RejectConfirmation
    BY <1>1, <1>6 DEF RejectMalformed, Replay, Query, RequestRestart, RejectConfirmation, log
  <1>7. CASE Confirm \/ StopTimesOut
    BY <1>2, <1>7 DEF Confirm, StopTimesOut, AfterStopTimeout, memory, log
  <1>8. CASE StopSensor
    BY <1>2, <1>8 DEF StopSensor, log
  <1>9. CASE EraseStores
    BY <1>2, <1>9 DEF EraseStores
  <1>10. CASE EraseFails
    BY <1>2, <1>10 DEF EraseFails
  <1>11. CASE PowerLoss
    BY <1>2, <1>11 DEF PowerLoss
  <1>12. CASE UNCHANGED vars
    BY <1>1, <1>12 DEF vars
  <1>13. QED
    BY <1>3, <1>4, <1>5, <1>6, <1>7, <1>8, <1>9, <1>10, <1>11, <1>12 DEF Next, Loop, Restarting

-----------------------------------------------------------------------------
(* The history of applied ids grows at its end, and what it keeps it keeps at *)
(* the same distance from the end.                                            *)
LEMMA HistoryGrows ==
  ASSUME TypeOK, NEW c \in Commands, NEW r \in Replies, Len(replies) # QueueSize, Answer(c, r)
  PROVE  /\ Len(applied) \in Nat /\ Len(applied') \in 1..CacheSize + 1
         /\ applied'[Len(applied')] = c.id
         /\ \A k \in 1..Len(applied') - 1 :
              /\ k <= Len(applied) /\ k <= CacheSize
              /\ applied'[Len(applied') - k] = applied[Len(applied) + 1 - k]
PROOF
  <1>1. /\ Len(applied) \in Nat /\ CacheSize \in Nat \ {0} /\ applied \in Seq(Ids)
        /\ Len(applied) <= CacheSize + 1
    BY LenProperties, ManagerAssumption DEF TypeOK
  <1>2. c.id \in Ids
    BY DEF Ids
  <1>3. CASE Len(applied) <= CacheSize
    <2>1. applied' = Append(applied, c.id)
      BY <1>3 DEF Answer
    <2>2. /\ Len(applied') = Len(applied) + 1 /\ applied'[Len(applied) + 1] = c.id
          /\ \A i \in 1..Len(applied) : applied'[i] = applied[i]
      BY <1>1, <1>2, <2>1, AppendProperties
    <2>3. QED
      BY <1>1, <1>3, <2>2
  <1>4. CASE ~(Len(applied) <= CacheSize)
    <2>1. applied' = Append(Tail(applied), c.id) /\ applied # <<>>
      BY <1>1, <1>4, EmptySeq DEF Answer
    <2>2. /\ Tail(applied) \in Seq(Ids) /\ Len(Tail(applied)) = Len(applied) - 1
          /\ \A i \in 1..Len(applied) - 1 : Tail(applied)[i] = applied[i + 1]
      BY <1>1, <2>1, HeadTailProperties
    <2>3. /\ Len(applied') = Len(applied) /\ applied'[Len(applied)] = c.id
          /\ \A i \in 1..Len(applied) - 1 : applied'[i] = applied[i + 1]
      BY <1>1, <1>2, <2>1, <2>2, AppendProperties
    <2>4. QED
      BY <1>1, <1>4, <2>3
  <1>5. QED
    BY <1>3, <1>4

(* Filling a slot moves every other one a place further back. *)
LEMMA SlotsMove ==
  ASSUME TypeOK, cacheNext' = (cacheNext + 1) % CacheSize
  PROVE  /\ SlotBefore(1)' = cacheNext
         /\ \A k \in 1..CacheSize - 1 : /\ SlotBefore(k + 1)' = SlotBefore(k)
                                        /\ SlotBefore(k) # cacheNext
         /\ \A k \in 1..CacheSize : SlotBefore(k) \in Slots
PROOF
  <1>1. CacheSize \in Nat \ {0} /\ cacheNext \in 0..CacheSize - 1
    BY ManagerAssumption DEF TypeOK, Slots
  <1>2. cacheNext' = IF cacheNext + 1 = CacheSize THEN 0 ELSE cacheNext + 1
    BY <1>1
  <1>3. QED
    BY <1>1, <1>2 DEF SlotBefore, Slots

(* The cache holds the ids applied last. *)
LEMMA CacheStep ==
  ASSUME TypeOK, LoopInv, CacheInv, [Next]_vars
  PROVE  CacheInv'
PROOF
  <1>1. ASSUME UNCHANGED <<cache, cacheNext, applied>> PROVE CacheInv'
    BY <1>1 DEF CacheInv, SlotBefore
  <1>2. ASSUME Forget PROVE CacheInv'
    BY <1>2, Forgotten, ManagerAssumption DEF CacheInv
  <1>3. CASE Answering
    <2>1. PICK c \in Commands, r \in Replies :
            Dispatch(c) /\ Uncached(c) /\ Answer(c, r) /\ r.id = c.id
      BY <1>3, OneAnswer
    <2>2. Len(replies) # QueueSize
      BY <2>1 DEF Dispatch, HasRoom
    <2>3. /\ cache' = [cache EXCEPT ![cacheNext] = [bytes |-> c, reply |-> r]]
          /\ cacheNext' = (cacheNext + 1) % CacheSize
      BY <2>1 DEF Answer, NextSlot
    <2>4. /\ cacheNext \in Slots /\ cache'[cacheNext].reply.id = c.id /\ cache'[cacheNext] # None
          /\ \A s \in Slots : s # cacheNext => cache'[s] = cache[s]
      <3>1. [bytes |-> c, reply |-> r] \in Entries
        BY DEF Entries
      <3>2. [bytes |-> c, reply |-> r] # None
        BY <3>1, DataAssumption
      <3>3. cache'[cacheNext] = [bytes |-> c, reply |-> r]
        BY <2>3 DEF TypeOK
      <3>4. QED
        BY <2>1, <2>3, <3>2, <3>3 DEF TypeOK
    <2>5. /\ Len(applied) \in Nat /\ Len(applied') \in 1..CacheSize + 1
          /\ applied'[Len(applied')] = c.id
          /\ \A k \in 1..Len(applied') - 1 :
               /\ k <= Len(applied) /\ k <= CacheSize
               /\ applied'[Len(applied') - k] = applied[Len(applied) + 1 - k]
      BY <2>1, <2>2, HistoryGrows
    <2>6. SUFFICES ASSUME NEW k \in 1..CacheSize, k <= Len(applied')
                   PROVE  /\ cache'[SlotBefore(k)'] # None
                          /\ cache'[SlotBefore(k)'].reply.id = applied'[Len(applied') + 1 - k]
      BY DEF CacheInv
    <2>7. CASE k = 1
      <3>1. SlotBefore(k)' = cacheNext
        BY <2>3, <2>7, SlotsMove
      <3>2. Len(applied') + 1 - k = Len(applied')
        BY <2>5, <2>7
      <3>3. QED
        BY <2>4, <2>5, <3>1, <3>2
    <2>8. CASE k # 1
      <3> DEFINE j == k - 1
      <3>1. /\ j \in 1..CacheSize - 1 /\ j \in 1..CacheSize /\ j \in 1..Len(applied') - 1
            /\ k = j + 1 /\ Len(applied') + 1 - k = Len(applied') - j
        BY <2>5, <2>6, <2>8, ManagerAssumption
      <3> HIDE DEF j
      <3>2. SlotBefore(k)' = SlotBefore(j) /\ SlotBefore(j) \in Slots /\ SlotBefore(j) # cacheNext
        BY <2>3, <3>1, SlotsMove
      <3>3. /\ cache[SlotBefore(j)] # None
            /\ cache[SlotBefore(j)].reply.id = applied[Len(applied) + 1 - j]
        BY <2>5, <3>1 DEF CacheInv
      <3>4. QED
        BY <2>4, <2>5, <3>1, <3>2, <3>3
    <2>9. QED
      BY <2>7, <2>8
  <1>4. CASE AppSetup \/ Clock \/ Poll \/ Report \/ BeginReceive \/ DropForRoom
    BY <1>1, <1>4 DEF AppSetup, Clock, Poll, Report, BeginReceive, DropForRoom, memory, log
  <1>5. CASE RejectMalformed \/ Replay \/ Confirm \/ StopTimesOut \/ EraseFails
    BY <1>1, <1>5 DEF RejectMalformed, Replay, Confirm, StopTimesOut, EraseFails, memory, log
  <1>6. CASE StopSensor
    BY <1>1, <1>2, <1>6 DEF StopSensor, memory, log
  <1>7. CASE EraseStores \/ PowerLoss
    BY <1>2, <1>7 DEF EraseStores, PowerLoss
  <1>8. CASE UNCHANGED vars
    BY <1>1, <1>8 DEF vars
  <1>9. QED
    BY <1>3, <1>4, <1>5, <1>6, <1>7, <1>8 DEF Next, Loop, Restarting, Answering

(* An id that is applied is not in the cache, so not among those before it. *)
LEMMA OnceStep ==
  ASSUME TypeOK, LoopInv, CacheInv, AppliedOnce, [Next]_vars
  PROVE  AppliedOnce'
PROOF
  <1>1. ASSUME applied' = applied PROVE AppliedOnce'
    BY <1>1 DEF AppliedOnce
  <1>2. ASSUME Forget PROVE AppliedOnce'
    <2>1. DOMAIN applied' = 1..0
      BY <1>2, Forgotten, LenProperties
    <2>2. QED
      BY <2>1 DEF AppliedOnce
  <1>3. CASE Answering
    <2>1. PICK c \in Commands, r \in Replies :
            Dispatch(c) /\ Uncached(c) /\ Answer(c, r) /\ r.id = c.id
      BY <1>3, OneAnswer
    <2>2. Len(replies) # QueueSize /\ \A s \in Slots : cache[s] # None => cache[s].reply.id # c.id
      BY <2>1, CommandDecodes
    <2>3. /\ Len(applied) \in Nat /\ Len(applied') \in 1..CacheSize + 1
          /\ applied'[Len(applied')] = c.id
          /\ \A k \in 1..Len(applied') - 1 :
               /\ k <= Len(applied) /\ k <= CacheSize
               /\ applied'[Len(applied') - k] = applied[Len(applied) + 1 - k]
      BY <2>1, <2>2, HistoryGrows
    <2>4. \A k \in 1..CacheSize : SlotBefore(k) \in Slots
      BY <2>1, SlotsMove DEF Answer, NextSlot
    <2>5. \A k \in 1..Len(applied') - 1 : applied[Len(applied) + 1 - k] # c.id
      <3> SUFFICES ASSUME NEW k \in 1..Len(applied') - 1
                   PROVE  applied[Len(applied) + 1 - k] # c.id
        OBVIOUS
      <3>1. k \in 1..CacheSize /\ k <= Len(applied)
        BY <2>3, ManagerAssumption
      <3>2. /\ SlotBefore(k) \in Slots /\ cache[SlotBefore(k)] # None
            /\ cache[SlotBefore(k)].reply.id = applied[Len(applied) + 1 - k]
        BY <2>4, <3>1 DEF CacheInv
      <3>3. QED
        BY <2>2, <3>2
    <2>6. DOMAIN applied = 1..Len(applied)
      BY LenProperties DEF TypeOK
    <2>7. DOMAIN applied' = 1..Len(applied')
      BY <2>1, <2>2, AnswerTyped, LenProperties
    <2>8. \A k \in 1..Len(applied') - 1 : Len(applied) + 1 - k \in DOMAIN applied
      BY <2>3, <2>6
    <2>9. \A i, j \in 1..Len(applied') : i < j => applied'[i] # applied'[j]
      <3> SUFFICES ASSUME NEW i \in 1..Len(applied'), NEW j \in 1..Len(applied'), i < j
                   PROVE  applied'[i] # applied'[j]
        OBVIOUS
      <3>1. /\ Len(applied') - i \in 1..Len(applied') - 1
            /\ i = Len(applied') - (Len(applied') - i)
        BY <2>3
      <3>2. applied'[i] = applied[Len(applied) + 1 - (Len(applied') - i)]
        BY <2>3, <3>1
      <3>3. CASE j = Len(applied')
        BY <2>3, <2>5, <3>1, <3>2, <3>3
      <3>4. CASE j # Len(applied')
        <4>1. /\ Len(applied') - j \in 1..Len(applied') - 1
              /\ j = Len(applied') - (Len(applied') - j)
          BY <2>3, <3>4
        <4>2. applied'[j] = applied[Len(applied) + 1 - (Len(applied') - j)]
          BY <2>3, <4>1
        <4>3. Len(applied) + 1 - (Len(applied') - i) # Len(applied) + 1 - (Len(applied') - j)
          BY <2>3
        <4>4. QED
          BY <2>8, <3>1, <3>2, <4>1, <4>2, <4>3 DEF AppliedOnce
      <3>5. QED
        BY <3>3, <3>4
    <2>10. QED
      BY <2>3, <2>7, <2>9 DEF AppliedOnce
  <1>4. CASE AppSetup \/ Clock \/ Poll \/ Report \/ BeginReceive \/ DropForRoom
    BY <1>1, <1>4 DEF AppSetup, Clock, Poll, Report, BeginReceive, DropForRoom, log
  <1>5. CASE RejectMalformed \/ Replay \/ Confirm \/ StopTimesOut \/ EraseFails
    BY <1>1, <1>5 DEF RejectMalformed, Replay, Confirm, StopTimesOut, EraseFails, log
  <1>6. CASE StopSensor
    BY <1>1, <1>2, <1>6 DEF StopSensor, log
  <1>7. CASE EraseStores \/ PowerLoss
    BY <1>2, <1>7 DEF EraseStores, PowerLoss
  <1>8. CASE UNCHANGED vars
    BY <1>1, <1>8 DEF vars, log
  <1>9. QED
    BY <1>3, <1>4, <1>5, <1>6, <1>7, <1>8 DEF Next, Loop, Restarting, Answering

-----------------------------------------------------------------------------
(* The manager as it is built satisfies all of it. *)
LEMMA InitInv == Init => IInv
PROOF
  <1> SUFFICES ASSUME Init PROVE IInv
    OBVIOUS
  <1>1. TypeOK
    BY EmptySeq, ManagerAssumption DEF Init, TypeOK, Slots
  <1>2. LoopInv /\ StopInv /\ AppliedIsAnswered /\ AcceptedSettingsHold
    BY DEF Init, LoopInv, StopInv, AppliedIsAnswered, AcceptedSettingsHold, Loaded
  <1>3. Len(applied) = 0 /\ DOMAIN applied = 1..0 /\ DOMAIN replies = 1..0
    BY EmptySeq, LenProperties DEF Init
  <1>4. CacheInv
    BY <1>3 DEF CacheInv
  <1>5. QueuedChallengesAreCurrent /\ AppliedOnce
    BY <1>3 DEF QueuedChallengesAreCurrent, Challenges, AppliedOnce
  <1>6. QED
    BY <1>1, <1>2, <1>4, <1>5 DEF IInv

(* appLoop and receiveCommand keep the types, the window of a dispatch, the    *)
(* confirmation behind a stop and the match of cache and history, and with    *)
(* them the four invariants of the manager.                                   *)
THEOREM ManagerInvariant == Spec => []IInv
PROOF
  <1>1. IInv /\ [Next]_vars => IInv'
    BY TypeStep, LoopStep, StopStep, CacheStep, ChallengeStep, OnceStep, AnsweredStep, SettingsStep
       DEF IInv
  <1>2. QED
    BY <1>1, InitInv, PTL DEF Spec

(* expireReset withdraws what has run out: a challenge that waits in the queue *)
(* is the pending one with its code, for every length of queue and window.    *)
THEOREM ChallengesCurrent == Spec => []QueuedChallengesAreCurrent
PROOF
  <1>1. IInv => QueuedChallengesAreCurrent
    BY DEF IInv
  <1>2. QED
    BY <1>1, ManagerInvariant, PTL

(* receiveCommand applies a request once while its id can be in the cache. *)
THEOREM NothingAppliedTwice == Spec => []AppliedOnce
PROOF
  <1>1. IInv => AppliedOnce
    BY DEF IInv
  <1>2. QED
    BY <1>1, ManagerInvariant, PTL

(* receiveCommand applies nothing it has no room to answer. *)
THEOREM NothingUnanswered == Spec => []AppliedIsAnswered
PROOF
  <1>1. IInv => AppliedIsAnswered
    BY DEF IInv
  <1>2. QED
    BY <1>1, ManagerInvariant, PTL

(* acceptSettings puts in force only what the next boot loads. *)
THEOREM SettingsHold == Spec => []AcceptedSettingsHold
PROOF
  <1>1. IInv => AcceptedSettingsHold
    BY DEF IInv
  <1>2. QED
    BY <1>1, ManagerInvariant, PTL

(* receiveCommand acts on a confirmation only inside the window, and           *)
(* resetStep erases only for a confirmed factory reset.                       *)
THEOREM ConfirmedInTime == Spec => ConfirmationInTime
PROOF
  <1>1. IInv /\ [Next]_vars => [StopsInTime]_vars
    <2> SUFFICES ASSUME IInv, Next PROVE StopsInTime
      OBVIOUS
    <2>0. TypeOK /\ LoopInv /\ StopInv
      BY DEF IInv
    <2>1. ASSUME state = "Running", state' = "Stopping" PROVE resetAge < Window
      <3>1. Confirm
        BY <2>1 DEF Next, AppSetup, Clock, Loop, Poll, Report, BeginReceive, DropForRoom,
             RejectMalformed, Replay, ChangeSettings, Query, RequestRestart, RejectConfirmation,
             StopTimesOut, Restarting, StopSensor, EraseStores, EraseFails, PowerLoss
      <3>2. QED
        BY <2>0, <3>1 DEF Confirm, Dispatch, LoopInv
    <2>2. ASSUME state = "Stopping", state' = "Erasing" PROVE confirmed.type = "ConfirmReset"
      <3>1. CASE StopSensor
        BY <2>0, <2>2, <3>1 DEF StopSensor, StopInv
      <3>2. CASE ~StopSensor
        BY <2>2, <3>2 DEF Next, AppSetup, Clock, Loop, Poll, Report, BeginReceive, DropForRoom,
             RejectMalformed, Replay, ChangeSettings, Query, RequestRestart, RejectConfirmation,
             Confirm, Dispatch, StopTimesOut, AfterStopTimeout, Restarting, EraseStores, EraseFails, PowerLoss
      <3>3. QED
        BY <3>1, <3>2
    <2>3. QED
      BY <2>1, <2>2 DEF StopsInTime
  <1>2. QED
    BY <1>1, ManagerInvariant, PTL DEF Spec, ConfirmationInTime
=============================================================================
