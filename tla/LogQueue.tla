------------------------------ MODULE LogQueue ------------------------------
(***************************************************************************)
(* The bounded serial log of log_service.cpp in a build with every level.   *)
(* It belongs to the main thread, so an action is a call, and one byte of   *)
(* logPump is an action: its byte and time limits may end it after any.     *)
(* A line is two bytes long, so that it can be partly sent.                 *)
(***************************************************************************)
EXTENDS Integers, Sequences, FiniteSets

CONSTANTS Slots, Reserved,     \* LOG_SLOTS, LOG_RESERVED_SLOTS
          Trace,               \* the least severe level; ERROR is 1, WARN 2, OFF 0
          MaxWrites            \* bound on the messages of a history

ASSUME LogAssumption == /\ Slots \in Nat /\ Reserved \in 1..(Slots - 1)
                        /\ Trace \in Nat /\ Trace > 2 /\ MaxWrites \in Nat

Off == 0
Warn == 2
Levels == 1..Trace

VARIABLES
  queue,            \* gLogQueue from gLogHead: [level, sent, id]
  level,            \* gRuntimeLevel
  ready,            \* gLogReady
  noticePending,    \* gLogDropNoticePending
  backpressured,    \* gLogBackpressured
  state,            \* gLogState, which logState() reports
  writes,           \* history: messages so far; a record's id is its number
  open,             \* history: a line on the wire has no end yet
  cut               \* history: OFF was set in the middle of a line

vars == <<queue, level, ready, noticePending, backpressured, state, writes, open, cut>>

Init == /\ queue = <<>> /\ level = 3 /\ ready = FALSE /\ noticePending = FALSE
        /\ backpressured = FALSE /\ state = "Stopped" /\ writes = 0 /\ open = FALSE /\ cut = FALSE

-----------------------------------------------------------------------------
(* logUpdateState, at the end of every call that changes something; backed is *)
(* gLogBackpressured before it.                                              *)
Waiting == queue' # <<>> \/ noticePending'
UpdateState(backed) ==
  /\ state' = IF ~ready' THEN "Stopped" ELSE IF level' = Off THEN "Disabled"
              ELSE IF ~Waiting THEN "Idle" ELSE IF backed THEN "Backpressured" ELSE "Queued"
  /\ backpressured' = (backed /\ state' # "Idle")

Begin == /\ ~ready /\ ready' = TRUE
         /\ UNCHANGED <<queue, level, noticePending, writes, open, cut>> /\ UpdateState(backpressured)

SetLevel(new) ==
  /\ level' = new
  /\ IF new = Off THEN queue' = <<>> /\ noticePending' = FALSE /\ cut' = open
                  ELSE UNCHANGED <<queue, noticePending, cut>>
  /\ UNCHANGED <<ready, writes, open>> /\ UpdateState(backpressured /\ new # Off)

(* logMakeRoom: the limit for a level, and the record that makes way: of the  *)
(* unsent and less severe ones the least severe, and of these the oldest.     *)
Limit_Unreserved(l) == Slots                                            \* mutant
Limit(l) == IF l <= Warn THEN Slots ELSE Slots - Reserved
Victims_Sent(l) == {i \in DOMAIN queue : queue[i].level > l}            \* mutant
Victims(l) == {i \in DOMAIN queue : queue[i].sent = 0 /\ queue[i].level > l}
Victim(l) == CHOOSE i \in Victims(l) :
               \A j \in Victims(l) : queue[j].level < queue[i].level \/ (queue[j].level = queue[i].level /\ i <= j)
Without(s, i) == SubSeq(s, 1, i - 1) \o SubSeq(s, i + 1, Len(s))
Record(l) == [level |-> l, sent |-> 0, id |-> writes + 1]

Write(l) ==
  /\ writes < MaxWrites /\ l <= level /\ writes' = writes + 1
  /\ \/ /\ Len(queue) < Limit(l)
        /\ queue' = Append(queue, Record(l)) /\ UNCHANGED noticePending
     \/ /\ Len(queue) >= Limit(l) /\ Victims(l) # {}
        /\ queue' = Append(Without(queue, Victim(l)), Record(l))
        /\ noticePending' = TRUE
     \/ /\ Len(queue) >= Limit(l) /\ Victims(l) = {}
        /\ noticePending' = TRUE /\ UNCHANGED queue
  /\ UNCHANGED <<level, ready, open, cut>> /\ UpdateState(backpressured)

(* logPump with nothing queued: the notice of what was dropped, unless the    *)
(* level filters it.                                                         *)
Cleared_Unfiltered == IF level >= Warn THEN FALSE ELSE noticePending     \* mutant
Cleared == FALSE
Notice ==
  /\ ready /\ queue = <<>> /\ noticePending
  /\ noticePending' = Cleared
  /\ IF level >= Warn THEN queue' = <<[level |-> Warn, sent |-> 0, id |-> writes]>>
                      ELSE UNCHANGED queue
  /\ UNCHANGED <<level, ready, writes, open, cut>> /\ UpdateState(backpressured)

(* One byte of the oldest line, when the port takes it.                      *)
Byte ==
  /\ ready /\ queue # <<>>
  /\ IF Head(queue).sent = 0 THEN queue' = [queue EXCEPT ![1].sent = 1] /\ open' = TRUE
                             ELSE queue' = Tail(queue) /\ open' = FALSE
  /\ cut' = FALSE
  /\ UNCHANGED <<level, ready, noticePending, writes>> /\ UpdateState(FALSE)
Blocked == /\ ready /\ queue # <<>>
           /\ UNCHANGED <<queue, level, ready, noticePending, writes, open, cut>> /\ UpdateState(TRUE)

Next == \/ Begin \/ Notice \/ Byte \/ Blocked
        \/ \E l \in Levels \cup {Off} : SetLevel(l)
        \/ \E l \in Levels : Write(l)
Spec == Init /\ [][Next]_vars

(* appSetup begins the log and appLoop pumps it on every pass; the port       *)
(* becomes writeable again.                                                  *)
FairSpec == Spec /\ WF_vars(Begin) /\ WF_vars(Notice) /\ WF_vars(Byte)

-----------------------------------------------------------------------------
(* The reserve: INFO and less severe lines never hold the reserved slots,     *)
(* however levels, evictions and partial sends alternate, so a WARN or ERROR  *)
(* is refused only when others as severe hold all but one of the slots.       *)
(* What stays, evictions or not, stays in the order it was written in.        *)
ReserveIsKept ==
  /\ Len(queue) <= Slots
  /\ Cardinality({i \in DOMAIN queue : queue[i].level > Warn}) <= Slots - Reserved
  /\ \A i, j \in DOMAIN queue : i < j => queue[i].id < queue[j].id /\ queue[j].sent = 0

(* A line that has begun is finished before another begins, also when the     *)
(* queue is full; only OFF cuts it.                                          *)
BegunLinesFinish == open /\ ~cut => queue # <<>> /\ Head(queue).sent = 1

(* The log comes to rest and says so: the queue drains, a pending notice is    *)
(* written or given up, and the cached state does not go on to report a port   *)
(* that held it up.                                                          *)
LogDrains == <>[](queue = <<>> /\ ~noticePending /\ ~backpressured /\ state \in {"Idle", "Disabled"})
=============================================================================
