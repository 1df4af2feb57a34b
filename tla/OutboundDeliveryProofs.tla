----------------------- MODULE OutboundDeliveryProofs -----------------------
(***************************************************************************)
(* Theorems about OutboundDelivery, for every set of messages, workers and *)
(* channels and every retry budget.                                        *)
(*                                                                         *)
(* NoMessageLost is not inductive.  A worker that archives a row it gave   *)
(* up relies on the copy it inserted before, but by then another process   *)
(* may have archived that copy, relying on a copy of its own, and so on.   *)
(* What cannot happen is a circle: every copy is inserted after the row it *)
(* was made from was read, so it has a larger msg_id.  Covered says that a *)
(* row about to be archived has a live copy further up the log, and that   *)
(* is preserved, because whoever archives that copy is covered in turn.    *)
(***************************************************************************)
EXTENDS OutboundDelivery, TLAPS

Busy(p) == p.pc \notin {"stopped", "read"}

(* A process between two rows holds none; a busy one holds a row of the    *)
(* queue it polls.                                                         *)
SenderHolds ==
    \A w \in Senders :
        /\ ~Busy(sender[w]) => sender[w].id = 0
        /\ Busy(sender[w]) => /\ sender[w].id \in Ids
                              /\ table[sender[w].id].queue = WorkerChannel[w]

RetrierHolds ==
    \A r \in Retriers :
        /\ ~Busy(retrier[r]) => retrier[r].id = 0
        /\ Busy(retrier[r]) => /\ retrier[r].id \in Ids
                               /\ table[retrier[r].id].queue = DLQ

LaterCopy(id) == \E j \in Ids : /\ id < j
                                /\ Live(j)
                                /\ table[j].msg = table[id].msg

Covered(id) == Settled(table[id].msg) \/ LaterCopy(id)

(* What a process about to archive a row relies on.                        *)
ArchivesCovered ==
    /\ \A w \in Senders :
           /\ sender[w].pc \in {"emit", "archive"} => Settled(Envelope(w).msg)
           /\ sender[w].pc = "drop" => Covered(sender[w].id)
    /\ \A r \in Retriers :
           retrier[r].pc = "archive" => Covered(retrier[r].id)

(* NoMessageLost, row by row.                                              *)
RowsHeld ==
    \A id \in Ids : \/ Settled(table[id].msg)
                    \/ \E j \in Ids : Live(j) /\ table[j].msg = table[id].msg

IInv == /\ TypeOK
        /\ SenderHolds
        /\ RetrierHolds
        /\ ArchivesCovered
        /\ RowsHeld
-----------------------------------------------------------------------------
(* How the three queue operations change the log.                          *)

LEMMA IdsAreNumbers == ASSUME NEW t \in Seq(Row) PROVE DOMAIN t \subseteq Nat
  OBVIOUS

(* Inserting a row leaves the rows before it alone.                        *)
LEMMA InsertAppends ==
    ASSUME table \in Seq(Row), NEW q \in Queues, NEW m \in Msgs, NEW n \in Nat,
           NEW o \in Channels \cup {NoChannel}, NEW st \in {"visible", "hidden"},
           Insert(q, m, n, o, st)
    PROVE  /\ table' \in Seq(Row)
           /\ Len(table') = Len(table) + 1
           /\ \A i \in Ids : i \in Ids' /\ table'[i] = table[i]
           /\ \A i \in Ids' : i \in Ids \/ i = Len(table) + 1
           /\ Len(table) + 1 \in Ids'
           /\ table'[Len(table) + 1] = [queue |-> q, msg |-> m, retries |-> n,
                                        origin |-> o, state |-> st]
  <1>1. [queue |-> q, msg |-> m, retries |-> n, origin |-> o, state |-> st] \in Row
    BY DEF Row
  <1>2. QED
    BY <1>1 DEF Insert, Ids

(* Changing the state of a row changes nothing else.                       *)
LEMMA StateChange ==
    ASSUME table \in Seq(Row), NEW id \in Ids,
           NEW st \in {"visible", "hidden", "archived"},
           table' = [table EXCEPT ![id].state = st]
    PROVE  /\ table' \in Seq(Row)
           /\ Ids' = Ids
           /\ Len(table') = Len(table)
           /\ \A i \in Ids : /\ table'[i].queue = table[i].queue
                             /\ table'[i].msg = table[i].msg
                             /\ table'[i].retries = table[i].retries
                             /\ table'[i].origin = table[i].origin
                             /\ i # id => table'[i] = table[i]
           /\ table'[id].state = st
  <1>1. /\ Ids' = Ids
        /\ Len(table') = Len(table)
        /\ Ids = 1..Len(table)
    BY DEF Ids
  <1>2. \A i \in Ids : table[i] \in Row
    BY <1>1
  <1>3. \A i \in Ids : table'[i] = IF i = id THEN [table[id] EXCEPT !.state = st]
                                             ELSE table[i]
    BY DEF Ids
  <1>4. \A i \in Ids : table'[i] \in Row
    <2>1. [table[id] EXCEPT !.state = st] \in Row
      BY <1>2 DEF Row
    <2>2. QED
      BY <1>2, <1>3, <2>1
  <1>5. table' \in Seq(Row)
    BY <1>1, <1>4 DEF Ids
  <1>6. QED
    BY <1>1, <1>2, <1>3, <1>5 DEF Row

-----------------------------------------------------------------------------
(* Type correctness.                                                       *)

(* A busy process has read a row that exists, and its fields have types.   *)
LEMMA HeldRow ==
    ASSUME TypeOK, NEW id \in Ids
    PROVE  /\ table[id].queue \in Queues
           /\ table[id].msg \in Msgs
           /\ table[id].retries \in Nat
           /\ table[id].origin \in Channels \cup {NoChannel}
           /\ table[id].state \in {"visible", "hidden", "archived"}
  <1>1. table[id] \in Row
    BY DEF TypeOK, Ids
  <1>2. QED
    BY <1>1 DEF Row

LEMMA PlusType ==
    ASSUME NEW cap \in Nat, NEW count \in 0..cap, NEW n \in Nat
    PROVE  /\ Plus(count, n, cap) \in 0..cap
           /\ count > 0 => Plus(count, n, cap) > 0
           /\ cap > 0 /\ n > 0 => Plus(count, n, cap) > 0
  BY DEF Plus

LEMMA InitTypeOK == Init => TypeOK
  <1> SUFFICES ASSUME Init PROVE TypeOK
    OBVIOUS
  <1>1. table \in Seq(Row)
    BY DEF Init
  <1>2. 0 \in 0..CountCap /\ 0 \in 0..RefusalCap
    BY SenderAssumption
  <1>3. /\ sender \in [Senders -> [pc : SenderSteps, id : Nat]]
        /\ retrier \in [Retriers -> [pc : RetrySteps, id : Nat]]
    BY DEF Init, SenderInit, RetryInit, SenderSteps, RetrySteps, Stopped
  <1>4. QED
    BY <1>1, <1>2, <1>3 DEF Init, SenderInit, RetryInit, TypeOK

LEMMA SenderStepType ==
    ASSUME TypeOK, SenderHolds, NEW w \in Senders, SenderStep(w)
    PROVE  /\ table' \in Seq(Row)
           /\ sender' \in [Senders -> [pc : SenderSteps, id : Nat]]
           /\ sent' \in [Msgs -> 0..CountCap]
           /\ billed' \in [Msgs -> 0..CountCap]
           /\ refusals' \in [Msgs -> 0..RefusalCap]
           /\ disturbed' \in SUBSET Msgs
  <1> DEFINE Goal == /\ table' \in Seq(Row)
                     /\ sender' \in [Senders -> [pc : SenderSteps, id : Nat]]
                     /\ sent' \in [Msgs -> 0..CountCap]
                     /\ billed' \in [Msgs -> 0..CountCap]
                     /\ refusals' \in [Msgs -> 0..RefusalCap]
                     /\ disturbed' \in SUBSET Msgs
  <1> USE DEF TypeOK
  <1>1. \A step \in SenderSteps, i \in Nat :
           [sender EXCEPT ![w] = [pc |-> step, id |-> i]]
               \in [Senders -> [pc : SenderSteps, id : Nat]]
    OBVIOUS
  <1>2. \A step \in SenderSteps :
           [sender EXCEPT ![w].pc = step]
               \in [Senders -> [pc : SenderSteps, id : Nat]]
    OBVIOUS
  <1>3. Busy(sender[w]) => Envelope(w).msg \in Msgs /\ sender[w].id \in Ids
    BY HeldRow DEF SenderHolds, Envelope
  <1>4. CountCap \in Nat /\ RefusalCap \in Nat
    BY SenderAssumption
  <1>5. CASE Start(w)
    BY <1>1, <1>5 DEF Start, NextPoll, Polling, SenderSteps
  <1>6. CASE Shutdown(w)
    BY <1>1, <1>6 DEF Shutdown, Halt, Stopped, SenderSteps
  <1>7. ASSUME NEW id \in Ids, ReadOne(w, id) PROVE Goal
    <2>1. table' \in Seq(Row)
      BY <1>7, StateChange DEF ReadOne, Read
    <2>2. id \in Nat
      BY DEF Ids
    <2>3. QED
      BY <1>1, <1>7, <2>1, <2>2 DEF ReadOne, SenderSteps
  <1>8. ASSUME NEW e \in Endings, NEW n \in Acceptances, Dispatch(w, e, n)
        PROVE  Goal
    <2>1. Busy(sender[w])
      BY <1>8 DEF Dispatch, Working, Busy
    <2> DEFINE m == Envelope(w).msg
    <2>2. m \in Msgs
      BY <1>3, <2>1
    <2>3. n \in Nat
      BY DEF Acceptances
    <2>4. sent' \in [Msgs -> 0..CountCap]
      <3>1. sent' = [sent EXCEPT ![m] = Plus(sent[m], n, CountCap)]
        BY <1>8 DEF Dispatch
      <3>2. Plus(sent[m], n, CountCap) \in 0..CountCap
        BY <1>4, <2>2, <2>3, PlusType
      <3>3. QED
        BY <2>2, <3>1, <3>2
    <2>5. refusals' \in [Msgs -> 0..RefusalCap]
      <3>1. \/ refusals' = [refusals EXCEPT ![m] = Plus(refusals[m], 1, RefusalCap)]
            \/ refusals' = refusals
        BY <1>8 DEF Dispatch
      <3>2. Plus(refusals[m], 1, RefusalCap) \in 0..RefusalCap
        BY <1>4, <2>2, PlusType
      <3>3. QED
        BY <2>2, <3>1, <3>2
    <2>6. disturbed' \in SUBSET Msgs
      BY <1>8, <2>2 DEF Dispatch, Disturb
    <2>7. sender' \in [Senders -> [pc : SenderSteps, id : Nat]]
      <3>1. \/ sender' = [sender EXCEPT ![w].pc = "emit"]
            \/ sender' = [sender EXCEPT ![w].pc = "dlq"]
            \/ sender' = [sender EXCEPT ![w] = [pc |-> "read", id |-> 0]]
            \/ sender' = [sender EXCEPT ![w] = [pc |-> "stopped", id |-> 0]]
        BY <1>8 DEF Dispatch, Goto, NextPoll, Halt, Polling, Stopped
      <3>2. /\ [sender EXCEPT ![w].pc = "emit"]
                   \in [Senders -> [pc : SenderSteps, id : Nat]]
            /\ [sender EXCEPT ![w].pc = "dlq"]
                   \in [Senders -> [pc : SenderSteps, id : Nat]]
        BY <1>2 DEF SenderSteps
      <3>3. /\ [sender EXCEPT ![w] = [pc |-> "read", id |-> 0]]
                   \in [Senders -> [pc : SenderSteps, id : Nat]]
            /\ [sender EXCEPT ![w] = [pc |-> "stopped", id |-> 0]]
                   \in [Senders -> [pc : SenderSteps, id : Nat]]
        BY <1>1 DEF SenderSteps
      <3>4. QED
        BY <3>1, <3>2, <3>3
    <2>8. QED
      BY <1>8, <2>4, <2>5, <2>6, <2>7 DEF Dispatch
  <1>9. ASSUME NEW recorded \in 0..1, EmitBilling(w, recorded) PROVE Goal
    <2>1. Envelope(w).msg \in Msgs
      BY <1>3, <1>9 DEF EmitBilling, Working, Busy
    <2>2. Plus(billed[Envelope(w).msg], recorded, CountCap) \in 0..CountCap
      <3>1. recorded \in Nat /\ billed[Envelope(w).msg] \in 0..CountCap
        BY <2>1
      <3>2. QED
        BY <1>4, <3>1, PlusType
    <2>3. QED
      BY <1>2, <1>9, <2>1, <2>2 DEF EmitBilling, Goto, SenderSteps
  <1>10. CASE ArchiveSent(w)
    <2>1. table' \in Seq(Row)
      BY <1>3, <1>10, StateChange DEF ArchiveSent, Archive, Working, Busy
    <2>2. QED
      BY <1>1, <1>10, <2>1 DEF ArchiveSent, NextPoll, Polling, SenderSteps
  <1>11. CASE ArchiveSentFails(w)
    BY <1>1, <1>3, <1>11 DEF ArchiveSentFails, NextPoll, Polling, SenderSteps,
                             Disturb, Working, Busy
  <1>12. CASE SendToDlq(w)
    <2>1. Busy(sender[w])
      BY <1>12 DEF SendToDlq, Working, Busy
    <2>2. /\ Envelope(w).msg \in Msgs
          /\ Envelope(w).retries \in Nat
      BY <1>3, <2>1, HeldRow DEF Envelope
    <2>3. WorkerChannel[w] \in Channels
      BY SenderAssumption
    <2>4. table' \in Seq(Row)
      BY <1>12, <2>2, <2>3, InsertAppends DEF SendToDlq, Queues
    <2>5. QED
      BY <1>2, <1>12, <2>4 DEF SendToDlq, Goto, SenderSteps
  <1>13. CASE ArchiveDead(w)
    <2>1. table' \in Seq(Row)
      BY <1>3, <1>13, StateChange DEF ArchiveDead, Archive, Working, Busy
    <2>2. QED
      BY <1>1, <1>13, <2>1 DEF ArchiveDead, NextPoll, Polling, SenderSteps
  <1>14. CASE SenderDies(w)
    BY <1>1, <1>3, <1>14 DEF SenderDies, Halt, Stopped, SenderSteps, Disturb,
                             Busy
  <1>15. QED
    BY <1>5, <1>6, <1>7, <1>8, <1>9, <1>10, <1>11, <1>12, <1>13, <1>14
       DEF SenderStep

LEMMA RetryStepType ==
    ASSUME TypeOK, RetrierHolds, NEW r \in Retriers,
           RetryStep(r) \/ RetrierDies(r)
    PROVE  /\ table' \in Seq(Row)
           /\ retrier' \in [Retriers -> [pc : RetrySteps, id : Nat]]
           /\ failed' \in SUBSET Msgs
  <1> DEFINE Goal == /\ table' \in Seq(Row)
                     /\ retrier' \in [Retriers -> [pc : RetrySteps, id : Nat]]
                     /\ failed' \in SUBSET Msgs
  <1> USE DEF TypeOK
  <1>1. \A step \in RetrySteps, i \in Nat :
           [retrier EXCEPT ![r] = [pc |-> step, id |-> i]]
               \in [Retriers -> [pc : RetrySteps, id : Nat]]
    OBVIOUS
  <1>2. \A step \in RetrySteps :
           [retrier EXCEPT ![r].pc = step]
               \in [Retriers -> [pc : RetrySteps, id : Nat]]
    OBVIOUS
  <1>3. Busy(retrier[r]) => DlqRow(r).msg \in Msgs /\ retrier[r].id \in Ids
    BY HeldRow DEF RetrierHolds, DlqRow
  <1>4. CASE RetryStart(r)
    BY <1>1, <1>4 DEF RetryStart, Polling, RetrySteps
  <1>5. CASE RetryShutdown(r)
    BY <1>1, <1>5 DEF RetryShutdown, Stopped, RetrySteps
  <1>6. ASSUME NEW id \in Ids, RetryReadOne(r, id) PROVE Goal
    <2>1. table' \in Seq(Row)
      BY <1>6, StateChange DEF RetryReadOne, Read
    <2>2. id \in Nat
      BY DEF Ids
    <2>3. QED
      BY <1>1, <1>6, <2>1, <2>2 DEF RetryReadOne, RetrySteps
  <1>7. CASE GiveUp(r)
    <2>1. table' \in Seq(Row)
      BY <1>3, <1>7, StateChange DEF GiveUp, Archive, Retrying, Busy
    <2>2. QED
      BY <1>1, <1>3, <1>7, <2>1 DEF GiveUp, Polling, RetrySteps, Retrying, Busy
  <1>8. CASE Requeue(r)
    <2>1. Busy(retrier[r])
      BY <1>8 DEF Requeue, Retrying, Busy
    <2>2. /\ DlqRow(r).msg \in Msgs
          /\ DlqRow(r).retries + 1 \in Nat
          /\ DlqRow(r).origin \in Channels \cup {NoChannel}
      BY <1>3, <2>1, HeldRow DEF DlqRow
    <2>3. TargetChannel(DlqRow(r)) \in Queues
      BY <2>2, RetryAssumption DEF TargetChannel, Queues
    <2>4. table' \in Seq(Row)
      BY <1>8, <2>2, <2>3, InsertAppends DEF Requeue
    <2>5. QED
      BY <1>2, <1>8, <2>4 DEF Requeue, RetrySteps
  <1>9. CASE ArchiveRequeued(r)
    <2>1. table' \in Seq(Row)
      BY <1>3, <1>9, StateChange DEF ArchiveRequeued, Archive, Retrying, Busy
    <2>2. QED
      BY <1>1, <1>9, <2>1 DEF ArchiveRequeued, Polling, RetrySteps
  <1>10. CASE RetrierDies(r)
    BY <1>1, <1>10 DEF RetrierDies, Stopped, RetrySteps
  <1>11. QED
    BY <1>4, <1>5, <1>6, <1>7, <1>8, <1>9, <1>10 DEF RetryStep

LEMMA TypeStep ==
    ASSUME TypeOK, SenderHolds, RetrierHolds, [Next]_vars
    PROVE  TypeOK'
  <1>1. ASSUME NEW m \in Msgs, NEW n \in InitialRetries, Enqueue(m, n)
        PROVE  TypeOK'
    <2>1. MsgChannel[m] \in Queues /\ n \in Nat
      BY DeliveryAssumption DEF Queues
    <2>2. table' \in Seq(Row)
      BY <1>1, <2>1, InsertAppends DEF Enqueue, TypeOK
    <2>3. QED
      BY <1>1, <2>2 DEF Enqueue, TypeOK, senderVars, retryVars
  <1>2. ASSUME NEW id \in Ids, VtExpires(id)
        PROVE  TypeOK'
    <2>1. table' \in Seq(Row)
      BY <1>2, StateChange DEF VtExpires, Reappear, TypeOK
    <2>2. disturbed' \in SUBSET Msgs
      <3>1. table[id].msg \in Msgs
        BY HeldRow
      <3>2. \/ disturbed' = disturbed
            \/ disturbed' = disturbed \cup {table[id].msg}
        BY <1>2 DEF VtExpires, Disturb
      <3>3. QED
        BY <3>1, <3>2 DEF TypeOK
    <2>3. QED
      BY <1>2, <2>1, <2>2 DEF VtExpires, TypeOK, retryVars
  <1>3. ASSUME NEW w \in Senders, SenderStep(w), UNCHANGED retryVars
        PROVE  TypeOK'
    <2>1. retrier' = retrier /\ failed' = failed
      BY <1>3 DEF retryVars
    <2>2. QED
      BY <1>3, <2>1, SenderStepType DEF TypeOK
  <1>4. ASSUME NEW r \in Retriers, RetryStep(r), UNCHANGED senderVars
        PROVE  TypeOK'
    <2>1. /\ table' \in Seq(Row)
          /\ retrier' \in [Retriers -> [pc : RetrySteps, id : Nat]]
          /\ failed' \in SUBSET Msgs
      BY <1>4, RetryStepType
    <2>2. QED
      BY <1>4, <2>1 DEF TypeOK, senderVars
  <1>5. ASSUME NEW r \in Retriers, RetrierCrash(r)
        PROVE  TypeOK'
    <2>1. /\ table' \in Seq(Row)
          /\ retrier' \in [Retriers -> [pc : RetrySteps, id : Nat]]
          /\ failed' \in SUBSET Msgs
      BY <1>5, RetryStepType DEF RetrierCrash
    <2>2. disturbed' \in SUBSET Msgs
      <3>1. Retrying(r, "archive") => DlqRow(r).msg \in Msgs
        BY HeldRow DEF Retrying, RetrierHolds, Busy, DlqRow
      <3>2. QED
        BY <1>5, <3>1 DEF RetrierCrash, Disturb, TypeOK
    <2>3. QED
      BY <1>5, <2>1, <2>2 DEF RetrierCrash, TypeOK
  <1>6. CASE UNCHANGED vars
    BY <1>6 DEF vars, senderVars, retryVars, TypeOK
  <1>7. QED
    BY <1>1, <1>2, <1>3, <1>4, <1>5, <1>6 DEF Next

-----------------------------------------------------------------------------
(* What a step does to the log and to the processes.                       *)

(* A row stays where it is and keeps its payload.                          *)
LogKept ==
    \A i \in Ids : /\ i \in Ids'
                   /\ table'[i].queue = table[i].queue
                   /\ table'[i].msg = table[i].msg
                   /\ table'[i].retries = table[i].retries
                   /\ table'[i].origin = table[i].origin

SettledNext(m) == sent'[m] > 0 \/ m \in failed'

(* The four things a step can do to the log.                               *)
Relabels == \E id \in Ids, st \in {"visible", "hidden"} :
                Live(id) /\ table' = [table EXCEPT ![id].state = st]

ArchivesSafely == \E id \in Ids :
                      /\ Archive(id)
                      /\ SettledNext(table[id].msg) \/ LaterCopy(id)

Inserts == \E q \in Queues, m \in Msgs, n \in Nat,
              o \in Channels \cup {NoChannel}, st \in {"visible", "hidden"} :
                  Insert(q, m, n, o, st)

LogEffect == UNCHANGED table \/ Relabels \/ ArchivesSafely \/ Inserts

(* Where the process that takes a step ends up.                            *)
SenderMove(w) ==
    /\ sender' = [sender EXCEPT ![w] = sender'[w]]
    /\ \/ sender'[w] \in {Stopped, Polling}
       \/ /\ Busy(sender[w])
          /\ Busy(sender'[w])
          /\ sender'[w].id = sender[w].id
          /\ \/ sender'[w].pc = "emit" /\ sent'[Envelope(w).msg] > 0
             \/ sender'[w].pc = "archive" /\ sender[w].pc = "emit"
             \/ sender'[w].pc = "dlq"
             \/ sender'[w].pc = "drop" /\ SendToDlq(w)
       \/ \E id \in Ids : /\ sender'[w] = [pc |-> "dispatch", id |-> id]
                          /\ table[id].queue = WorkerChannel[w]

LEMMA SenderMoves ==
    ASSUME TypeOK, SenderHolds, NEW w \in Senders, SenderStep(w)
    PROVE  SenderMove(w)
  <1> USE DEF TypeOK
  <1>1. CASE Start(w)
    BY <1>1 DEF Start, NextPoll, SenderMove
  <1>2. CASE Shutdown(w)
    BY <1>2 DEF Shutdown, Halt, SenderMove
  <1>3. ASSUME NEW id \in Ids, ReadOne(w, id) PROVE SenderMove(w)
    BY <1>3 DEF ReadOne, Read, SenderMove
  <1>4. ASSUME NEW e \in Endings, NEW n \in Acceptances, Dispatch(w, e, n)
        PROVE  SenderMove(w)
    <2>1. Busy(sender[w]) /\ Working(w, "dispatch")
      BY <1>4 DEF Dispatch, Working, Busy
    <2> DEFINE m == Envelope(w).msg
    <2>2. m \in Msgs
      BY <2>1, HeldRow DEF SenderHolds, Envelope
    <2>3. e = "routed" => sent'[m] > 0
      <3>1. sent'[m] = Plus(sent[m], n, CountCap) /\ MayEnd(m, e, n)
        BY <1>4, <2>2 DEF Dispatch
      <3>2. e = "routed" => n > 0
        BY <3>1 DEF MayEnd, Acceptances
      <3>3. CountCap \in Nat /\ CountCap > 0 /\ n \in Nat /\ sent[m] \in 0..CountCap
        BY <2>2, SenderAssumption DEF Acceptances
      <3>4. n > 0 => Plus(sent[m], n, CountCap) > 0
        BY <3>3, PlusType
      <3>5. QED
        BY <3>1, <3>2, <3>4
    <2>4. \/ sender' = [sender EXCEPT ![w].pc = "emit"] /\ e = "routed"
          \/ sender' = [sender EXCEPT ![w].pc = "dlq"]
          \/ sender' = [sender EXCEPT ![w] = Polling]
          \/ sender' = [sender EXCEPT ![w] = Stopped]
      BY <1>4 DEF Dispatch, Goto, NextPoll, Halt
    <2>5. QED
      BY <2>1, <2>3, <2>4 DEF SenderMove, Busy
  <1>5. ASSUME NEW recorded \in 0..1, EmitBilling(w, recorded) PROVE SenderMove(w)
    BY <1>5 DEF EmitBilling, Goto, Working, Busy, SenderMove
  <1>6. CASE ArchiveSent(w)
    BY <1>6 DEF ArchiveSent, NextPoll, SenderMove
  <1>7. CASE ArchiveSentFails(w)
    BY <1>7 DEF ArchiveSentFails, NextPoll, SenderMove
  <1>8. CASE SendToDlq(w)
    <2>1. sender' = [sender EXCEPT ![w].pc = "drop"] /\ sender[w].pc = "dlq"
      BY <1>8 DEF SendToDlq, Goto, Working
    <2>2. QED
      BY <1>8, <2>1 DEF SenderMove, Busy
  <1>9. CASE ArchiveDead(w)
    BY <1>9 DEF ArchiveDead, NextPoll, SenderMove
  <1>10. CASE SenderDies(w)
    BY <1>10 DEF SenderDies, Halt, SenderMove
  <1>11. QED
    BY <1>1, <1>2, <1>3, <1>4, <1>5, <1>6, <1>7, <1>8, <1>9, <1>10
       DEF SenderStep

RetrierMove(r) ==
    /\ retrier' = [retrier EXCEPT ![r] = retrier'[r]]
    /\ \/ retrier'[r] \in {Stopped, Polling}
       \/ /\ Busy(retrier[r])
          /\ retrier'[r] = [retrier[r] EXCEPT !.pc = "archive"]
          /\ Requeue(r)
       \/ \E id \in Ids : /\ retrier'[r] = [pc |-> "handle", id |-> id]
                          /\ table[id].queue = DLQ

LEMMA RetrierMoves ==
    ASSUME TypeOK, NEW r \in Retriers, RetryStep(r) \/ RetrierDies(r)
    PROVE  RetrierMove(r)
  <1> USE DEF TypeOK
  <1>1. CASE RetryStart(r)
    BY <1>1 DEF RetryStart, RetrierMove
  <1>2. CASE RetryShutdown(r)
    BY <1>2 DEF RetryShutdown, RetrierMove
  <1>3. ASSUME NEW id \in Ids, RetryReadOne(r, id) PROVE RetrierMove(r)
    BY <1>3 DEF RetryReadOne, Read, RetrierMove
  <1>4. CASE GiveUp(r)
    BY <1>4 DEF GiveUp, RetrierMove
  <1>5. CASE Requeue(r)
    BY <1>5 DEF Requeue, Retrying, Busy, RetrierMove
  <1>6. CASE ArchiveRequeued(r)
    BY <1>6 DEF ArchiveRequeued, RetrierMove
  <1>7. CASE RetrierDies(r)
    BY <1>7 DEF RetrierDies, RetrierMove
  <1>8. QED
    BY <1>1, <1>2, <1>3, <1>4, <1>5, <1>6, <1>7 DEF RetryStep

(* A settled message stays settled.                                        *)
LEMMA SettledStable ==
    ASSUME TypeOK, SenderHolds, [Next]_vars, NEW m \in Msgs, Settled(m)
    PROVE  SettledNext(m)
  <1>1. failed \subseteq failed'
    BY DEF Next, vars, senderVars, retryVars, Enqueue, VtExpires, RetrierCrash,
           RetrierDies, RetryStep, RetryStart, RetryShutdown, RetryReadOne,
           GiveUp, Requeue, ArchiveRequeued
  <1>2. ASSUME sent[m] > 0 PROVE sent'[m] > 0
    <2>1. CASE sent' = sent
      BY <1>2, <2>1
    <2>2. ASSUME NEW w \in Senders, NEW e \in Endings, NEW n \in Acceptances,
                 Dispatch(w, e, n)
          PROVE  sent'[m] > 0
      <3>1. sent' = [sent EXCEPT ![Envelope(w).msg] =
                         Plus(sent[Envelope(w).msg], n, CountCap)]
        BY <2>2 DEF Dispatch
      <3>2. CASE m = Envelope(w).msg
        <4>1. /\ CountCap \in Nat /\ n \in Nat /\ sent[m] \in 0..CountCap
          BY SenderAssumption DEF Acceptances, TypeOK
        <4>2. Plus(sent[m], n, CountCap) > 0
          BY <1>2, <4>1, PlusType
        <4>3. QED
          BY <3>1, <3>2, <4>2 DEF TypeOK
      <3>3. CASE m # Envelope(w).msg
        BY <1>2, <3>1, <3>3 DEF TypeOK
      <3>4. QED
        BY <3>2, <3>3
    <2>3. \/ sent' = sent
          \/ \E w \in Senders, e \in Endings, n \in Acceptances : Dispatch(w, e, n)
      BY DEF Next, vars, senderVars, Enqueue, VtExpires, RetrierCrash, SenderStep,
             Start, Shutdown, ReadOne, EmitBilling, ArchiveSent, ArchiveSentFails,
             SendToDlq, ArchiveDead, SenderDies
    <2>4. QED
      BY <2>1, <2>2, <2>3
  <1>3. QED
    BY <1>1, <1>2 DEF Settled, SettledNext

(* Every step does one of the four things, and archives only what it may.  *)
LEMMA LogEffects ==
    ASSUME TypeOK, SenderHolds, RetrierHolds, ArchivesCovered, [Next]_vars
    PROVE  LogEffect
  <1> DEFINE Three == {"visible", "hidden", "archived"}
  <1>1. ASSUME NEW m \in Msgs, NEW n \in InitialRetries, Enqueue(m, n)
        PROVE  LogEffect
    <2>1. MsgChannel[m] \in Queues /\ n \in Nat
      BY DeliveryAssumption DEF Queues
    <2>2. Insert(MsgChannel[m], m, n, NoChannel, "visible")
      BY <1>1 DEF Enqueue
    <2>3. QED
      BY <2>1, <2>2 DEF Inserts, LogEffect
  <1>2. ASSUME NEW id \in Ids, VtExpires(id)
        PROVE  LogEffect
    BY <1>2 DEF VtExpires, Reappear, Live, Relabels, LogEffect
  <1>3. ASSUME NEW w \in Senders, SenderStep(w), UNCHANGED retryVars
        PROVE  LogEffect
    <2>1. Busy(sender[w]) => sender[w].id \in Ids
      BY DEF SenderHolds
    <2>2. CASE Start(w) \/ Shutdown(w) \/ ArchiveSentFails(w) \/ SenderDies(w)
      BY <2>2 DEF Start, Shutdown, ArchiveSentFails, SenderDies, LogEffect
    <2>3. ASSUME NEW id \in Ids, ReadOne(w, id) PROVE LogEffect
      BY <2>3 DEF ReadOne, Read, Live, Relabels, LogEffect
    <2>4. ASSUME NEW e \in Endings, NEW n \in Acceptances, Dispatch(w, e, n)
          PROVE  LogEffect
      BY <2>4 DEF Dispatch, LogEffect
    <2>5. ASSUME NEW recorded \in 0..1, EmitBilling(w, recorded) PROVE LogEffect
      BY <2>5 DEF EmitBilling, LogEffect
    <2>6. CASE ArchiveSent(w)
      <3>1. Archive(sender[w].id) /\ sender[w].pc = "archive"
        BY <2>6 DEF ArchiveSent, Working
      <3>2. sender[w].id \in Ids
        BY <2>1, <3>1 DEF Busy
      <3>3. table[sender[w].id].msg \in Msgs
        BY <3>2, HeldRow
      <3>4. SettledNext(table[sender[w].id].msg)
        BY <3>1, <3>3, SettledStable DEF ArchivesCovered, Envelope
      <3>5. QED
        BY <3>1, <3>2, <3>4 DEF ArchivesSafely, LogEffect
    <2>7. CASE ArchiveDead(w)
      <3>1. Archive(sender[w].id) /\ sender[w].pc = "drop"
        BY <2>7 DEF ArchiveDead, Working
      <3>2. sender[w].id \in Ids
        BY <2>1, <3>1 DEF Busy
      <3>3. table[sender[w].id].msg \in Msgs
        BY <3>2, HeldRow
      <3>4. SettledNext(table[sender[w].id].msg) \/ LaterCopy(sender[w].id)
        BY <3>1, <3>3, SettledStable DEF ArchivesCovered, Covered
      <3>5. QED
        BY <3>1, <3>2, <3>4 DEF ArchivesSafely, LogEffect
    <2>8. CASE SendToDlq(w)
      <3>1. Insert(DLQ, Envelope(w).msg, Envelope(w).retries, WorkerChannel[w],
                   "visible")
        BY <2>8 DEF SendToDlq
      <3>2. sender[w].id \in Ids
        BY <2>1, <2>8 DEF SendToDlq, Working, Busy
      <3>3. Envelope(w).msg \in Msgs /\ Envelope(w).retries \in Nat
        BY <3>2, HeldRow DEF Envelope
      <3>4. WorkerChannel[w] \in Channels /\ DLQ \in Queues
        BY SenderAssumption DEF Queues
      <3>5. QED
        BY <3>1, <3>3, <3>4 DEF Inserts, LogEffect
    <2>9. QED
      BY <1>3, <2>2, <2>3, <2>4, <2>5, <2>6, <2>7, <2>8 DEF SenderStep
  <1>4. ASSUME NEW r \in Retriers, RetryStep(r), UNCHANGED senderVars
        PROVE  LogEffect
    <2>1. Busy(retrier[r]) => retrier[r].id \in Ids
      BY DEF RetrierHolds
    <2>2. CASE RetryStart(r) \/ RetryShutdown(r)
      BY <2>2 DEF RetryStart, RetryShutdown, LogEffect
    <2>3. ASSUME NEW id \in Ids, RetryReadOne(r, id) PROVE LogEffect
      BY <2>3 DEF RetryReadOne, Read, Live, Relabels, LogEffect
    <2>4. CASE GiveUp(r)
      <3>1. /\ Archive(retrier[r].id)
            /\ retrier[r].pc = "handle"
            /\ table[retrier[r].id].msg \in failed'
        BY <2>4 DEF GiveUp, Retrying, DlqRow
      <3>2. retrier[r].id \in Ids
        BY <2>1, <3>1 DEF Busy
      <3>3. QED
        BY <3>1, <3>2 DEF SettledNext, ArchivesSafely, LogEffect
    <2>5. CASE Requeue(r)
      <3>1. Insert(TargetChannel(DlqRow(r)), DlqRow(r).msg,
                   DlqRow(r).retries + 1, DlqRow(r).origin, "hidden")
        BY <2>5 DEF Requeue
      <3>2. retrier[r].id \in Ids
        BY <2>1, <2>5 DEF Requeue, Retrying, Busy
      <3>3. /\ DlqRow(r).msg \in Msgs
            /\ DlqRow(r).retries + 1 \in Nat
            /\ DlqRow(r).origin \in Channels \cup {NoChannel}
        BY <3>2, HeldRow DEF DlqRow
      <3>4. TargetChannel(DlqRow(r)) \in Queues
        BY <3>3, RetryAssumption DEF TargetChannel, Queues
      <3>5. QED
        BY <3>1, <3>3, <3>4 DEF Inserts, LogEffect
    <2>6. CASE ArchiveRequeued(r)
      <3>1. Archive(retrier[r].id) /\ retrier[r].pc = "archive"
        BY <2>6 DEF ArchiveRequeued, Retrying
      <3>2. retrier[r].id \in Ids
        BY <2>1, <3>1 DEF Busy
      <3>3. table[retrier[r].id].msg \in Msgs
        BY <3>2, HeldRow
      <3>4. SettledNext(table[retrier[r].id].msg) \/ LaterCopy(retrier[r].id)
        BY <3>1, <3>3, SettledStable DEF ArchivesCovered, Covered
      <3>5. QED
        BY <3>1, <3>2, <3>4 DEF ArchivesSafely, LogEffect
    <2>7. QED
      BY <1>4, <2>2, <2>3, <2>4, <2>5, <2>6 DEF RetryStep
  <1>5. ASSUME NEW r \in Retriers, RetrierCrash(r)
        PROVE  LogEffect
    BY <1>5 DEF RetrierCrash, RetrierDies, LogEffect
  <1>6. CASE UNCHANGED vars
    BY <1>6 DEF vars, LogEffect
  <1>7. QED
    BY <1>1, <1>2, <1>3, <1>4, <1>5, <1>6 DEF Next

(* No row is ever removed from the log or rewritten, and a new row is live *)
(* and comes after the others.                                             *)
LEMMA LogGrows ==
    ASSUME TypeOK, LogEffect
    PROVE  /\ table' \in Seq(Row)
           /\ LogKept
           /\ \A i \in Ids' : i \in Ids \/ Live(i)'
  <1>1. CASE UNCHANGED table
    BY <1>1 DEF LogKept, Ids, TypeOK
  <1>2. CASE Relabels
    <2>1. PICK id \in Ids, st \in {"visible", "hidden"} :
              table' = [table EXCEPT ![id].state = st]
      BY <1>2 DEF Relabels
    <2>2. QED
      BY <2>1, StateChange DEF LogKept, TypeOK
  <1>3. CASE ArchivesSafely
    <2>1. PICK id \in Ids : Archive(id)
      BY <1>3 DEF ArchivesSafely
    <2>2. QED
      BY <2>1, StateChange DEF Archive, LogKept, TypeOK
  <1>4. CASE Inserts
    <2>1. PICK q \in Queues, m \in Msgs, n \in Nat,
               o \in Channels \cup {NoChannel}, st \in {"visible", "hidden"} :
                   Insert(q, m, n, o, st)
      BY <1>4 DEF Inserts
    <2>2. /\ \A i \in Ids : i \in Ids' /\ table'[i] = table[i]
          /\ \A i \in Ids' : i \in Ids \/ i = Len(table) + 1
          /\ table'[Len(table) + 1].state = st
      <3>1. table \in Seq(Row)
        BY DEF TypeOK
      <3>2. table'[Len(table) + 1] = [queue |-> q, msg |-> m, retries |-> n,
                                      origin |-> o, state |-> st]
        BY <2>1, <3>1, InsertAppends
      <3>3. table'[Len(table) + 1].state = st
        BY <3>2
      <3>4. QED
        BY <2>1, <3>1, <3>3, InsertAppends
    <2>3. table' \in Seq(Row)
      <3>1. table \in Seq(Row)
        BY DEF TypeOK
      <3>2. QED
        BY <2>1, <3>1, InsertAppends
    <2>4. st # "archived"
      OBVIOUS
    <2>5. QED
      BY <2>2, <2>3, <2>4 DEF LogKept, Live
  <1>5. QED
    BY <1>1, <1>2, <1>3, <1>4 DEF LogEffect

(* A live row stays live unless its message is settled or lives on in a    *)
(* later copy.                                                             *)
LEMMA LiveStable ==
    ASSUME TypeOK, LogEffect, NEW i \in Ids, Live(i)
    PROVE  Live(i)' \/ SettledNext(table[i].msg) \/ LaterCopy(i)'
  <1>1. CASE UNCHANGED table
    BY <1>1 DEF Live
  <1>2. CASE Relabels
    <2>1. PICK id \in Ids, st \in {"visible", "hidden"} :
              table' = [table EXCEPT ![id].state = st]
      BY <1>2 DEF Relabels
    <2>2. i # id => table'[i] = table[i]
      BY <2>1, StateChange DEF TypeOK
    <2>3. table'[id].state = st
      BY <2>1, StateChange DEF TypeOK
    <2>4. QED
      BY <2>2, <2>3 DEF Live
  <1>3. CASE ArchivesSafely
    <2>1. PICK id \in Ids : /\ Archive(id)
                            /\ SettledNext(table[id].msg) \/ LaterCopy(id)
      BY <1>3 DEF ArchivesSafely
    <2>2. /\ \A j \in Ids : /\ table'[j].msg = table[j].msg
                            /\ j # id => table'[j] = table[j]
          /\ Ids' = Ids
      BY <2>1, StateChange DEF Archive, TypeOK
    <2>3. CASE i # id
      BY <2>2, <2>3 DEF Live
    <2>4. CASE i = id /\ SettledNext(table[id].msg)
      BY <2>4
    <2>5. CASE i = id /\ LaterCopy(id)
      <3>1. PICK j \in Ids : id < j /\ Live(j) /\ table[j].msg = table[id].msg
        BY <2>5 DEF LaterCopy
      <3>2. j # id
        BY <3>1, IdsAreNumbers DEF TypeOK, Ids
      <3>3. QED
        BY <2>2, <2>5, <3>1, <3>2 DEF LaterCopy, Live
    <2>6. QED
      BY <2>1, <2>3, <2>4, <2>5
  <1>4. CASE Inserts
    <2>1. table'[i] = table[i]
      <3>1. PICK q \in Queues, m \in Msgs, n \in Nat,
                 o \in Channels \cup {NoChannel}, st \in {"visible", "hidden"} :
                     Insert(q, m, n, o, st)
        BY <1>4 DEF Inserts
      <3>2. table \in Seq(Row)
        BY DEF TypeOK
      <3>3. QED
        BY <3>1, <3>2, InsertAppends
    <2>2. QED
      BY <2>1 DEF Live
  <1>5. QED
    BY <1>1, <1>2, <1>3, <1>4 DEF LogEffect

(* What covers a row goes on covering it.                                  *)
LEMMA CoveredStable ==
    ASSUME TypeOK, SenderHolds, LogEffect, [Next]_vars, NEW i \in Ids, Covered(i)
    PROVE  Covered(i)'
  <1>1. LogKept
    BY LogGrows
  <1>2. table[i].msg \in Msgs
    BY HeldRow
  <1>3. table'[i].msg = table[i].msg
    BY <1>1 DEF LogKept
  <1>4. SettledNext(table[i].msg) => Covered(i)'
    BY <1>3 DEF SettledNext, Covered, Settled
  <1>5. CASE Settled(table[i].msg)
    BY <1>2, <1>4, <1>5, SettledStable
  <1>6. CASE LaterCopy(i)
    <2>1. PICK j \in Ids : i < j /\ Live(j) /\ table[j].msg = table[i].msg
      BY <1>6 DEF LaterCopy
    <2>2. j \in Ids' /\ table'[j].msg = table'[i].msg
      BY <1>1, <2>1 DEF LogKept
    <2>3. CASE Live(j)'
      BY <2>1, <2>2, <2>3 DEF Covered, LaterCopy
    <2>4. CASE SettledNext(table[j].msg)
      BY <1>4, <2>1, <2>4
    <2>5. CASE LaterCopy(j)'
      <3>1. PICK k \in Ids' : j < k /\ Live(k)' /\ table'[k].msg = table'[j].msg
        BY <2>5 DEF LaterCopy
      <3>2. i < k
        <4>1. i \in Nat /\ j \in Nat /\ k \in Nat
          <5>1. table \in Seq(Row) /\ table' \in Seq(Row)
            BY LogGrows DEF TypeOK
          <5>2. QED
            BY <3>1, <5>1, IdsAreNumbers DEF Ids
        <4>2. QED
          BY <2>1, <3>1, <4>1
      <3>3. QED
        BY <2>2, <3>1, <3>2 DEF Covered, LaterCopy
    <2>6. QED
      BY <2>1, <2>3, <2>4, <2>5, LiveStable
  <1>7. QED
    BY <1>5, <1>6 DEF Covered
-----------------------------------------------------------------------------
(* The inductive invariant.                                                *)

LEMMA HoldsStep ==
    ASSUME TypeOK, SenderHolds, RetrierHolds, LogKept, [Next]_vars
    PROVE  SenderHolds' /\ RetrierHolds'
  <1>1. ASSUME sender' = sender PROVE SenderHolds'
    BY <1>1 DEF SenderHolds, LogKept
  <1>2. ASSUME retrier' = retrier PROVE RetrierHolds'
    BY <1>2 DEF RetrierHolds, LogKept
  <1>3. ASSUME NEW w \in Senders, SenderMove(w) PROVE SenderHolds'
    <2> SUFFICES ASSUME NEW v \in Senders
                 PROVE  /\ ~Busy(sender'[v]) => sender'[v].id = 0
                        /\ Busy(sender'[v]) =>
                               /\ sender'[v].id \in Ids'
                               /\ table'[sender'[v].id].queue = WorkerChannel[v]
      BY DEF SenderHolds
    <2>1. CASE sender'[v] = sender[v]
      BY <2>1 DEF SenderHolds, LogKept
    <2>2. CASE v # w
      BY <1>3, <2>1, <2>2 DEF SenderMove, TypeOK
    <2>3. CASE v = w
      <3>1. CASE sender'[w] \in {Stopped, Polling}
        BY <2>3, <3>1 DEF Stopped, Polling, Busy
      <3>2. CASE /\ Busy(sender[w])
                 /\ Busy(sender'[w])
                 /\ sender'[w].id = sender[w].id
        BY <2>3, <3>2 DEF SenderHolds, LogKept
      <3>3. CASE \E id \in Ids : /\ sender'[w] = [pc |-> "dispatch", id |-> id]
                                 /\ table[id].queue = WorkerChannel[w]
        BY <2>3, <3>3 DEF LogKept, Busy
      <3>4. QED
        BY <1>3, <3>1, <3>2, <3>3 DEF SenderMove
    <2>4. QED
      BY <2>2, <2>3
  <1>4. ASSUME NEW r \in Retriers, RetrierMove(r) PROVE RetrierHolds'
    <2> SUFFICES ASSUME NEW v \in Retriers
                 PROVE  /\ ~Busy(retrier'[v]) => retrier'[v].id = 0
                        /\ Busy(retrier'[v]) =>
                               /\ retrier'[v].id \in Ids'
                               /\ table'[retrier'[v].id].queue = DLQ
      BY DEF RetrierHolds
    <2>1. CASE retrier'[v] = retrier[v]
      BY <2>1 DEF RetrierHolds, LogKept
    <2>2. CASE v # r
      BY <1>4, <2>1, <2>2 DEF RetrierMove, TypeOK
    <2>3. CASE v = r
      <3>1. CASE retrier'[r] \in {Stopped, Polling}
        BY <2>3, <3>1 DEF Stopped, Polling, Busy
      <3>2. CASE /\ Busy(retrier[r])
                 /\ retrier'[r] = [retrier[r] EXCEPT !.pc = "archive"]
        <4>1. retrier[r] \in [pc : RetrySteps, id : Nat]
          BY DEF TypeOK
        <4>2. retrier'[r].id = retrier[r].id /\ retrier'[r].pc = "archive"
          BY <3>2, <4>1
        <4>3. Busy(retrier'[r])
          BY <4>2 DEF Busy
        <4>4. QED
          BY <2>3, <3>2, <4>2, <4>3 DEF RetrierHolds, LogKept
      <3>3. CASE \E id \in Ids : /\ retrier'[r] = [pc |-> "handle", id |-> id]
                                 /\ table[id].queue = DLQ
        BY <2>3, <3>3 DEF LogKept, Busy
      <3>4. QED
        BY <1>4, <3>1, <3>2, <3>3 DEF RetrierMove
    <2>4. QED
      BY <2>2, <2>3
  <1>5. \/ sender' = sender
        \/ \E w \in Senders : SenderStep(w) /\ UNCHANGED retryVars
    BY DEF Next, vars, senderVars, Enqueue, VtExpires, RetrierCrash
  <1>6. \/ retrier' = retrier
        \/ \E r \in Retriers : RetryStep(r) \/ RetrierDies(r)
    BY DEF Next, vars, retryVars, Enqueue, VtExpires, RetrierCrash
  <1>7. SenderHolds'
    BY <1>1, <1>3, <1>5, SenderMoves
  <1>8. RetrierHolds'
    BY <1>2, <1>4, <1>6, RetrierMoves
  <1>9. QED
    BY <1>7, <1>8

LEMMA ArchivesCoveredStep ==
    ASSUME IInv, LogEffect, LogKept, [Next]_vars
    PROVE  ArchivesCovered'
  <1> USE DEF IInv
  <1>1. \A i \in Ids : Covered(i) => Covered(i)'
    BY CoveredStable
  <1>2. \A m \in Msgs : Settled(m) => SettledNext(m)
    BY SettledStable
  <1>3. \A i \in Ids : /\ table[i].msg \in Msgs
                       /\ table'[i].msg = table[i].msg
    BY HeldRow DEF LogKept
  <1>4. ASSUME NEW w \in Senders
        PROVE  (/\ sender[w].pc \in {"emit", "archive"} => Settled(Envelope(w).msg)
                /\ sender[w].pc = "drop" => Covered(sender[w].id))'
    <2>1. CASE sender'[w] = sender[w]
      <3>1. sender[w].pc \in {"emit", "archive", "drop"} => sender[w].id \in Ids
        BY DEF SenderHolds, Busy
      <3>2. QED
        BY <1>1, <1>2, <1>3, <2>1, <3>1
           DEF ArchivesCovered, Envelope, Settled, SettledNext
    <2>2. CASE SenderMove(w)
      <3>1. CASE sender'[w] \in {Stopped, Polling}
        BY <3>1 DEF Stopped, Polling
      <3>2. CASE /\ Busy(sender[w])
                 /\ sender'[w].id = sender[w].id
                 /\ sender'[w].pc = "emit"
                 /\ sent'[Envelope(w).msg] > 0
        BY <1>3, <3>2 DEF SenderHolds, Settled, Envelope
      <3>3. CASE /\ Busy(sender[w])
                 /\ sender'[w].id = sender[w].id
                 /\ sender'[w].pc = "archive"
                 /\ sender[w].pc = "emit"
        BY <1>2, <1>3, <3>3
           DEF SenderHolds, ArchivesCovered, Envelope, Settled, SettledNext
      <3>4. CASE sender'[w].pc = "dlq"
        BY <3>4
      <3>5. CASE /\ Busy(sender[w])
                 /\ sender'[w].id = sender[w].id
                 /\ sender'[w].pc = "drop"
                 /\ SendToDlq(w)
        <4>. PICK i \in Ids : i = sender[w].id
          BY <3>5 DEF SenderHolds
        <4>1. i \in Ids /\ table[i].msg \in Msgs /\ table[i].retries \in Nat
          BY HeldRow
        <4>2. /\ table \in Seq(Row)
              /\ WorkerChannel[w] \in Channels \cup {NoChannel}
              /\ DLQ \in Queues
          BY SenderAssumption DEF TypeOK, Queues
        <4>3. Insert(DLQ, table[i].msg, table[i].retries, WorkerChannel[w],
                     "visible")
          BY <3>5 DEF SendToDlq, Envelope
        <4>. PICK k \in Nat : k = Len(table) + 1
          BY <4>2
        <4>4. /\ k \in Ids'
              /\ table'[k] =
                     [queue |-> DLQ, msg |-> table[i].msg,
                      retries |-> table[i].retries, origin |-> WorkerChannel[w],
                      state |-> "visible"]
          BY <4>1, <4>2, <4>3, InsertAppends
        <4>5. i < k
          BY <4>1, <4>2 DEF Ids
        <4>6. LaterCopy(i)'
          <5>1. table'[k].msg = table'[i].msg
            BY <1>3, <4>1, <4>4
          <5>2. Live(k)'
            BY <4>4 DEF Live
          <5>3. QED
            BY <4>4, <4>5, <5>1, <5>2 DEF LaterCopy
        <4>7. QED
          BY <3>5, <4>6 DEF Covered
      <3>6. CASE \E id \in Ids : sender'[w] = [pc |-> "dispatch", id |-> id]
        BY <3>6
      <3>7. QED
        BY <2>2, <3>1, <3>2, <3>3, <3>4, <3>5, <3>6 DEF SenderMove
    <2>3. \/ sender'[w] = sender[w]
          \/ SenderMove(w)
      <3>1. ASSUME NEW v \in Senders, SenderMove(v), v # w
            PROVE  sender'[w] = sender[w]
        BY <3>1 DEF SenderMove, TypeOK
      <3>2. \/ sender' = sender
            \/ \E v \in Senders : SenderStep(v)
        BY DEF Next, vars, senderVars, Enqueue, VtExpires, RetrierCrash
      <3>3. QED
        BY <3>1, <3>2, SenderMoves
    <2>4. QED
      BY <2>1, <2>2, <2>3
  <1>5. ASSUME NEW r \in Retriers, retrier'[r].pc = "archive"
        PROVE  (Covered(retrier[r].id))'
    <2>1. CASE retrier'[r] = retrier[r]
      <3>1. retrier[r].id \in Ids
        BY <1>5, <2>1 DEF RetrierHolds, Busy
      <3>2. QED
        BY <1>1, <1>5, <2>1, <3>1 DEF ArchivesCovered
    <2>2. CASE RetrierMove(r)
      <3>1. CASE retrier'[r] \in {Stopped, Polling}
        BY <1>5, <3>1 DEF Stopped, Polling
      <3>2. CASE /\ Busy(retrier[r])
                 /\ retrier'[r] = [retrier[r] EXCEPT !.pc = "archive"]
                 /\ Requeue(r)
        <4>. PICK i \in Ids : i = retrier[r].id
          BY <3>2 DEF RetrierHolds
        <4>1. /\ i \in Ids
              /\ table[i].msg \in Msgs
              /\ table[i].retries + 1 \in Nat
              /\ table[i].origin \in Channels \cup {NoChannel}
          BY HeldRow
        <4>2. /\ table \in Seq(Row)
              /\ TargetChannel(table[i]) \in Queues
          BY <4>1, RetryAssumption DEF TypeOK, TargetChannel, Queues
        <4>3. Insert(TargetChannel(table[i]), table[i].msg, table[i].retries + 1,
                     table[i].origin, "hidden")
          BY <3>2 DEF Requeue, DlqRow
        <4>. PICK k \in Nat : k = Len(table) + 1
          BY <4>2
        <4>4. /\ k \in Ids'
              /\ table'[k] =
                     [queue |-> TargetChannel(table[i]), msg |-> table[i].msg,
                      retries |-> table[i].retries + 1,
                      origin |-> table[i].origin, state |-> "hidden"]
          BY <4>1, <4>2, <4>3, InsertAppends
        <4>5. i < k
          BY <4>1, <4>2 DEF Ids
        <4>6. LaterCopy(i)'
          <5>1. table'[k].msg = table'[i].msg
            BY <1>3, <4>1, <4>4
          <5>2. Live(k)'
            BY <4>4 DEF Live
          <5>3. QED
            BY <4>4, <4>5, <5>1, <5>2 DEF LaterCopy
        <4>7. retrier'[r].id = i
          BY <3>2 DEF TypeOK
        <4>8. QED
          BY <4>6, <4>7 DEF Covered
      <3>3. CASE \E id \in Ids : retrier'[r] = [pc |-> "handle", id |-> id]
        BY <1>5, <3>3
      <3>4. QED
        BY <2>2, <3>1, <3>2, <3>3 DEF RetrierMove
    <2>3. \/ retrier'[r] = retrier[r]
          \/ RetrierMove(r)
      <3>1. ASSUME NEW v \in Retriers, RetrierMove(v), v # r
            PROVE  retrier'[r] = retrier[r]
        BY <3>1 DEF RetrierMove, TypeOK
      <3>2. \/ retrier' = retrier
            \/ \E v \in Retriers : RetryStep(v) \/ RetrierDies(v)
        BY DEF Next, vars, retryVars, Enqueue, VtExpires, RetrierCrash
      <3>3. QED
        BY <3>1, <3>2, RetrierMoves
    <2>4. QED
      BY <2>1, <2>2, <2>3
  <1>6. QED
    BY <1>4, <1>5 DEF ArchivesCovered

LEMMA RowsHeldStep ==
    ASSUME IInv, LogEffect, LogKept, [Next]_vars
    PROVE  RowsHeld'
  <1> USE DEF IInv
  <1> DEFINE HeldBy(i, j) == Live(j) /\ table[j].msg = table[i].msg
  <1> SUFFICES ASSUME NEW i \in Ids'
               PROVE  SettledNext(table'[i].msg) \/ \E j \in Ids' : HeldBy(i, j)'
    BY DEF RowsHeld, Settled, SettledNext
  <1>1. CASE i \notin Ids
    BY <1>1, LogGrows
  <1>2. CASE i \in Ids
    <2>1. table[i].msg \in Msgs /\ table'[i].msg = table[i].msg
      BY <1>2, HeldRow DEF LogKept
    <2>2. CASE Settled(table[i].msg)
      BY <2>1, <2>2, SettledStable
    <2>3. CASE \E j \in Ids : HeldBy(i, j)
      <3>1. PICK j \in Ids : HeldBy(i, j)
        BY <2>3
      <3>2. j \in Ids' /\ table'[j].msg = table'[i].msg
        BY <2>1, <3>1 DEF LogKept
      <3>3. CASE Live(j)'
        BY <3>2, <3>3
      <3>4. CASE SettledNext(table[j].msg)
        BY <2>1, <3>1, <3>4
      <3>5. CASE LaterCopy(j)'
        BY <3>2, <3>5 DEF LaterCopy
      <3>6. QED
        BY <3>1, <3>3, <3>4, <3>5, LiveStable
    <2>4. QED
      BY <1>2, <2>2, <2>3 DEF RowsHeld
  <1>3. QED
    BY <1>1, <1>2

LEMMA InitIInv == Init => IInv
  <1> SUFFICES ASSUME Init PROVE IInv
    OBVIOUS
  <1>1. TypeOK
    BY InitTypeOK
  <1>2. Ids = {}
    BY DEF Init, Ids
  <1>3. /\ \A w \in Senders : sender[w] = Stopped
        /\ \A r \in Retriers : retrier[r] = Stopped
    BY DEF Init, SenderInit, RetryInit
  <1>4. QED
    BY <1>1, <1>2, <1>3 DEF IInv, SenderHolds, RetrierHolds, ArchivesCovered,
                            RowsHeld, Busy, Stopped

LEMMA IInvStep == IInv /\ [Next]_vars => IInv'
  <1> SUFFICES ASSUME IInv, [Next]_vars PROVE IInv'
    OBVIOUS
  <1>1. TypeOK'
    BY TypeStep DEF IInv
  <1>2. LogEffect
    BY LogEffects DEF IInv
  <1>3. LogKept
    BY <1>2, LogGrows DEF IInv
  <1>4. SenderHolds' /\ RetrierHolds'
    BY <1>3, HoldsStep DEF IInv
  <1>5. ArchivesCovered'
    BY <1>2, <1>3, ArchivesCoveredStep
  <1>6. RowsHeld'
    BY <1>2, <1>3, RowsHeldStep
  <1>7. QED
    BY <1>1, <1>4, <1>5, <1>6 DEF IInv

-----------------------------------------------------------------------------
(* IInv is an invariant of every run of the workers, however many there    *)
(* are and whatever dies or times out.                                     *)
THEOREM InductiveInvariant == Spec => []IInv
  <1>1. Init => IInv
    BY InitIInv
  <1>2. IInv /\ [Next]_vars => IInv'
    BY IInvStep
  <1>3. QED
    BY <1>1, <1>2, PTL DEF Spec

(* Every variable keeps its type.                                          *)
THEOREM TypeCorrect == Spec => []TypeOK
  <1>1. IInv => TypeOK
    BY DEF IInv
  <1>2. QED
    BY <1>1, InductiveInvariant, PTL

(* The workers lose no message: with any number of senders, retriers and   *)
(* messages, any retry budgets, and any schedule of deaths, expired leases *)
(* and failed calls, what was enqueued and is in no queue any more has     *)
(* been accepted by a provider or given up by the retry worker.            *)
THEOREM NoLoss == Spec => []NoMessageLost
  <1>1. IInv => NoMessageLost
    BY DEF IInv, RowsHeld, NoMessageLost, Accepted, Held
  <1>2. QED
    BY <1>1, InductiveInvariant, PTL

-----------------------------------------------------------------------------
(***************************************************************************)
(* What the rows of the queues can say: their channel, their retries, and  *)
(* which of them can be dead letters.  Three actions insert rows; the      *)
(* others rewrite none.                                                    *)
(***************************************************************************)
(* A row is in the queue of its message's channel, or it is a spent one in *)
(* the DLQ that remembers that channel.                                    *)
Sound(row) ==
    /\ row.origin \in {MsgChannel[row.msg], NoChannel}
    /\ \/ row.queue = MsgChannel[row.msg]
       \/ /\ row.queue = DLQ
          /\ row.origin = MsgChannel[row.msg]
          /\ row.retries >= SenderMax
    /\ row.retries <= RetryMax \/ row.retries \in InitialRetries

RowsSound == \A id \in Ids : Sound(table[id])

(* The except branch decides on the row's own _retries, and the row does   *)
(* not change before _send_to_dlq uses them.                               *)
DlqDecided == \A w \in Senders : sender[w].pc = "dlq" => Spent(Envelope(w))

(* Only three actions add a row.                                           *)
LEMMA OnlyThreeInsert ==
    ASSUME TypeOK, [Next]_vars
    PROVE  \/ Ids' = Ids
           \/ \E m \in Msgs, n \in InitialRetries : Enqueue(m, n)
           \/ \E w \in Senders : SendToDlq(w)
           \/ \E r \in Retriers : Requeue(r)
  <1>1. ASSUME NEW id, NEW st, table' = [table EXCEPT ![id].state = st]
        PROVE  Ids' = Ids
    BY <1>1 DEF Ids
  <1>2. ASSUME UNCHANGED table PROVE Ids' = Ids
    BY <1>2 DEF Ids
  <1>3. ASSUME NEW id \in Ids, VtExpires(id) PROVE Ids' = Ids
    BY <1>1, <1>3 DEF VtExpires, Reappear
  <1>4. ASSUME NEW w \in Senders, SenderStep(w)
        PROVE  Ids' = Ids \/ SendToDlq(w)
    <2>1. CASE \E id \in Ids : ReadOne(w, id)
      BY <1>1, <2>1 DEF ReadOne, Read
    <2>2. CASE ArchiveSent(w) \/ ArchiveDead(w)
      BY <1>1, <2>2 DEF ArchiveSent, ArchiveDead, Archive
    <2>3. CASE \/ Start(w) \/ Shutdown(w) \/ ArchiveSentFails(w) \/ SenderDies(w)
               \/ \E e \in Endings, n \in Acceptances : Dispatch(w, e, n)
               \/ \E recorded \in 0..1 : EmitBilling(w, recorded)
      BY <1>2, <2>3 DEF Start, Shutdown, ArchiveSentFails, SenderDies, Dispatch,
                        EmitBilling
    <2>4. QED
      BY <1>4, <2>1, <2>2, <2>3 DEF SenderStep
  <1>5. ASSUME NEW r \in Retriers, RetryStep(r)
        PROVE  Ids' = Ids \/ Requeue(r)
    <2>1. CASE \E id \in Ids : RetryReadOne(r, id)
      BY <1>1, <2>1 DEF RetryReadOne, Read
    <2>2. CASE GiveUp(r) \/ ArchiveRequeued(r)
      BY <1>1, <2>2 DEF GiveUp, ArchiveRequeued, Archive
    <2>3. CASE RetryStart(r) \/ RetryShutdown(r)
      BY <1>2, <2>3 DEF RetryStart, RetryShutdown
    <2>4. QED
      BY <1>5, <2>1, <2>2, <2>3 DEF RetryStep
  <1>6. ASSUME NEW r \in Retriers, RetrierCrash(r) PROVE Ids' = Ids
    BY <1>2, <1>6 DEF RetrierCrash, RetrierDies
  <1>7. CASE UNCHANGED vars
    BY <1>2, <1>7 DEF vars
  <1>8. QED
    BY <1>3, <1>4, <1>5, <1>6, <1>7 DEF Next

(* The row each of the three adds.                                         *)
NewRow(row) == \A i \in Ids' : i \in Ids \/ table'[i] = row

LEMMA EnqueuedRow ==
    ASSUME TypeOK, NEW m \in Msgs, NEW n \in InitialRetries, Enqueue(m, n)
    PROVE  NewRow([queue |-> MsgChannel[m], msg |-> m, retries |-> n,
                   origin |-> NoChannel, state |-> "visible"])
  <1>1. Insert(MsgChannel[m], m, n, NoChannel, "visible")
    BY DEF Enqueue
  <1>2. /\ MsgChannel[m] \in Queues
        /\ n \in Nat
        /\ NoChannel \in Channels \cup {NoChannel}
        /\ table \in Seq(Row)
    BY DeliveryAssumption DEF Queues, TypeOK
  <1>3. QED
    BY <1>1, <1>2, InsertAppends DEF NewRow

LEMMA DeadLetterRow ==
    ASSUME TypeOK, SenderHolds, NEW w \in Senders, SendToDlq(w)
    PROVE  NewRow([queue |-> DLQ, msg |-> Envelope(w).msg,
                   retries |-> Envelope(w).retries, origin |-> WorkerChannel[w],
                   state |-> "visible"])
  <1>1. Insert(DLQ, Envelope(w).msg, Envelope(w).retries, WorkerChannel[w],
               "visible")
    BY DEF SendToDlq
  <1>2. sender[w].id \in Ids
    BY DEF SenderHolds, SendToDlq, Working, Busy
  <1>3. /\ Envelope(w).msg \in Msgs
        /\ Envelope(w).retries \in Nat
    BY <1>2, HeldRow DEF Envelope
  <1>4. /\ WorkerChannel[w] \in Channels \cup {NoChannel}
        /\ DLQ \in Queues
        /\ table \in Seq(Row)
    BY SenderAssumption DEF Queues, TypeOK
  <1>5. QED
    BY <1>1, <1>3, <1>4, InsertAppends DEF NewRow

LEMMA RequeuedRow ==
    ASSUME TypeOK, RetrierHolds, NEW r \in Retriers, Requeue(r)
    PROVE  NewRow([queue |-> TargetChannel(DlqRow(r)), msg |-> DlqRow(r).msg,
                   retries |-> DlqRow(r).retries + 1,
                   origin |-> DlqRow(r).origin, state |-> "hidden"])
  <1>1. Insert(TargetChannel(DlqRow(r)), DlqRow(r).msg, DlqRow(r).retries + 1,
               DlqRow(r).origin, "hidden")
    BY DEF Requeue
  <1>2. retrier[r].id \in Ids
    BY DEF RetrierHolds, Requeue, Retrying, Busy
  <1>3. /\ DlqRow(r).msg \in Msgs
        /\ DlqRow(r).retries + 1 \in Nat
        /\ DlqRow(r).origin \in Channels \cup {NoChannel}
    BY <1>2, HeldRow DEF DlqRow
  <1>4. /\ TargetChannel(DlqRow(r)) \in Queues
        /\ table \in Seq(Row)
    BY <1>3, RetryAssumption DEF TargetChannel, Queues, TypeOK
  <1>5. QED
    BY <1>1, <1>3, <1>4, InsertAppends DEF NewRow

-----------------------------------------------------------------------------

LEMMA RowsSoundStep ==
    ASSUME TypeOK, SenderHolds, RetrierHolds, LogKept, RowsSound, DlqDecided,
           [Next]_vars
    PROVE  RowsSound'
  <1> SUFFICES ASSUME NEW i \in Ids' PROVE Sound(table'[i])
    BY DEF RowsSound
  <1>1. CASE i \in Ids
    BY <1>1 DEF RowsSound, LogKept, Sound
  <1>2. ASSUME i \notin Ids, NEW m \in Msgs, NEW n \in InitialRetries, Enqueue(m, n)
        PROVE  Sound(table'[i])
    <2>1. table'[i] = [queue |-> MsgChannel[m], msg |-> m, retries |-> n,
                       origin |-> NoChannel, state |-> "visible"]
      BY <1>2, EnqueuedRow DEF NewRow
    <2>2. QED
      BY <2>1 DEF Sound
  <1>3. ASSUME i \notin Ids, NEW w \in Senders, SendToDlq(w)
        PROVE  Sound(table'[i])
    <2>1. sender[w].pc = "dlq" /\ sender[w].id \in Ids
      BY <1>3 DEF SendToDlq, Working, SenderHolds, Busy
    <2>2. /\ Envelope(w).queue = WorkerChannel[w]
          /\ Sound(Envelope(w))
          /\ Envelope(w).retries >= SenderMax
      BY <2>1 DEF SenderHolds, Busy, RowsSound, Envelope, DlqDecided, Spent
    <2>3. Envelope(w).queue # DLQ
      BY <2>2, PgmqAssumption, SenderAssumption
    <2>4. WorkerChannel[w] = MsgChannel[Envelope(w).msg]
      BY <2>2, <2>3 DEF Sound
    <2>5. table'[i] = [queue |-> DLQ, msg |-> Envelope(w).msg,
                       retries |-> Envelope(w).retries,
                       origin |-> WorkerChannel[w], state |-> "visible"]
      BY <1>3, DeadLetterRow DEF NewRow
    <2>6. QED
      BY <2>2, <2>4, <2>5 DEF Sound
  <1>4. ASSUME i \notin Ids, NEW r \in Retriers, Requeue(r)
        PROVE  Sound(table'[i])
    <2>1. /\ retrier[r].id \in Ids
          /\ DlqRow(r).queue = DLQ
          /\ DlqRow(r).retries < RetryMax
      BY <1>4 DEF Requeue, Retrying, RetrierHolds, Busy, DlqRow
    <2>2. Sound(DlqRow(r)) /\ DlqRow(r).msg \in Msgs /\ DlqRow(r).retries \in Nat
      BY <2>1, HeldRow DEF RowsSound, DlqRow
    <2>3. MsgChannel[DlqRow(r).msg] \in Channels
      BY <2>2, DeliveryAssumption
    <2>4. DlqRow(r).origin = MsgChannel[DlqRow(r).msg]
      BY <2>1, <2>2, <2>3, PgmqAssumption DEF Sound
    <2>5. TargetChannel(DlqRow(r)) = MsgChannel[DlqRow(r).msg]
      BY <2>3, <2>4, PgmqAssumption DEF TargetChannel
    <2>6. table'[i] = [queue |-> TargetChannel(DlqRow(r)), msg |-> DlqRow(r).msg,
                       retries |-> DlqRow(r).retries + 1,
                       origin |-> DlqRow(r).origin, state |-> "hidden"]
      BY <1>4, RequeuedRow DEF NewRow
    <2>7. DlqRow(r).retries + 1 <= RetryMax
      BY <2>1, <2>2, RetryAssumption
    <2>8. QED
      BY <2>4, <2>5, <2>6, <2>7 DEF Sound
  <1>5. QED
    BY <1>1, <1>2, <1>3, <1>4, OnlyThreeInsert

LEMMA DlqDecidedStep ==
    ASSUME TypeOK, SenderHolds, LogKept, DlqDecided, [Next]_vars
    PROVE  DlqDecided'
  <1> SUFFICES ASSUME NEW v \in Senders, sender'[v].pc = "dlq"
               PROVE  table'[sender'[v].id].retries >= SenderMax
    BY DEF DlqDecided, Spent, Envelope
  <1>1. CASE sender'[v] = sender[v]
    BY <1>1 DEF DlqDecided, Spent, Envelope, SenderHolds, Busy, LogKept
  <1>2. ASSUME NEW e \in Endings, NEW n \in Acceptances, Dispatch(v, e, n)
        PROVE  table'[sender'[v].id].retries >= SenderMax
    <2>1. sender[v].id \in Ids
      BY <1>2 DEF Dispatch, Working, SenderHolds, Busy
    <2>2. sender'[v].id = sender[v].id /\ Spent(Envelope(v))
      BY <1>2 DEF Dispatch, Goto, NextPoll, Halt, Polling, Stopped, TypeOK
    <2>3. QED
      BY <2>1, <2>2 DEF Spent, Envelope, LogKept
  <1>3. \/ sender'[v] = sender[v]
        \/ \E e \in Endings, n \in Acceptances : Dispatch(v, e, n)
    <2>1. \/ sender' = sender
          \/ \E w \in Senders : SenderStep(w)
      BY DEF Next, vars, senderVars, Enqueue, VtExpires, RetrierCrash
    <2>2. ASSUME NEW w \in Senders, SenderStep(w), w # v
          PROVE  sender'[v] = sender[v]
      BY <2>2, SenderMoves DEF SenderMove, TypeOK
    <2>3. ASSUME SenderStep(v)
          PROVE  \E e \in Endings, n \in Acceptances : Dispatch(v, e, n)
      BY <2>3 DEF SenderStep, Start, Shutdown, ReadOne, EmitBilling, ArchiveSent,
                  ArchiveSentFails, SendToDlq, ArchiveDead, SenderDies, Goto,
                  NextPoll, Halt, Polling, Stopped, TypeOK
    <2>4. QED
      BY <2>1, <2>2, <2>3
  <1>4. QED
    BY <1>1, <1>2, <1>3

BudgetInv == IInv /\ RowsSound /\ DlqDecided

(* Every row is sound, in every run.                                       *)
THEOREM RowsAreSound == Spec => []BudgetInv
  <1>1. Init => BudgetInv
    <2>1. Init => RowsSound
      BY DEF Init, RowsSound, Ids
    <2>2. Init => DlqDecided
      BY DEF Init, SenderInit, DlqDecided, Stopped
    <2>3. QED
      BY <2>1, <2>2, InitIInv DEF BudgetInv
  <1>2. BudgetInv /\ [Next]_vars => BudgetInv'
    <2> SUFFICES ASSUME BudgetInv, [Next]_vars PROVE BudgetInv'
      OBVIOUS
    <2> USE DEF BudgetInv
    <2>1. IInv'
      BY IInvStep
    <2>2. LogKept
      BY LogEffects, LogGrows DEF IInv
    <2>3. RowsSound'
      BY <2>2, RowsSoundStep DEF IInv
    <2>4. DlqDecided'
      BY <2>2, DlqDecidedStep DEF IInv
    <2>5. QED
      BY <2>1, <2>3, <2>4
  <1>3. QED
    BY <1>1, <1>2, PTL DEF Spec

(* A message that comes back from the shared DLQ is in the queue of its    *)
(* own channel: the workers of a channel never get another channel's       *)
(* payload, however many channels, workers and retries there are.          *)
THEOREM ChannelsPreserved == Spec => []ChannelPreserved
  <1>1. BudgetInv => ChannelPreserved
    BY DEF BudgetInv, RowsSound, Sound, ChannelPreserved
  <1>2. QED
    BY <1>1, RowsAreSound, PTL

(* No copy of a message ever carries more retries than max_retries of the  *)
(* retry worker, unless it was enqueued with more.                         *)
THEOREM BudgetKept == Spec => []RetryBudget
  <1>1. BudgetInv => RetryBudget
    BY DEF BudgetInv, RowsSound, Sound, RetryBudget
  <1>2. QED
    BY <1>1, RowsAreSound, PTL

(* A sender dead-letters only what has used up max_retries.                *)
THEOREM OnlySpentAreDead == Spec => []DeadLettersAreSpent
  <1>1. BudgetInv => DeadLettersAreSpent
    <2> SUFFICES ASSUME BudgetInv, NEW id \in Ids, table[id].queue = DLQ
                 PROVE  table[id].retries >= SenderMax
      BY DEF DeadLettersAreSpent
    <2>1. Sound(table[id]) /\ table[id].msg \in Msgs
      BY HeldRow DEF BudgetInv, IInv, RowsSound
    <2>2. MsgChannel[table[id].msg] # DLQ
      BY <2>1, PgmqAssumption, DeliveryAssumption
    <2>3. QED
      BY <2>1, <2>2 DEF Sound
  <1>2. QED
    BY <1>1, RowsAreSound, PTL

(* The retry machinery cannot start by itself.  If every payload is        *)
(* enqueued with fewer retries than max_retries of the senders (0 from a   *)
(* producer that sets none, and the default is 5), no message ever reaches *)
(* the dead-letter queue, however often the providers refuse it: only the  *)
(* retry worker raises _retries, and it only sees what is already there.   *)
FreshlyEnqueued == \A n \in InitialRetries : n < SenderMax

NoDeadLetters ==
    \A id \in Ids : table[id].queue # DLQ /\ table[id].retries < SenderMax

THEOREM DlqUnreachable ==
    ASSUME FreshlyEnqueued
    PROVE  Spec => []NoDeadLetters
  <1>1. Init => NoDeadLetters
    BY DEF Init, NoDeadLetters, Ids
  <1>2. BudgetInv /\ NoDeadLetters /\ [Next]_vars => NoDeadLetters'
    <2> SUFFICES ASSUME BudgetInv, NoDeadLetters, [Next]_vars,
                        NEW i \in Ids'
                 PROVE  table'[i].queue # DLQ /\ table'[i].retries < SenderMax
      BY DEF NoDeadLetters
    <2> USE DEF BudgetInv, IInv
    <2>1. LogKept
      BY LogEffects, LogGrows
    <2>2. CASE i \in Ids
      BY <2>1, <2>2 DEF LogKept, NoDeadLetters
    <2>3. ASSUME NEW m \in Msgs, NEW n \in InitialRetries, Enqueue(m, n), i \notin Ids
          PROVE  table'[i].queue # DLQ /\ table'[i].retries < SenderMax
      <3>1. table'[i] = [queue |-> MsgChannel[m], msg |-> m, retries |-> n,
                         origin |-> NoChannel, state |-> "visible"]
        BY <2>3, EnqueuedRow DEF NewRow
      <3>2. MsgChannel[m] # DLQ /\ n < SenderMax
        BY PgmqAssumption, DeliveryAssumption DEF FreshlyEnqueued
      <3>3. QED
        BY <3>1, <3>2
    <2>4. ASSUME NEW w \in Senders, SendToDlq(w)
          PROVE  FALSE
      <3>1. sender[w].id \in Ids /\ Spent(Envelope(w))
        BY <2>4 DEF SendToDlq, Working, SenderHolds, Busy, DlqDecided
      <3>2. Envelope(w).retries \in Nat /\ Envelope(w).retries < SenderMax
        BY <3>1, HeldRow DEF NoDeadLetters, Envelope
      <3>3. QED
        BY <3>1, <3>2, SenderAssumption DEF Spent
    <2>5. ASSUME NEW r \in Retriers, Requeue(r)
          PROVE  FALSE
      BY <2>5 DEF Requeue, Retrying, RetrierHolds, Busy, NoDeadLetters
    <2>6. QED
      BY <2>2, <2>3, <2>4, <2>5, OnlyThreeInsert
  <1>3. QED
    BY <1>1, <1>2, RowsAreSound, PTL DEF Spec
=============================================================================
