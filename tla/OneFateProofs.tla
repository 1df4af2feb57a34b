---------------------------- MODULE OneFateProofs ----------------------------
(***************************************************************************)
(* A message nothing disturbs has one fate, for every instance of          *)
(* OutboundDelivery.                                                       *)
(*                                                                         *)
(* OneFateUnlessDisturbed counts what became of a message; why the count   *)
(* stays at one is in the queues.  A message may have many rows, one for   *)
(* each time it went to the DLQ or came back, and several processes may    *)
(* hold them at once, because a copy is inserted before the row it was     *)
(* made from is archived.  A row is open if it can still be dispatched,    *)
(* given up or copied: nobody holds it, or its holder has not decided yet. *)
(* An undisturbed message has at most one open row, and as long as it has  *)
(* one nothing has become of it.  This is what a lease that runs out, a    *)
(* worker that dies with the result, or a provider that accepts an attempt *)
(* it did not confirm would break, and what those steps disturb.           *)
(***************************************************************************)
EXTENDS OutboundDeliveryProofs

(* The rows of a message, archived ones included.                          *)
Rows(m) == {id \in Ids : table[id].msg = m}

(* What becomes of the message is still to be decided on this row.         *)
Open(id) ==
    /\ Live(id)
    /\ \A w \in Senders : sender[w].id = id => sender[w].pc \in {"dispatch", "dlq"}
    /\ \A r \in Retriers : retrier[r].id = id => retrier[r].pc = "handle"

(* No provider has it, nobody billed it and nobody gave it up.              *)
Unsettled(m) == sent[m] = 0 /\ billed[m] = 0 /\ m \notin failed

(* A row of the message that a process holds is hidden, and nobody else    *)
(* holds it.                                                               *)
LeasesHold(m) ==
    /\ \A w \in Senders : sender[w].id \in Rows(m) =>
           /\ table[sender[w].id].state = "hidden"
           /\ \A v \in Senders : sender[v].id = sender[w].id => v = w
    /\ \A r \in Retriers : retrier[r].id \in Rows(m) =>
           /\ table[retrier[r].id].state = "hidden"
           /\ \A q \in Retriers : retrier[q].id = retrier[r].id => q = r

(* At most one row is open, and only before the message is settled.        *)
OneOpen(m) ==
    \A i \in Rows(m) : Open(i) =>
        /\ Unsettled(m)
        /\ \A j \in Rows(m) : Open(j) => j = i

(* One sender at most is about to bill the message, which was sent once.   *)
OneEmits(m) ==
    \A w \in Senders : sender[w].id \in Rows(m) /\ sender[w].pc = "emit" =>
        /\ sent[m] = 1 /\ billed[m] = 0
        /\ \A v \in Senders :
               sender[v].id \in Rows(m) /\ sender[v].pc = "emit" => v = w

OneFate(m) ==
    /\ LeasesHold(m)
    /\ OneOpen(m)
    /\ OneEmits(m)
    /\ Fates(m) <= 1 /\ billed[m] <= sent[m]
    /\ Rows(m) = {} => Unsettled(m)

(* The inductive invariant: every undisturbed message has one fate.        *)
FateInv == \A m \in Msgs \ disturbed : OneFate(m)

-----------------------------------------------------------------------------
(* msg_ids count from 1, and 0 stands for no row.                          *)
LEMMA RowsHaveIds ==
    ASSUME TypeOK, NEW m
    PROVE  Rows(m) \subseteq Ids /\ Ids \subseteq Nat \ {0}
  BY DEF Rows, Ids, TypeOK

(* A row whose state changes stays a row of its message.                   *)
LEMMA RowsStay ==
    ASSUME TypeOK, NEW id \in Ids, NEW st \in {"visible", "hidden", "archived"},
           table' = [table EXCEPT ![id].state = st], NEW m
    PROVE  /\ Rows(m)' = Rows(m)
           /\ \A i \in Rows(m) \ {id} : table'[i] = table[i]
           /\ table'[id].state = st
  <1>1. table \in Seq(Row)
    BY DEF TypeOK
  <1>2. QED
    BY <1>1, StateChange DEF Rows

(* A row that is inserted is one more row of its message.                  *)
LEMMA RowAdded ==
    ASSUME TypeOK, NEW q \in Queues, NEW n \in Msgs, NEW k \in Nat,
           NEW o \in Channels \cup {NoChannel}, NEW st \in {"visible", "hidden"},
           Insert(q, n, k, o, st), NEW m
    PROVE  /\ \A i \in Rows(m) : table'[i] = table[i]
           /\ Len(table) + 1 \notin Ids
           /\ Rows(m)' = Rows(m) \cup (IF n = m THEN {Len(table) + 1} ELSE {})
  <1>1. table \in Seq(Row)
    BY DEF TypeOK
  <1>2. /\ \A i \in Ids : i \in Ids' /\ table'[i] = table[i]
        /\ \A i \in Ids' : i \in Ids \/ i = Len(table) + 1
        /\ Len(table) + 1 \in Ids'
        /\ table'[Len(table) + 1].msg = n
    <2>1. table'[Len(table) + 1] = [queue |-> q, msg |-> n, retries |-> k,
                                    origin |-> o, state |-> st]
      BY <1>1, InsertAppends
    <2>2. table'[Len(table) + 1].msg = n
      BY <2>1
    <2>3. QED
      BY <1>1, <2>2, InsertAppends
  <1>3. Len(table) + 1 \notin Ids
    BY <1>1 DEF Ids
  <1>4. QED
    BY <1>2, <1>3 DEF Rows

(* Nobody takes up a row, and the rows that are held keep their state.     *)
LEMMA LeasesKept ==
    ASSUME TypeOK, SenderHolds, RetrierHolds, NEW m, LeasesHold(m),
           \A i \in Rows(m)' : i \in Rows(m) \/ i \notin Ids,
           \A w \in Senders : sender'[w].id \in {0, sender[w].id},
           \A r \in Retriers : retrier'[r].id \in {0, retrier[r].id},
           \A w \in Senders : sender'[w].id \in Rows(m) =>
               table'[sender'[w].id].state = table[sender'[w].id].state,
           \A r \in Retriers : retrier'[r].id \in Rows(m) =>
               table'[retrier'[r].id].state = table[retrier'[r].id].state,
           0 \notin Rows(m)'
    PROVE  LeasesHold(m)'
  <1>1. ASSUME NEW w \in Senders, sender'[w].id \in Rows(m)'
        PROVE  sender[w].id = sender'[w].id /\ sender[w].id \in Rows(m)
    <2>1. sender'[w].id = sender[w].id
      BY <1>1
    <2>2. sender[w].id \in Ids \cup {0}
      BY DEF SenderHolds
    <2>3. QED
      BY <1>1, <2>1, <2>2
  <1>2. ASSUME NEW r \in Retriers, retrier'[r].id \in Rows(m)'
        PROVE  retrier[r].id = retrier'[r].id /\ retrier[r].id \in Rows(m)
    <2>1. retrier'[r].id = retrier[r].id
      BY <1>2
    <2>2. retrier[r].id \in Ids \cup {0}
      BY DEF RetrierHolds
    <2>3. QED
      BY <1>2, <2>1, <2>2
  <1>3. QED
    BY <1>1, <1>2 DEF LeasesHold

(* A step that opens no row and settles nothing keeps the fate open.       *)
LEMMA FateKept ==
    ASSUME NEW m, OneFate(m), LeasesHold(m)', Rows(m)' = Rows(m),
           \A i \in Rows(m) : Open(i)' => Open(i),
           \A w \in Senders : sender'[w].id \in Rows(m) /\ sender'[w].pc = "emit" =>
               sender'[w] = sender[w],
           sent'[m] = sent[m], billed'[m] = billed[m],
           m \in failed' <=> m \in failed
    PROVE  OneFate(m)'
  <1>1. Unsettled(m)' <=> Unsettled(m)
    BY DEF Unsettled
  <1>2. OneOpen(m)'
    BY <1>1 DEF OneFate, OneOpen
  <1>3. OneEmits(m)'
    BY DEF OneFate, OneEmits
  <1>4. Fates(m)' = Fates(m)
    BY DEF Fates
  <1>5. QED
    BY <1>1, <1>2, <1>3, <1>4 DEF OneFate

(* A process that has not come to a decision holds the open row of its     *)
(* message: senders read channel queues and retriers the DLQ, so that no   *)
(* lease is shared.                                                        *)
LEMMA SenderHasOpen ==
    ASSUME TypeOK, SenderHolds, RetrierHolds, NEW m, LeasesHold(m),
           NEW w \in Senders, sender[w].id \in Rows(m),
           sender[w].pc \in {"dispatch", "dlq"}
    PROVE  Open(sender[w].id)
  <1>1. Live(sender[w].id)
    BY DEF LeasesHold, Live
  <1>2. Busy(sender[w])
    BY DEF Busy
  <1>3. \A r \in Retriers : retrier[r].id # sender[w].id
    <2>1. table[sender[w].id].queue = WorkerChannel[w] /\ sender[w].id \in Ids
      BY <1>2 DEF SenderHolds
    <2>2. WorkerChannel[w] # DLQ
      BY SenderAssumption, PgmqAssumption
    <2>3. 0 \notin Ids
      BY RowsHaveIds
    <2>4. QED
      BY <2>1, <2>2, <2>3 DEF RetrierHolds
  <1>4. QED
    BY <1>1, <1>3 DEF Open, LeasesHold

(* The same for the retry worker.                                          *)
LEMMA RetrierHasOpen ==
    ASSUME TypeOK, SenderHolds, RetrierHolds, NEW m, LeasesHold(m),
           NEW r \in Retriers, retrier[r].id \in Rows(m), retrier[r].pc = "handle"
    PROVE  Open(retrier[r].id)
  <1>1. Live(retrier[r].id)
    BY DEF LeasesHold, Live
  <1>2. Busy(retrier[r])
    BY DEF Busy
  <1>3. \A w \in Senders : sender[w].id # retrier[r].id
    <2>1. table[retrier[r].id].queue = DLQ /\ retrier[r].id \in Ids
      BY <1>2 DEF RetrierHolds
    <2>2. \A w \in Senders : WorkerChannel[w] # DLQ
      BY SenderAssumption, PgmqAssumption
    <2>3. 0 \notin Ids
      BY RowsHaveIds
    <2>4. QED
      BY <2>1, <2>2, <2>3 DEF SenderHolds
  <1>4. QED
    BY <1>1, <1>3 DEF Open, LeasesHold

(* A sender that moves without deciding anything about m: its row is of    *)
(* another message, or it gives the open row back or takes it to the DLQ.  *)
LEMMA QuietSender ==
    ASSUME TypeOK, SenderHolds, RetrierHolds, NEW m, OneFate(m),
           Rows(m)' = Rows(m), \A i \in Rows(m) : table'[i] = table[i],
           NEW w \in Senders, retrier' = retrier,
           \A v \in Senders \ {w} : sender'[v] = sender[v],
           sender'[w].id \in {0, sender[w].id},
           sender[w].id \in Rows(m) => /\ sender[w].pc \in {"dispatch", "dlq"}
                                       /\ sender'[w].pc # "emit",
           sent'[m] = sent[m], billed'[m] = billed[m],
           m \in failed' <=> m \in failed
    PROVE  OneFate(m)'
  <1>1. 0 \notin Rows(m)
    BY RowsHaveIds
  <1>2. LeasesHold(m)'
    <2>1. LeasesHold(m)
      BY DEF OneFate
    <2>2. QED
      BY <1>1, <2>1, LeasesKept
  <1>3. ASSUME NEW i \in Rows(m), Open(i)' PROVE Open(i)
    BY <1>1, <1>3 DEF Open, Live
  <1>4. QED
    BY <1>1, <1>2, <1>3, FateKept

(* The same for a retry worker.                                            *)
LEMMA QuietRetrier ==
    ASSUME TypeOK, SenderHolds, RetrierHolds, NEW m, OneFate(m),
           Rows(m)' = Rows(m), \A i \in Rows(m) : table'[i] = table[i],
           NEW r \in Retriers, sender' = sender,
           \A q \in Retriers \ {r} : retrier'[q] = retrier[q],
           retrier'[r].id \in {0, retrier[r].id},
           retrier[r].id \in Rows(m) => retrier[r].pc = "handle",
           sent'[m] = sent[m], billed'[m] = billed[m],
           m \in failed' <=> m \in failed
    PROVE  OneFate(m)'
  <1>1. 0 \notin Rows(m)
    BY RowsHaveIds
  <1>2. LeasesHold(m)'
    <2>1. LeasesHold(m)
      BY DEF OneFate
    <2>2. QED
      BY <1>1, <2>1, LeasesKept
  <1>3. ASSUME NEW i \in Rows(m), Open(i)' PROVE Open(i)
    BY <1>1, <1>3 DEF Open, Live
  <1>4. QED
    BY <1>1, <1>2, <1>3, FateKept

(* The open row is copied: what was open is the copy now.                  *)
LEMMA CopyFate ==
    ASSUME TypeOK, SenderHolds, RetrierHolds, NEW m \in Msgs, OneFate(m),
           NEW i \in Rows(m), Open(i), ~Open(i)',
           NEW q \in Queues, NEW n \in Nat, NEW o \in Channels \cup {NoChannel},
           NEW st \in {"visible", "hidden"}, Insert(q, m, n, o, st),
           \A w \in Senders : sender'[w].id \in {0, sender[w].id},
           \A r \in Retriers : retrier'[r].id \in {0, retrier[r].id},
           \A j \in Rows(m) : Open(j)' => Open(j),
           \A w \in Senders : sender'[w].pc = "emit" => sender'[w] = sender[w],
           sent'[m] = sent[m], billed'[m] = billed[m],
           m \in failed' <=> m \in failed
    PROVE  OneFate(m)'
  <1> DEFINE k == Len(table) + 1
  <1>1. /\ Rows(m)' = Rows(m) \cup {k}
        /\ \A j \in Rows(m) : table'[j] = table[j]
        /\ k \notin Ids /\ k # 0
    <2>1. k # 0
      BY DEF TypeOK
    <2>2. QED
      BY <2>1, RowAdded
  <1> HIDE DEF k
  <1>2. LeasesHold(m)'
    <2>1. LeasesHold(m)
      BY DEF OneFate
    <2>2. 0 \notin Rows(m)'
      BY <1>1, RowsHaveIds
    <2>3. QED
      BY <1>1, <2>1, <2>2, LeasesKept
  <1>3. Unsettled(m) /\ \A j \in Rows(m) : Open(j) => j = i
    BY DEF OneFate, OneOpen
  <1>4. Unsettled(m)'
    BY <1>3 DEF Unsettled
  <1>5. OneOpen(m)'
    BY <1>1, <1>3, <1>4 DEF OneOpen
  <1>6. OneEmits(m)'
    <2>1. \A w \in Senders : sender'[w].id # k
      <3>1. \A w \in Senders : sender[w].id \in Ids \cup {0}
        BY DEF SenderHolds
      <3>2. QED
        BY <1>1, <3>1
    <2>2. QED
      BY <1>1, <2>1 DEF OneFate, OneEmits
  <1>7. Fates(m)' <= 1 /\ billed'[m] <= sent'[m]
    BY <1>4 DEF Unsettled, Fates
  <1>8. QED
    BY <1>1, <1>2, <1>4, <1>5, <1>6, <1>7 DEF OneFate

(* A process archives the row it has settled or copied, and lets go of it. *)
LEMMA ArchivedFate ==
    ASSUME TypeOK, SenderHolds, RetrierHolds, NEW m, OneFate(m), NEW i \in Ids,
           Archive(i),
           \A w \in Senders : \/ sender'[w] = sender[w] /\ sender[w].id # i
                              \/ sender[w].id = i /\ sender'[w] = Polling
                              \/ m # table[i].msg /\ sender'[w] = sender[w],
           \A r \in Retriers : \/ retrier'[r] = retrier[r] /\ retrier[r].id # i
                               \/ retrier[r].id = i /\ retrier'[r] = Polling
                               \/ m # table[i].msg /\ retrier'[r] = retrier[r],
           sent'[m] = sent[m], billed'[m] = billed[m],
           m \in failed' <=> m \in failed
    PROVE  OneFate(m)'
  <1>1. /\ Rows(m)' = Rows(m)
        /\ \A j \in Rows(m) \ {i} : table'[j] = table[j]
        /\ table'[i].state = "archived"
    BY RowsStay DEF Archive
  <1>2. 0 \notin Rows(m) /\ 0 \notin Ids
    BY RowsHaveIds
  <1>3. /\ \A w \in Senders : sender'[w].id \in {0, sender[w].id}
        /\ \A r \in Retriers : retrier'[r].id \in {0, retrier[r].id}
    BY DEF Polling
  <1>4. /\ \A w \in Senders : sender'[w].id \in Rows(m) => sender'[w].id # i
        /\ \A r \in Retriers : retrier'[r].id \in Rows(m) => retrier'[r].id # i
    BY <1>2 DEF Polling, Rows
  <1>5. LeasesHold(m)'
    <2>1. LeasesHold(m)
      BY DEF OneFate
    <2>2. /\ \A w \in Senders : sender'[w].id \in Rows(m) =>
                 table'[sender'[w].id] = table[sender'[w].id]
          /\ \A r \in Retriers : retrier'[r].id \in Rows(m) =>
                 table'[retrier'[r].id] = table[retrier'[r].id]
      BY <1>1, <1>4
    <2>3. QED
      BY <1>1, <1>2, <1>3, <2>1, <2>2, LeasesKept
  <1>6. ASSUME NEW j \in Rows(m), Open(j)' PROVE Open(j)
    <2>1. j # i
      BY <1>1, <1>6 DEF Open, Live
    <2>2. Live(j)
      BY <1>1, <1>6, <2>1 DEF Open, Live
    <2>3. /\ \A w \in Senders : sender[w].id = j => sender'[w] = sender[w]
          /\ \A r \in Retriers : retrier[r].id = j => retrier'[r] = retrier[r]
      BY <2>1
    <2>4. QED
      BY <1>6, <2>2, <2>3 DEF Open
  <1>7. \A w \in Senders : sender'[w].pc = "emit" => sender'[w] = sender[w]
    BY DEF Polling
  <1>8. QED
    BY <1>1, <1>5, <1>6, <1>7, FateKept

(* A process reads a visible row, which nobody holds.                      *)
LEMMA ReadFate ==
    ASSUME TypeOK, SenderHolds, RetrierHolds, NEW m, OneFate(m), NEW i \in Ids,
           table[i].state = "visible", table' = [table EXCEPT ![i].state = "hidden"],
           sent'[m] = sent[m], billed'[m] = billed[m],
           m \in failed' <=> m \in failed,
           \/ /\ retrier' = retrier
              /\ \E w \in Senders :
                     /\ sender[w].id = 0
                     /\ sender' = [sender EXCEPT ![w] = [pc |-> "dispatch", id |-> i]]
           \/ /\ sender' = sender
              /\ \E r \in Retriers :
                     /\ retrier[r].id = 0
                     /\ retrier' = [retrier EXCEPT ![r] = [pc |-> "handle", id |-> i]]
    PROVE  OneFate(m)'
  <1>1. /\ Rows(m)' = Rows(m)
        /\ \A j \in Rows(m) \ {i} : table'[j] = table[j]
        /\ table'[i].state = "hidden"
        /\ 0 \notin Rows(m)
    BY RowsStay, RowsHaveIds
  <1>2. LeasesHold(m)
    BY DEF OneFate
  <1>3. i \in Rows(m) => /\ \A w \in Senders : sender[w].id # i
                         /\ \A r \in Retriers : retrier[r].id # i
    BY <1>2 DEF LeasesHold
  <1>4. \A j \in Rows(m) : Live(j)' => Live(j)
    BY <1>1 DEF Live
  <1>5. ASSUME NEW w \in Senders, sender[w].id = 0, retrier' = retrier,
               sender' = [sender EXCEPT ![w] = [pc |-> "dispatch", id |-> i]]
        PROVE  OneFate(m)'
    <2>1. /\ sender'[w] = [pc |-> "dispatch", id |-> i]
          /\ \A v \in Senders \ {w} : sender'[v] = sender[v]
      BY <1>5 DEF TypeOK
    <2>2. LeasesHold(m)'
      BY <1>1, <1>2, <1>3, <1>5, <2>1 DEF LeasesHold
    <2>3. \A j \in Rows(m) : Open(j)' => Open(j)
      BY <1>1, <1>4, <1>5, <2>1 DEF Open
    <2>4. QED
      BY <1>1, <2>1, <2>2, <2>3, FateKept
  <1>6. ASSUME NEW r \in Retriers, retrier[r].id = 0, sender' = sender,
               retrier' = [retrier EXCEPT ![r] = [pc |-> "handle", id |-> i]]
        PROVE  OneFate(m)'
    <2>1. /\ retrier'[r] = [pc |-> "handle", id |-> i]
          /\ \A q \in Retriers \ {r} : retrier'[q] = retrier[q]
      BY <1>6 DEF TypeOK
    <2>2. LeasesHold(m)'
      BY <1>1, <1>2, <1>3, <1>6, <2>1 DEF LeasesHold
    <2>3. \A j \in Rows(m) : Open(j)' => Open(j)
      BY <1>1, <1>4, <1>6, <2>1 DEF Open
    <2>4. QED
      BY <1>1, <1>6, <2>2, <2>3, FateKept
  <1>7. QED
    BY <1>5, <1>6

(* A provider took the message once and said so.                           *)
LEMMA RoutedFate ==
    ASSUME TypeOK, SenderHolds, RetrierHolds, NEW m \in Msgs, OneFate(m),
           NEW w \in Senders, sender[w].id \in Rows(m), sender[w].pc = "dispatch",
           table' = table, retrier' = retrier, failed' = failed, billed' = billed,
           sender' = [sender EXCEPT ![w].pc = "emit"],
           sent' = [sent EXCEPT ![m] = Plus(@, 1, CountCap)]
    PROVE  OneFate(m)'
  <1> DEFINE i == sender[w].id
  <1>1. LeasesHold(m) /\ Open(i)
    BY SenderHasOpen DEF OneFate
  <1>2. Unsettled(m) /\ \A j \in Rows(m) : Open(j) => j = i
    BY <1>1 DEF OneFate, OneOpen
  <1>3. /\ sender'[w].id = i /\ sender'[w].pc = "emit"
        /\ \A v \in Senders \ {w} : sender'[v] = sender[v]
    BY DEF TypeOK
  <1>4. Rows(m)' = Rows(m) /\ 0 \notin Rows(m)
    BY RowsHaveIds DEF Rows, Ids
  <1>5. sent'[m] = 1 /\ billed'[m] = 0 /\ m \notin failed'
    BY <1>2, SenderAssumption DEF Unsettled, Plus, TypeOK
  <1>6. \A v \in Senders : sender'[v].id \in {0, sender[v].id}
    BY <1>3
  <1>7. LeasesHold(m)'
    BY <1>1, <1>4, <1>6, LeasesKept, RowsHaveIds
  <1>8. OneOpen(m)'
    <2>1. ASSUME NEW j \in Rows(m), Open(j)' PROVE FALSE
      <3>1. j # i
        BY <1>3, <2>1 DEF Open
      <3>2. Open(j)
        BY <1>3, <2>1, <3>1 DEF Open, Live
      <3>3. QED
        BY <1>2, <3>1, <3>2
    <2>2. QED
      BY <1>4, <2>1 DEF OneOpen
  <1>9. OneEmits(m)'
    <2>1. ASSUME NEW v \in Senders, sender[v].id \in Rows(m), sender[v].pc = "emit"
          PROVE  FALSE
      BY <1>2, <2>1 DEF OneFate, OneEmits, Unsettled
    <2>2. QED
      BY <1>3, <1>4, <1>5, <2>1 DEF OneEmits
  <1>10. QED
    BY <1>4, <1>5, <1>7, <1>8, <1>9 DEF OneFate, Fates

(* The billing event of a message is recorded, or is not.                  *)
LEMMA BilledFate ==
    ASSUME TypeOK, SenderHolds, RetrierHolds, NEW m \in Msgs, OneFate(m),
           NEW w \in Senders, sender[w].id \in Rows(m), sender[w].pc = "emit",
           NEW n \in 0..1,
           table' = table, retrier' = retrier, failed' = failed, sent' = sent,
           sender' = [sender EXCEPT ![w].pc = "archive"],
           billed' = [billed EXCEPT ![m] = Plus(@, n, CountCap)]
    PROVE  OneFate(m)'
  <1>1. LeasesHold(m)
    BY DEF OneFate
  <1>2. /\ sent[m] = 1 /\ billed[m] = 0
        /\ \A v \in Senders :
               sender[v].id \in Rows(m) /\ sender[v].pc = "emit" => v = w
    BY DEF OneFate, OneEmits
  <1>3. /\ sender'[w].id = sender[w].id /\ sender'[w].pc = "archive"
        /\ \A v \in Senders \ {w} : sender'[v] = sender[v]
    BY DEF TypeOK
  <1>4. Rows(m)' = Rows(m) /\ 0 \notin Rows(m)
    BY RowsHaveIds DEF Rows, Ids
  <1>5. sent'[m] = 1 /\ billed'[m] \in 0..1
    <2>1. billed'[m] = Plus(0, n, CountCap)
      BY <1>2 DEF TypeOK
    <2>2. QED
      BY <1>2, <2>1, SenderAssumption DEF Plus
  <1>6. \A v \in Senders : sender'[v].id \in {0, sender[v].id}
    BY <1>3
  <1>7. LeasesHold(m)'
    BY <1>1, <1>4, <1>6, LeasesKept, RowsHaveIds
  <1>8. OneOpen(m)'
    <2>1. ASSUME NEW j \in Rows(m), Open(j)' PROVE FALSE
      <3>1. Open(j)
        BY <1>3, <2>1 DEF Open, Live
      <3>2. QED
        BY <1>2, <3>1 DEF OneFate, OneOpen, Unsettled
    <2>2. QED
      BY <1>4, <2>1 DEF OneOpen
  <1>9. OneEmits(m)'
    BY <1>2, <1>3, <1>4 DEF OneEmits
  <1>10. Fates(m)' <= 1 /\ Rows(m) # {}
    BY DEF OneFate, Fates
  <1>11. QED
    BY <1>4, <1>5, <1>7, <1>8, <1>9, <1>10 DEF OneFate

(* The retry worker gives a message up.                                    *)
LEMMA GivenUpFate ==
    ASSUME TypeOK, SenderHolds, RetrierHolds, NEW m \in Msgs, OneFate(m),
           NEW r \in Retriers, retrier[r].id \in Rows(m), retrier[r].pc = "handle",
           Archive(retrier[r].id),
           sender' = sender, sent' = sent, billed' = billed,
           failed' = failed \cup {m},
           retrier' = [retrier EXCEPT ![r] = Polling]
    PROVE  OneFate(m)'
  <1> DEFINE i == retrier[r].id
  <1>1. LeasesHold(m) /\ Open(i)
    BY RetrierHasOpen DEF OneFate
  <1>2. Unsettled(m) /\ \A j \in Rows(m) : Open(j) => j = i
    BY <1>1 DEF OneFate, OneOpen
  <1>3. retrier'[r] = Polling /\ \A q \in Retriers \ {r} : retrier'[q] = retrier[q]
    BY DEF TypeOK
  <1>4. i \in Ids /\ 0 \notin Rows(m)
    BY RowsHaveIds
  <1>5. /\ Rows(m)' = Rows(m)
        /\ \A j \in Rows(m) \ {i} : table'[j] = table[j]
        /\ table'[i].state = "archived"
    BY <1>4, RowsStay DEF Archive
  <1>6. LeasesHold(m)'
    <2>1. /\ \A w \in Senders : sender'[w].id # i
          /\ \A q \in Retriers : retrier'[q].id # i
      <3>1. \A w \in Senders : sender[w].id # i
        <4>1. table[i].queue = DLQ /\ \A w \in Senders : WorkerChannel[w] # DLQ
          BY SenderAssumption, PgmqAssumption DEF RetrierHolds, Busy
        <4>2. QED
          BY <1>4, <4>1 DEF SenderHolds
      <3>2. QED
        BY <1>1, <1>3, <1>4, <3>1 DEF LeasesHold, Polling
    <2>2. /\ \A w \in Senders : sender'[w].id \in {0, sender[w].id}
          /\ \A q \in Retriers : retrier'[q].id \in {0, retrier[q].id}
      BY <1>3 DEF Polling
    <2>3. QED
      BY <1>1, <1>4, <1>5, <2>1, <2>2, LeasesKept
  <1>7. OneOpen(m)'
    <2>1. ASSUME NEW j \in Rows(m), Open(j)' PROVE FALSE
      <3>1. j # i
        BY <1>5, <2>1 DEF Open, Live
      <3>2. Open(j)
        BY <1>3, <1>5, <2>1, <3>1 DEF Open, Live
      <3>3. QED
        BY <1>2, <3>1, <3>2
    <2>2. QED
      BY <1>5, <2>1 DEF OneOpen
  <1>8. OneEmits(m)'
    BY <1>2, <1>5 DEF OneFate, OneEmits, Unsettled
  <1>9. Fates(m)' <= 1 /\ billed'[m] <= sent'[m]
    BY <1>2 DEF Unsettled, Fates
  <1>10. QED
    BY <1>5, <1>6, <1>7, <1>8, <1>9 DEF OneFate

-----------------------------------------------------------------------------
(* Dispatch settles the message, or gives its row back or up undecided.    *)
LEMMA DispatchFate ==
    ASSUME TypeOK, SenderHolds, RetrierHolds, NEW m \in Msgs, m \notin disturbed',
           OneFate(m), NEW w \in Senders, NEW e \in Endings, NEW n \in Acceptances,
           Dispatch(w, e, n), UNCHANGED retryVars
    PROVE  OneFate(m)'
  <1> DEFINE x == Envelope(w).msg
  <1>1. /\ sender[w].pc = "dispatch" /\ table' = table /\ billed' = billed
        /\ MayEnd(x, e, n)
        /\ sent' = [sent EXCEPT ![x] = Plus(@, n, CountCap)]
    BY DEF Dispatch, Working
  <1>2. sender[w].id \in Ids /\ x \in Msgs
    BY <1>1, HeldRow DEF SenderHolds, Busy, Envelope
  <1>3. Rows(m)' = Rows(m) /\ \A i \in Rows(m) : table'[i] = table[i]
    BY <1>1 DEF Rows, Ids
  <1>4. retrier' = retrier /\ failed' = failed
    BY DEF retryVars
  <1>5. \/ e = "routed" /\ sender' = [sender EXCEPT ![w].pc = "emit"]
        \/ e # "routed" /\ sender' = [sender EXCEPT ![w].pc = "dlq"]
        \/ e # "routed" /\ sender' = [sender EXCEPT ![w] = Polling]
        \/ e # "routed" /\ sender' = [sender EXCEPT ![w] = Stopped]
    BY DEF Dispatch, Goto, NextPoll, Halt
  <1>6. /\ sender'[w].id \in {0, sender[w].id}
        /\ e # "routed" => sender'[w].pc # "emit"
        /\ \A v \in Senders \ {w} : sender'[v] = sender[v]
    BY <1>5 DEF TypeOK, Polling, Stopped
  <1>7. CASE x # m
    <2>1. sent'[m] = sent[m] /\ sender[w].id \notin Rows(m)
      BY <1>1, <1>7 DEF TypeOK, Rows, Envelope
    <2>2. QED
      BY <1>1, <1>3, <1>4, <1>6, <2>1, QuietSender
  <1>8. CASE x = m
    <2>1. ~((IF e = "routed" THEN n - 1 ELSE n) > 0)
      BY <1>8 DEF Dispatch, Disturb
    <2>2. n \in 0..2 /\ (e = "routed" => n >= 1)
      BY <1>1 DEF Acceptances, MayEnd
    <2>3. n = IF e = "routed" THEN 1 ELSE 0
      BY <2>1, <2>2
    <2>4. sender[w].id \in Rows(m)
      BY <1>2, <1>8 DEF Rows, Envelope
    <2>5. CASE e = "routed"
      BY <1>1, <1>4, <1>5, <1>8, <2>3, <2>4, <2>5, RoutedFate
    <2>6. CASE e # "routed"
      <3>1. sent'[m] = sent[m]
        <4>1. sent'[m] = Plus(sent[m], 0, CountCap)
          BY <1>1, <1>8, <2>3, <2>6 DEF TypeOK
        <4>2. sent[m] \in 0..CountCap /\ CountCap \in Nat
          BY SenderAssumption DEF TypeOK
        <4>3. QED
          BY <4>1, <4>2 DEF Plus
      <3>2. QED
        BY <1>1, <1>3, <1>4, <1>6, <2>6, <3>1, QuietSender
    <2>7. QED
      BY <2>5, <2>6
  <1>9. QED
    BY <1>7, <1>8

(* Every step of a sender keeps the fate of an undisturbed message single. *)
LEMMA SenderFate ==
    ASSUME TypeOK, SenderHolds, RetrierHolds, NEW m \in Msgs, m \notin disturbed',
           OneFate(m), NEW w \in Senders, SenderStep(w), UNCHANGED retryVars
    PROVE  OneFate(m)'
  <1> DEFINE i == sender[w].id
             x == Envelope(w).msg
  <1>1. retrier' = retrier /\ failed' = failed
    BY DEF retryVars
  <1>2. Busy(sender[w]) => /\ i \in Ids /\ x \in Msgs
                           /\ i \in Rows(m) <=> x = m
    BY HeldRow DEF SenderHolds, Rows, Envelope
  <1>3. ~Busy(sender[w]) => i = 0 /\ i \notin Rows(m)
    BY RowsHaveIds DEF SenderHolds
  <1>4. ASSUME UNCHANGED table
        PROVE  Rows(m)' = Rows(m) /\ \A j \in Rows(m) : table'[j] = table[j]
    BY <1>4 DEF Rows, Ids
  <1>5. CASE Start(w) \/ Shutdown(w) \/ ArchiveSentFails(w) \/ SenderDies(w)
    <2>1. /\ sender' \in {[sender EXCEPT ![w] = Polling], [sender EXCEPT ![w] = Stopped]}
          /\ UNCHANGED <<table, sent, billed>>
      BY <1>5 DEF Start, Shutdown, ArchiveSentFails, SenderDies, NextPoll, Halt
    <2>2. /\ sender'[w].id = 0 /\ sender'[w].pc # "emit"
          /\ \A v \in Senders \ {w} : sender'[v] = sender[v]
      BY <2>1 DEF TypeOK, Polling, Stopped
    <2>3. i \in Rows(m) => sender[w].pc \in {"dispatch", "dlq"}
      <3>1. ASSUME sender[w].pc \in {"emit", "archive", "drop"}
            PROVE  x \in disturbed'
        BY <1>5, <3>1 DEF Start, Shutdown, ArchiveSentFails, SenderDies, Disturb,
                          Working
      <3>2. sender[w].pc \in SenderSteps
        BY DEF TypeOK
      <3>3. QED
        BY <1>2, <1>3, <3>1, <3>2 DEF SenderSteps, Busy
    <2>4. QED
      BY <1>1, <1>4, <2>1, <2>2, <2>3, QuietSender
  <1>6. ASSUME NEW id \in Ids, ReadOne(w, id) PROVE OneFate(m)'
    <2>1. sender[w].id = 0
      BY <1>3, <1>6 DEF ReadOne, Working, Busy
    <2>2. QED
      BY <1>1, <1>6, <2>1, ReadFate DEF ReadOne, Read
  <1>7. ASSUME NEW e \in Endings, NEW n \in Acceptances, Dispatch(w, e, n)
        PROVE  OneFate(m)'
    BY <1>7, DispatchFate
  <1>8. ASSUME NEW recorded \in 0..1, EmitBilling(w, recorded) PROVE OneFate(m)'
    <2>1. /\ sender[w].pc = "emit" /\ sender' = [sender EXCEPT ![w].pc = "archive"]
          /\ UNCHANGED <<table, sent>>
          /\ billed' = [billed EXCEPT ![x] = Plus(@, recorded, CountCap)]
      BY <1>8 DEF EmitBilling, Working, Goto
    <2>2. CASE x = m
      BY <1>1, <1>2, <2>1, <2>2, BilledFate DEF Busy
    <2>3. CASE x # m
      <3>1. billed'[m] = billed[m] /\ i \notin Rows(m)
        BY <1>2, <2>1, <2>3 DEF TypeOK, Busy
      <3>2. /\ sender'[w].id = i
            /\ \A v \in Senders \ {w} : sender'[v] = sender[v]
        BY <2>1 DEF TypeOK
      <3>3. QED
        BY <1>1, <1>4, <2>1, <3>1, <3>2, QuietSender
    <2>4. QED
      BY <2>2, <2>3
  <1>9. CASE ArchiveSent(w) \/ ArchiveDead(w)
    <2>1. /\ Archive(i) /\ sender' = [sender EXCEPT ![w] = Polling]
          /\ UNCHANGED <<sent, billed>> /\ sender[w].pc \in {"archive", "drop"}
      BY <1>9 DEF ArchiveSent, ArchiveDead, NextPoll, Working
    <2>2. i \in Ids /\ table[i].msg = x /\ table[i].queue = WorkerChannel[w]
      BY <1>2, <2>1 DEF Busy, SenderHolds, Envelope
    <2>3. \A v \in Senders : \/ sender'[v] = sender[v] /\ sender[v].id # i
                             \/ sender[v].id = i /\ sender'[v] = Polling
                             \/ m # x /\ sender'[v] = sender[v]
      <3>1. ASSUME NEW v \in Senders, sender[v].id = i, x = m PROVE v = w
        BY <1>2, <2>1, <3>1 DEF OneFate, LeasesHold, Busy
      <3>2. sender'[w] = Polling /\ \A v \in Senders \ {w} : sender'[v] = sender[v]
        BY <2>1 DEF TypeOK
      <3>3. QED
        BY <3>1, <3>2
    <2>4. \A r \in Retriers : retrier'[r] = retrier[r] /\ retrier[r].id # i
      <3>1. WorkerChannel[w] # DLQ
        BY SenderAssumption, PgmqAssumption
      <3>2. 0 \notin Ids
        BY RowsHaveIds
      <3>3. QED
        BY <1>1, <2>2, <3>1, <3>2 DEF RetrierHolds
    <2>5. QED
      BY <1>1, <2>1, <2>2, <2>3, <2>4, ArchivedFate
  <1>10. CASE SendToDlq(w)
    <2>1. /\ sender[w].pc = "dlq" /\ sender' = [sender EXCEPT ![w].pc = "drop"]
          /\ UNCHANGED <<sent, billed>>
          /\ Insert(DLQ, x, Envelope(w).retries, WorkerChannel[w], "visible")
      BY <1>10 DEF SendToDlq, Working, Goto
    <2>2. /\ sender'[w].id = i /\ sender'[w].pc = "drop"
          /\ \A v \in Senders \ {w} : sender'[v] = sender[v]
      BY <2>1 DEF TypeOK
    <2>3. /\ i \in Ids /\ x \in Msgs /\ Envelope(w).retries \in Nat
          /\ DLQ \in Queues /\ WorkerChannel[w] \in Channels \cup {NoChannel}
      BY <1>2, <2>1, HeldRow, SenderAssumption DEF Busy, Envelope, Queues
    <2>4. CASE x # m
      <3>1. Rows(m)' = Rows(m) /\ \A j \in Rows(m) : table'[j] = table[j]
        <4>1. Rows(m)' = Rows(m) \cup (IF x = m THEN {Len(table) + 1} ELSE {})
          BY <2>1, <2>3, RowAdded
        <4>2. \A j \in Rows(m) : table'[j] = table[j]
          BY <2>1, <2>3, RowAdded
        <4>3. QED
          BY <2>4, <4>1, <4>2
      <3>2. i \notin Rows(m)
        BY <2>4 DEF Rows, Envelope
      <3>3. QED
        BY <1>1, <2>1, <2>2, <3>1, <3>2, QuietSender
    <2>5. CASE x = m
      <3>1. i \in Rows(m) /\ LeasesHold(m)
        BY <2>3, <2>5 DEF Rows, Envelope, OneFate
      <3>2. Open(i)
        BY <2>1, <3>1, SenderHasOpen
      <3>3. ~Open(i)'
        BY <2>2 DEF Open
      <3>4. \A j \in Rows(m) : table'[j] = table[j]
        BY <2>1, <2>3, RowAdded
      <3>5. ASSUME NEW j \in Rows(m), Open(j)' PROVE Open(j)
        BY <1>1, <2>1, <2>2, <3>4, <3>5 DEF Open, Live
      <3>6. QED
        BY <1>1, <2>1, <2>2, <2>3, <2>5, <3>1, <3>2, <3>3, <3>5, CopyFate
    <2>6. QED
      BY <2>4, <2>5
  <1>11. QED
    BY <1>5, <1>6, <1>7, <1>8, <1>9, <1>10 DEF SenderStep

(* And so does every step, and every death, of a retry worker.            *)
LEMMA RetrierFate ==
    ASSUME TypeOK, SenderHolds, RetrierHolds, NEW m \in Msgs, m \notin disturbed',
           OneFate(m), NEW r \in Retriers,
           \/ RetryStep(r) /\ UNCHANGED senderVars
           \/ RetrierCrash(r)
    PROVE  OneFate(m)'
  <1> DEFINE i == retrier[r].id
             x == DlqRow(r).msg
  <1>1. sender' = sender /\ sent' = sent /\ billed' = billed
    BY DEF senderVars, RetrierCrash
  <1>2. Busy(retrier[r]) => /\ i \in Ids /\ x \in Msgs
                            /\ i \in Rows(m) <=> x = m
    BY HeldRow DEF RetrierHolds, Rows, DlqRow
  <1>3. ~Busy(retrier[r]) => i = 0 /\ i \notin Rows(m)
    BY RowsHaveIds DEF RetrierHolds
  <1>4. CASE RetryStart(r) \/ RetryShutdown(r) \/ RetrierCrash(r)
    <2>1. /\ retrier' \in {[retrier EXCEPT ![r] = Polling], [retrier EXCEPT ![r] = Stopped]}
          /\ UNCHANGED <<table, failed>>
      BY <1>4 DEF RetryStart, RetryShutdown, RetrierCrash, RetrierDies
    <2>2. /\ retrier'[r].id = 0
          /\ \A q \in Retriers \ {r} : retrier'[q] = retrier[q]
      BY <2>1 DEF TypeOK, Polling, Stopped
    <2>3. i \in Rows(m) => retrier[r].pc = "handle"
      <3>1. ASSUME retrier[r].pc = "archive" PROVE x \in disturbed'
        BY <1>4, <3>1 DEF RetryStart, RetryShutdown, RetrierCrash, Disturb, Retrying
      <3>2. retrier[r].pc \in RetrySteps
        BY DEF TypeOK
      <3>3. QED
        BY <1>2, <1>3, <3>1, <3>2 DEF RetrySteps, Busy
    <2>4. Rows(m)' = Rows(m) /\ \A j \in Rows(m) : table'[j] = table[j]
      BY <2>1 DEF Rows, Ids
    <2>5. QED
      BY <1>1, <2>1, <2>2, <2>3, <2>4, QuietRetrier
  <1>5. ASSUME NEW id \in Ids, RetryReadOne(r, id) PROVE OneFate(m)'
    <2>1. retrier[r].id = 0
      BY <1>3, <1>5 DEF RetryReadOne, Retrying, Busy
    <2>2. QED
      BY <1>1, <1>5, <2>1, ReadFate DEF RetryReadOne, Read
  <1>6. CASE GiveUp(r) \/ ArchiveRequeued(r)
    <2>1. /\ Archive(i) /\ retrier' = [retrier EXCEPT ![r] = Polling]
          /\ Busy(retrier[r])
      BY <1>6 DEF GiveUp, ArchiveRequeued, Retrying, Busy
    <2>2. i \in Ids /\ table[i].msg = x /\ table[i].queue = DLQ
      BY <1>2, <2>1 DEF RetrierHolds, DlqRow
    <2>3. retrier'[r] = Polling /\ \A q \in Retriers \ {r} : retrier'[q] = retrier[q]
      BY <2>1 DEF TypeOK
    <2>4. \A q \in Retriers : \/ retrier'[q] = retrier[q] /\ retrier[q].id # i
                              \/ retrier[q].id = i /\ retrier'[q] = Polling
                              \/ m # x /\ retrier'[q] = retrier[q]
      <3>1. ASSUME NEW q \in Retriers, retrier[q].id = i, x = m PROVE q = r
        BY <1>2, <2>1, <3>1 DEF OneFate, LeasesHold
      <3>2. QED
        BY <2>3, <3>1
    <2>5. \A w \in Senders : sender'[w] = sender[w] /\ sender[w].id # i
      <3>1. \A w \in Senders : WorkerChannel[w] # DLQ
        BY SenderAssumption, PgmqAssumption
      <3>2. 0 \notin Ids
        BY RowsHaveIds
      <3>3. QED
        BY <1>1, <2>2, <3>1, <3>2 DEF SenderHolds
    <2>6. CASE m \in failed' <=> m \in failed
      BY <1>1, <2>1, <2>2, <2>4, <2>5, <2>6, ArchivedFate
    <2>7. CASE GiveUp(r) /\ x = m
      <3>1. retrier[r].pc = "handle" /\ failed' = failed \cup {m} /\ i \in Rows(m)
        BY <1>2, <2>1, <2>7 DEF GiveUp, Retrying
      <3>2. QED
        BY <1>1, <2>1, <2>3, <2>4, <3>1, GivenUpFate
    <2>8. QED
      BY <1>6, <2>6, <2>7 DEF GiveUp, ArchiveRequeued
  <1>7. CASE Requeue(r)
    <2>1. /\ retrier[r].pc = "handle" /\ retrier' = [retrier EXCEPT ![r].pc = "archive"]
          /\ UNCHANGED failed
          /\ Insert(TargetChannel(DlqRow(r)), x, DlqRow(r).retries + 1,
                    DlqRow(r).origin, "hidden")
      BY <1>7 DEF Requeue, Retrying
    <2>2. /\ retrier'[r].id = i /\ retrier'[r].pc = "archive"
          /\ \A q \in Retriers \ {r} : retrier'[q] = retrier[q]
      BY <2>1 DEF TypeOK
    <2>3. /\ i \in Ids /\ x \in Msgs /\ DlqRow(r).retries + 1 \in Nat
          /\ DlqRow(r).origin \in Channels \cup {NoChannel}
      BY <1>2, <2>1, HeldRow DEF Busy, DlqRow
    <2>4. TargetChannel(DlqRow(r)) \in Queues
      BY <2>3, RetryAssumption DEF TargetChannel, Queues
    <2>5. CASE x # m
      <3>1. Rows(m)' = Rows(m) /\ \A j \in Rows(m) : table'[j] = table[j]
        <4>1. Rows(m)' = Rows(m) \cup (IF x = m THEN {Len(table) + 1} ELSE {})
          BY <2>1, <2>3, <2>4, RowAdded
        <4>2. \A j \in Rows(m) : table'[j] = table[j]
          BY <2>1, <2>3, <2>4, RowAdded
        <4>3. QED
          BY <2>5, <4>1, <4>2
      <3>2. i \notin Rows(m)
        BY <2>5 DEF Rows, DlqRow
      <3>3. QED
        BY <1>1, <2>1, <2>2, <3>1, <3>2, QuietRetrier
    <2>6. CASE x = m
      <3>1. i \in Rows(m) /\ LeasesHold(m)
        BY <2>3, <2>6 DEF Rows, DlqRow, OneFate
      <3>2. Open(i)
        BY <2>1, <3>1, RetrierHasOpen
      <3>3. ~Open(i)'
        BY <2>2 DEF Open
      <3>4. \A j \in Rows(m) : table'[j] = table[j]
        BY <2>1, <2>3, <2>4, RowAdded
      <3>5. ASSUME NEW j \in Rows(m), Open(j)' PROVE Open(j)
        BY <1>1, <2>1, <2>2, <3>4, <3>5 DEF Open, Live
      <3>6. QED
        BY <1>1, <2>1, <2>2, <2>3, <2>4, <2>6, <3>1, <3>2, <3>3, <3>5, CopyFate
    <2>7. QED
      BY <2>5, <2>6
  <1>8. QED
    BY <1>4, <1>5, <1>6, <1>7 DEF RetryStep

(* A visibility timeout that does not disturb the message ends no lease.   *)
LEMMA ExpiryFate ==
    ASSUME TypeOK, SenderHolds, RetrierHolds, NEW m \in Msgs, m \notin disturbed',
           OneFate(m), NEW i \in Ids, VtExpires(i)
    PROVE  OneFate(m)'
  <1>1. /\ sender' = sender /\ sent' = sent /\ billed' = billed
        /\ retrier' = retrier /\ failed' = failed
        /\ table' = [table EXCEPT ![i].state = "visible"]
        /\ table[i].state = "hidden"
    BY DEF VtExpires, Reappear, retryVars
  <1>2. /\ Rows(m)' = Rows(m)
        /\ \A j \in Rows(m) \ {i} : table'[j] = table[j]
    BY <1>1, RowsStay
  <1>3. i \in Rows(m) => ~Leased(i)
    BY DEF VtExpires, Disturb, Rows
  <1>4. LeasesHold(m)'
    <2>1. LeasesHold(m) /\ 0 \notin Rows(m)
      BY RowsHaveIds DEF OneFate
    <2>2. /\ \A w \in Senders : sender'[w].id \in Rows(m) =>
                 table'[sender'[w].id] = table[sender'[w].id]
          /\ \A r \in Retriers : retrier'[r].id \in Rows(m) =>
                 table'[retrier'[r].id] = table[retrier'[r].id]
      BY <1>1, <1>2, <1>3 DEF Leased
    <2>3. QED
      BY <1>1, <1>2, <2>1, <2>2, LeasesKept
  <1>5. \A j \in Rows(m) : Open(j)' => Open(j)
    BY <1>1, <1>2 DEF Open, Live
  <1>6. QED
    BY <1>1, <1>2, <1>4, <1>5, FateKept

(* A message is enqueued once.                                             *)
LEMMA EnqueueFate ==
    ASSUME TypeOK, SenderHolds, RetrierHolds, NEW m \in Msgs, OneFate(m),
           NEW x \in Msgs, NEW n \in InitialRetries, Enqueue(x, n)
    PROVE  OneFate(m)'
  <1>1. /\ sender' = sender /\ sent' = sent /\ billed' = billed
        /\ retrier' = retrier /\ failed' = failed
        /\ Insert(MsgChannel[x], x, n, NoChannel, "visible")
        /\ x \notin Accepted
    BY DEF Enqueue, senderVars, retryVars
  <1>2. MsgChannel[x] \in Queues /\ n \in Nat
    BY DeliveryAssumption DEF Queues
  <1>3. /\ \A j \in Rows(m) : table'[j] = table[j]
        /\ Len(table) + 1 \notin Ids
        /\ Rows(m)' = Rows(m) \cup (IF x = m THEN {Len(table) + 1} ELSE {})
    BY <1>1, <1>2, RowAdded
  <1>4. LeasesHold(m)'
    <2>1. LeasesHold(m) /\ 0 \notin Rows(m)'
      <3>1. Len(table) + 1 # 0
        BY DEF TypeOK
      <3>2. QED
        BY <1>3, <3>1, RowsHaveIds DEF OneFate
    <2>2. QED
      BY <1>1, <1>3, <2>1, LeasesKept
  <1>5. CASE x # m
    <2>1. Rows(m)' = Rows(m)
      BY <1>3, <1>5
    <2>2. \A j \in Rows(m) : Open(j)' => Open(j)
      BY <1>1, <1>3 DEF Open, Live
    <2>3. QED
      BY <1>1, <1>4, <2>1, <2>2, FateKept
  <1>6. CASE x = m
    <2>1. Rows(m) = {}
      BY <1>1, <1>6 DEF Rows, Accepted
    <2>2. Unsettled(m)'
      BY <1>1, <2>1 DEF OneFate, Unsettled
    <2>3. OneOpen(m)' /\ OneEmits(m)'
      <3>1. Rows(m)' = {Len(table) + 1}
        BY <1>3, <1>6, <2>1
      <3>2. \A w \in Senders : sender'[w].id \notin Rows(m)'
        BY <1>1, <1>3, <3>1, <1>4, RowsHaveIds DEF SenderHolds, LeasesHold
      <3>3. QED
        BY <2>2, <3>1, <3>2 DEF OneOpen, OneEmits
    <2>4. QED
      BY <1>4, <2>2, <2>3 DEF OneFate, Unsettled, Fates
  <1>7. QED
    BY <1>5, <1>6

(* Nothing is queued, held or settled at the start.                        *)
LEMMA FateInitially == Init => FateInv
  <1> SUFFICES ASSUME Init, NEW m \in Msgs PROVE OneFate(m)
    BY DEF FateInv
  <1>1. Rows(m) = {}
    BY DEF Init, Rows, Ids
  <1>2. Unsettled(m)
    BY DEF Init, SenderInit, RetryInit, Unsettled
  <1>3. QED
    BY <1>1, <1>2 DEF OneFate, LeasesHold, OneOpen, OneEmits, Unsettled, Fates

(* What is not disturbed after a step was not before it, so that every     *)
(* step keeps FateInv.                                                     *)
LEMMA FateStep == IInv /\ FateInv /\ [Next]_vars => FateInv'
  <1> SUFFICES ASSUME IInv, FateInv, [Next]_vars,
                      NEW m \in Msgs, m \notin disturbed'
               PROVE  OneFate(m)'
    BY DEF FateInv
  <1>1. disturbed \subseteq disturbed'
    BY DEF Next, vars, senderVars, Enqueue, VtExpires, RetrierCrash, SenderStep,
           Start, Shutdown, ReadOne, Dispatch, EmitBilling, ArchiveSent,
           ArchiveSentFails, SendToDlq, ArchiveDead, SenderDies, Disturb
  <1>2. OneFate(m) /\ TypeOK /\ SenderHolds /\ RetrierHolds
    BY <1>1 DEF FateInv, IInv
  <1>3. CASE UNCHANGED vars
    <2>1. UNCHANGED <<table, sender, retrier, sent, billed, failed>>
      BY <1>3 DEF vars, senderVars, retryVars
    <2>2. QED
      BY <1>2, <2>1 DEF OneFate, LeasesHold, OneOpen, OneEmits, Unsettled, Fates,
                        Open, Live, Rows, Ids
  <1>4. QED
    BY <1>2, <1>3, EnqueueFate, ExpiryFate, SenderFate, RetrierFate DEF Next

(* A message nothing disturbed is sent at most once, or given up, and not  *)
(* both, and it is billed only if it was sent: for any number of workers,  *)
(* however often the message goes through the DLQ.                         *)
THEOREM FatesAreSingle == Spec => []OneFateUnlessDisturbed
  <1>1. FateInv => OneFateUnlessDisturbed
    BY DEF FateInv, OneFate, OneFateUnlessDisturbed
  <1>2. QED
    BY <1>1, FateInitially, FateStep, InductiveInvariant, PTL DEF Spec
=============================================================================
