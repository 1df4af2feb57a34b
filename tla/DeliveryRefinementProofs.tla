----------------------- MODULE DeliveryRefinementProofs -----------------------
(***************************************************************************)
(* OutboundDelivery implements AtLeastOnce: every step of a worker is one  *)
(* step of the promise to tenants, or none.                                *)
(***************************************************************************)
EXTENDS OutboundDeliveryProofs

Settlements == {m \in Msgs : Settled(m)}

(* What the queues hold, in terms of rows.                                 *)
LEMMA HeldRows ==
    ASSUME TypeOK
    PROVE  /\ \A m : m \in Accepted <=> \E i \in Ids : table[i].msg = m
           /\ \A m : m \in Held <=> \E i \in Ids : Live(i) /\ table[i].msg = m
           /\ Held \subseteq Accepted
           /\ Accepted \subseteq Msgs
  <1>1. \A i \in Ids : table[i].msg \in Msgs
    BY HeldRow
  <1>2. QED
    BY <1>1 DEF Accepted, Held

(* The four effects on the log, seen through Accepted and Held.            *)
LEMMA RelabelKeeps ==
    ASSUME TypeOK, Relabels
    PROVE  Accepted' = Accepted /\ Held' = Held
  <1>1. PICK id \in Ids, st \in {"visible", "hidden"} :
            Live(id) /\ table' = [table EXCEPT ![id].state = st]
    BY DEF Relabels
  <1>2. /\ Ids' = Ids
        /\ \A i \in Ids : /\ table'[i].msg = table[i].msg
                          /\ i # id => table'[i] = table[i]
        /\ table'[id].state = st
    BY <1>1, StateChange DEF TypeOK
  <1>3. \A i \in Ids : Live(i)' <=> Live(i)
    BY <1>1, <1>2 DEF Live
  <1>4. QED
    BY <1>2, <1>3 DEF Accepted, Held

LEMMA ArchiveKeeps ==
    ASSUME TypeOK, NEW id \in Ids, Archive(id)
    PROVE  /\ Accepted' = Accepted
           /\ Held' \subseteq Held
           /\ Held \subseteq Held' \cup {table[id].msg}
  <1>1. /\ Ids' = Ids
        /\ \A i \in Ids : /\ table'[i].msg = table[i].msg
                          /\ i # id => table'[i] = table[i]
        /\ table'[id].state = "archived"
    BY StateChange DEF Archive, TypeOK
  <1>2. \A i \in Ids : /\ i # id => (Live(i)' <=> Live(i))
                       /\ Live(i)' => i # id
    BY <1>1 DEF Live
  <1>3. QED
    BY <1>1, <1>2 DEF Accepted, Held

LEMMA InsertKeeps ==
    ASSUME TypeOK, NEW q \in Queues, NEW m \in Msgs, NEW n \in Nat,
           NEW o \in Channels \cup {NoChannel}, NEW st \in {"visible", "hidden"},
           Insert(q, m, n, o, st)
    PROVE  /\ Accepted' = Accepted \cup {m}
           /\ Held' = Held \cup {m}
  <1> PICK k \in Nat : k = Len(table) + 1
    BY DEF TypeOK
  <1>1. table \in Seq(Row)
    BY DEF TypeOK
  <1>2. /\ \A i \in Ids : i \in Ids' /\ table'[i] = table[i]
        /\ \A i \in Ids' : i \in Ids \/ i = k
        /\ k \in Ids'
    BY <1>1, InsertAppends
  <1>3. table'[k] = [queue |-> q, msg |-> m, retries |-> n,
                     origin |-> o, state |-> st]
    BY <1>1, InsertAppends
  <1>4. table'[k].msg = m /\ Live(k)'
    BY <1>3 DEF Live
  <1>5. \A i \in Ids : Live(i)' <=> Live(i)
    BY <1>2 DEF Live
  <1>6. \A x : x \in Accepted' <=> x \in Accepted \cup {m}
    BY <1>2, <1>4 DEF Accepted
  <1>7. \A x : x \in Held' <=> x \in Held \cup {m}
    BY <1>2, <1>4, <1>5 DEF Held
  <1>8. QED
    BY <1>6, <1>7

(* An accepted message in no queue is settled: RowsHeld, by messages.      *)
LEMMA GoneIsSettled ==
    ASSUME TypeOK, RowsHeld
    PROVE  Accepted \ Held \subseteq Settlements
  BY HeldRows DEF RowsHeld, Settlements

-----------------------------------------------------------------------------
(* The kinds of step, each a step of the promise.                          *)

LEMMA StutterMaps ==
    ASSUME Accepted' = Accepted, Held' = Held, Settlements' = Settlements
    PROVE  [Promise!Next]_(Promise!vars)
  BY DEF Promise!vars, Settlements

LEMMA SettleMaps ==
    ASSUME NEW m \in Accepted, m \in Msgs, Accepted' = Accepted, Held' = Held,
           Settlements' \in {Settlements, Settlements \cup {m}}
    PROVE  [Promise!Next]_(Promise!vars)
  <1>1. CASE m \in Settlements \/ Settlements' = Settlements
    <2>1. Settlements' = Settlements
      BY <1>1
    <2>2. QED
      BY <2>1, StutterMaps
  <1>2. CASE m \notin Settlements /\ Settlements' = Settlements \cup {m}
    <2>1. Promise!Settle(m)
      BY <1>2 DEF Promise!Settle, Settlements
    <2>2. QED
      BY <2>1 DEF Promise!Next
  <1>3. QED
    BY <1>1, <1>2

LEMMA ReleaseMaps ==
    ASSUME NEW m \in Msgs, Accepted' = Accepted, Held' \subseteq Held,
           Held \subseteq Held' \cup {m}, m \in Held \ Held' => m \in Settlements,
           Settlements' = Settlements
    PROVE  [Promise!Next]_(Promise!vars)
  <1>1. CASE Held' = Held
    BY <1>1, StutterMaps
  <1>2. CASE Held' # Held
    <2>1. m \in Held /\ m \in Settlements /\ Held' = Held \ {m}
      BY <1>2
    <2>2. Promise!Release(m)
      BY <2>1 DEF Promise!Release, Settlements
    <2>3. QED
      BY <2>2 DEF Promise!Next
  <1>3. QED
    BY <1>1, <1>2

LEMMA GiveUpMaps ==
    ASSUME NEW m \in Msgs, m \in Accepted, Accepted' = Accepted,
           Held' \subseteq Held, Held \subseteq Held' \cup {m},
           Settlements' = Settlements \cup {m}
    PROVE  [Promise!Next]_(Promise!vars)
  <1>1. CASE Held' = Held
    BY <1>1, SettleMaps
  <1>2. CASE Held' # Held
    <2>1. m \in Held /\ Held' = Held \ {m}
      BY <1>2
    <2>2. Promise!GiveUp(m)
      BY <2>1 DEF Promise!GiveUp, Settlements
    <2>3. QED
      BY <2>2 DEF Promise!Next
  <1>3. QED
    BY <1>1, <1>2

LEMMA CopyMaps ==
    ASSUME NEW m \in Msgs, m \in Accepted, m \in Held \/ m \in Settlements,
           Accepted' = Accepted \cup {m}, Held' = Held \cup {m},
           Settlements' = Settlements
    PROVE  [Promise!Next]_(Promise!vars)
  <1>1. Accepted' = Accepted
    OBVIOUS
  <1>2. CASE m \in Held
    <2>1. Held' = Held
      BY <1>2
    <2>2. QED
      BY <1>1, <2>1, StutterMaps
  <1>3. CASE m \notin Held
    <2>1. Promise!Reopen(m)
      BY <1>1, <1>3 DEF Promise!Reopen, Settlements
    <2>2. QED
      BY <2>1 DEF Promise!Next
  <1>4. QED
    BY <1>2, <1>3

-----------------------------------------------------------------------------
(* The steps of the system.                                                *)

LEMMA SettlementsKept ==
    ASSUME sent' = sent, failed' = failed
    PROVE  Settlements' = Settlements
  BY DEF Settlements, Settled

LEMMA DispatchSettles ==
    ASSUME TypeOK, SenderHolds, NEW w \in Senders, NEW e \in Endings,
           NEW n \in Acceptances, Dispatch(w, e, n), failed' = failed
    PROVE  Settlements' \in {Settlements, Settlements \cup {Envelope(w).msg}}
  <1> PICK m \in Msgs : m = Envelope(w).msg
    BY HeldRow DEF Dispatch, Working, SenderHolds, Busy, Envelope
  <1>1. sent' = [sent EXCEPT ![m] = Plus(sent[m], n, CountCap)]
    BY DEF Dispatch
  <1>2. \A x \in Msgs : x # m => sent'[x] = sent[x]
    BY <1>1 DEF TypeOK
  <1>3. sent[m] > 0 => sent'[m] > 0
    <2>1. CountCap \in Nat /\ n \in Nat /\ sent[m] \in 0..CountCap
      BY SenderAssumption DEF TypeOK, Acceptances
    <2>2. sent[m] > 0 => Plus(sent[m], n, CountCap) > 0
      BY <2>1, PlusType
    <2>3. QED
      BY <1>1, <2>2 DEF TypeOK
  <1>4. \A x \in Msgs : x # m => (Settled(x)' <=> Settled(x))
    BY <1>2 DEF Settled
  <1>5. Settled(m) => Settled(m)'
    BY <1>3 DEF Settled
  <1>6. QED
    BY <1>4, <1>5 DEF Settlements

LEMMA SenderMaps ==
    ASSUME IInv, RowsHeld', NEW w \in Senders, SenderStep(w), UNCHANGED retryVars,
           TypeOK'
    PROVE  [Promise!Next]_(Promise!vars)
  <1> USE DEF IInv
  <1> failed' = failed
    BY DEF retryVars
  <1>1. UNCHANGED table => Accepted' = Accepted /\ Held' = Held
    BY DEF Accepted, Held, Ids, Live
  <1>2. CASE Start(w) \/ Shutdown(w) \/ ArchiveSentFails(w) \/ SenderDies(w)
    <2>1. UNCHANGED table /\ sent' = sent
      BY <1>2 DEF Start, Shutdown, ArchiveSentFails, SenderDies
    <2>2. QED
      BY <1>1, <2>1, SettlementsKept, StutterMaps
  <1>3. ASSUME NEW id \in Ids, ReadOne(w, id)
        PROVE  [Promise!Next]_(Promise!vars)
    <2>1. Relabels /\ sent' = sent
      BY <1>3 DEF ReadOne, Read, Live, Relabels
    <2>2. QED
      BY <2>1, RelabelKeeps, SettlementsKept, StutterMaps
  <1>4. ASSUME NEW e \in Endings, NEW n \in Acceptances, Dispatch(w, e, n)
        PROVE  [Promise!Next]_(Promise!vars)
    <2>1. UNCHANGED table
      BY <1>4 DEF Dispatch
    <2>2. sender[w].id \in Ids
      BY <1>4 DEF Dispatch, Working, SenderHolds, Busy
    <2>3. Envelope(w).msg \in Accepted /\ Envelope(w).msg \in Msgs
      BY <2>2, HeldRows, HeldRow DEF Envelope
    <2>4. PICK m \in Accepted : m = Envelope(w).msg
      BY <2>3
    <2>5. Settlements' \in {Settlements, Settlements \cup {m}}
      BY <1>4, <2>4, DispatchSettles
    <2>6. QED
      BY <1>1, <2>1, <2>3, <2>4, <2>5, SettleMaps
  <1>5. ASSUME NEW recorded \in 0..1, EmitBilling(w, recorded)
        PROVE  [Promise!Next]_(Promise!vars)
    <2>1. UNCHANGED table /\ sent' = sent
      BY <1>5 DEF EmitBilling
    <2>2. QED
      BY <1>1, <2>1, SettlementsKept, StutterMaps
  <1>6. CASE ArchiveSent(w) \/ ArchiveDead(w)
    <2>1. Archive(sender[w].id) /\ sender[w].id \in Ids /\ sent' = sent
      BY <1>6 DEF ArchiveSent, ArchiveDead, Working, SenderHolds, Busy
    <2>2. PICK i \in Ids : i = sender[w].id
      BY <2>1
    <2>3. PICK m \in Msgs : m = table[i].msg
      BY HeldRow
    <2>4. /\ Accepted' = Accepted
          /\ Held' \subseteq Held
          /\ Held \subseteq Held' \cup {m}
      BY <2>1, <2>2, <2>3, ArchiveKeeps
    <2>5. Settlements' = Settlements
      BY <2>1, SettlementsKept
    <2>6. (Accepted \ Held \subseteq Settlements)'
      BY HeldRows, GoneIsSettled, PTL
    <2>7. m \in Accepted
      BY <2>3, HeldRows
    <2>8. QED
      BY <2>4, <2>5, <2>6, <2>7, ReleaseMaps
  <1>7. CASE SendToDlq(w)
    <2>1. /\ sender[w].id \in Ids
          /\ sent' = sent
          /\ Insert(DLQ, Envelope(w).msg, Envelope(w).retries, WorkerChannel[w],
                    "visible")
      BY <1>7 DEF SendToDlq, Working, SenderHolds, Busy
    <2>2. /\ Envelope(w).msg \in Msgs
          /\ Envelope(w).retries \in Nat
          /\ WorkerChannel[w] \in Channels \cup {NoChannel}
          /\ DLQ \in Queues
      BY <2>1, HeldRow, SenderAssumption DEF Envelope, Queues
    <2>3. PICK m \in Msgs : m = Envelope(w).msg
      BY <2>2
    <2>4. Accepted' = Accepted \cup {m} /\ Held' = Held \cup {m}
      BY <2>1, <2>2, <2>3, InsertKeeps
    <2>5. m \in Accepted
      BY <2>1, <2>3, HeldRows DEF Envelope
    <2>6. QED
      BY <2>1, <2>4, <2>5, GoneIsSettled, SettlementsKept, CopyMaps
  <1>8. QED
    BY <1>2, <1>3, <1>4, <1>5, <1>6, <1>7 DEF SenderStep

LEMMA RetrierMaps ==
    ASSUME IInv, RowsHeld', NEW r \in Retriers, RetryStep(r), UNCHANGED senderVars,
           TypeOK'
    PROVE  [Promise!Next]_(Promise!vars)
  <1> USE DEF IInv
  <1> sent' = sent
    BY DEF senderVars
  <1>1. CASE RetryStart(r) \/ RetryShutdown(r)
    <2>1. UNCHANGED table /\ failed' = failed
      BY <1>1 DEF RetryStart, RetryShutdown
    <2>2. Accepted' = Accepted /\ Held' = Held
      BY <2>1 DEF Accepted, Held, Ids, Live
    <2>3. QED
      BY <2>1, <2>2, SettlementsKept, StutterMaps
  <1>2. ASSUME NEW id \in Ids, RetryReadOne(r, id)
        PROVE  [Promise!Next]_(Promise!vars)
    <2>1. Relabels /\ failed' = failed
      BY <1>2 DEF RetryReadOne, Read, Live, Relabels
    <2>2. QED
      BY <2>1, RelabelKeeps, SettlementsKept, StutterMaps
  <1>3. CASE GiveUp(r)
    <2>1. Archive(retrier[r].id) /\ retrier[r].id \in Ids
      BY <1>3 DEF GiveUp, Retrying, RetrierHolds, Busy
    <2>2. PICK i \in Ids : i = retrier[r].id
      BY <2>1
    <2>3. PICK m \in Msgs : m = table[i].msg
      BY HeldRow
    <2>4. /\ Accepted' = Accepted
          /\ Held' \subseteq Held
          /\ Held \subseteq Held' \cup {m}
      BY <2>1, <2>2, <2>3, ArchiveKeeps
    <2>5. m \in Accepted
      BY <2>3, HeldRows
    <2>6. failed' = failed \cup {m}
      BY <1>3, <2>2, <2>3 DEF GiveUp, DlqRow
    <2>7. Settlements' = Settlements \cup {m}
      BY <2>6 DEF Settlements, Settled
    <2>8. QED
      BY <2>4, <2>5, <2>7, GiveUpMaps
  <1>4. CASE Requeue(r)
    <2>1. /\ retrier[r].id \in Ids
          /\ failed' = failed
          /\ Insert(TargetChannel(DlqRow(r)), DlqRow(r).msg, DlqRow(r).retries + 1,
                    DlqRow(r).origin, "hidden")
      BY <1>4 DEF Requeue, Retrying, RetrierHolds, Busy
    <2>2. /\ DlqRow(r).msg \in Msgs
          /\ DlqRow(r).retries + 1 \in Nat
          /\ DlqRow(r).origin \in Channels \cup {NoChannel}
      BY <2>1, HeldRow DEF DlqRow
    <2>3. TargetChannel(DlqRow(r)) \in Queues
      BY <2>2, RetryAssumption DEF TargetChannel, Queues
    <2>4. PICK m \in Msgs : m = DlqRow(r).msg
      BY <2>2
    <2>5. Accepted' = Accepted \cup {m} /\ Held' = Held \cup {m}
      BY <2>1, <2>2, <2>3, <2>4, InsertKeeps
    <2>6. m \in Accepted
      BY <2>1, <2>4, HeldRows DEF DlqRow
    <2>7. QED
      BY <2>1, <2>5, <2>6, GoneIsSettled, SettlementsKept, CopyMaps
  <1>5. CASE ArchiveRequeued(r)
    <2>1. Archive(retrier[r].id) /\ retrier[r].id \in Ids /\ failed' = failed
      BY <1>5 DEF ArchiveRequeued, Retrying, RetrierHolds, Busy
    <2>2. PICK i \in Ids : i = retrier[r].id
      BY <2>1
    <2>3. PICK m \in Msgs : m = table[i].msg
      BY HeldRow
    <2>4. /\ Accepted' = Accepted
          /\ Held' \subseteq Held
          /\ Held \subseteq Held' \cup {m}
      BY <2>1, <2>2, <2>3, ArchiveKeeps
    <2>5. Settlements' = Settlements
      BY <2>1, SettlementsKept
    <2>6. (Accepted \ Held \subseteq Settlements)'
      BY HeldRows, GoneIsSettled, PTL
    <2>7. m \in Accepted
      BY <2>3, HeldRows
    <2>8. QED
      BY <2>4, <2>5, <2>6, <2>7, ReleaseMaps
  <1>6. QED
    BY <1>1, <1>2, <1>3, <1>4, <1>5 DEF RetryStep

LEMMA StepMaps ==
    ASSUME IInv, TypeOK', RowsHeld', [Next]_vars
    PROVE  [Promise!Next]_(Promise!vars)
  <1> USE DEF IInv
  <1>1. ASSUME NEW m \in Msgs, NEW n \in InitialRetries, Enqueue(m, n)
        PROVE  [Promise!Next]_(Promise!vars)
    <2>1. /\ m \notin Accepted
          /\ Insert(MsgChannel[m], m, n, NoChannel, "visible")
          /\ sent' = sent
          /\ failed' = failed
      BY <1>1 DEF Enqueue, senderVars, retryVars
    <2>2. MsgChannel[m] \in Queues /\ n \in Nat
      BY DeliveryAssumption DEF Queues
    <2>3. Accepted' = Accepted \cup {m} /\ Held' = Held \cup {m}
      BY <2>1, <2>2, InsertKeeps
    <2>4. Promise!Accept(m)
      BY <2>1, <2>3, SettlementsKept DEF Promise!Accept, Settlements
    <2>5. QED
      BY <2>4 DEF Promise!Next
  <1>2. ASSUME NEW id \in Ids, VtExpires(id)
        PROVE  [Promise!Next]_(Promise!vars)
    <2>1. Relabels /\ sent' = sent /\ failed' = failed
      BY <1>2 DEF VtExpires, Reappear, Live, Relabels, retryVars
    <2>2. QED
      BY <2>1, RelabelKeeps, SettlementsKept, StutterMaps
  <1>3. ASSUME \/ UNCHANGED vars
               \/ \E r \in Retriers : RetrierCrash(r)
        PROVE  [Promise!Next]_(Promise!vars)
    <2>1. UNCHANGED table /\ sent' = sent /\ failed' = failed
      BY <1>3 DEF vars, senderVars, retryVars, RetrierCrash, RetrierDies
    <2>2. Accepted' = Accepted /\ Held' = Held
      BY <2>1 DEF Accepted, Held, Ids, Live
    <2>3. QED
      BY <2>1, <2>2, SettlementsKept, StutterMaps
  <1>4. QED
    BY <1>1, <1>2, <1>3, SenderMaps, RetrierMaps DEF Next

(* The workers keep the promise made to a tenant who submitted a message,  *)
(* whatever dies or times out: it is held until it is settled, and what    *)
(* comes back after that is only ever a message that was settled.          *)
THEOREM PromiseKept == Spec => KeepsPromise
  <1>1. Init => Promise!Init
    <2> SUFFICES ASSUME Init PROVE Promise!Init
      OBVIOUS
    <2>1. Ids = {}
      BY DEF Init, Ids
    <2>2. Accepted = {} /\ Held = {}
      BY <2>1 DEF Accepted, Held
    <2>3. \A m \in Msgs : ~Settled(m)
      BY DEF Init, SenderInit, RetryInit, Settled
    <2>4. QED
      BY <2>2, <2>3 DEF Promise!Init
  <1>2. IInv /\ IInv' /\ [Next]_vars => [Promise!Next]_(Promise!vars)
    BY StepMaps DEF IInv
  <1>3. QED
    BY <1>1, <1>2, InductiveInvariant, PTL DEF Spec, KeepsPromise, Promise!Spec
=============================================================================
