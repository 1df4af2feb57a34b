-------------------------- MODULE OutboundDelivery --------------------------
(***************************************************************************)
(* Asynchronous sending as a whole: producers, the channel queues, the     *)
(* sender workers, the dead-letter queue and the retry worker.             *)
(***************************************************************************)
EXTENDS SenderWorker, RetryWorker

CONSTANTS MsgChannel,      \* the channel each message is submitted for
          InitialRetries   \* _retries of a payload as it is enqueued: 0 from
                           \* a plain producer, more on a replay

ASSUME DeliveryAssumption == /\ MsgChannel \in [Msgs -> Channels]
                             /\ InitialRetries \subseteq Nat

vars == <<table, senderVars, retryVars>>

Init ==
    /\ table = <<>>
    /\ SenderInit
    /\ RetryInit

(* A producer inserts a message into the queue of its channel.             *)
Enqueue(m, n) ==
    /\ m \notin Accepted
    /\ Insert(MsgChannel[m], m, n, NoChannel, "visible")
    /\ UNCHANGED <<senderVars, retryVars>>

Leased(id) == \/ \E w \in Senders : sender[w].id = id
              \/ \E r \in Retriers : retrier[r].id = id

(* The visibility timeout does not wait for a slow handler: its row can be *)
(* read again while the handler goes on.                                   *)
VtExpires(id) ==
    /\ Reappear(id)
    /\ IF Leased(id) THEN Disturb(table[id].msg) ELSE UNCHANGED disturbed
    /\ UNCHANGED <<sender, sent, billed, refusals, retryVars>>

RetrierCrash(r) ==
    /\ RetrierDies(r)
    /\ IF Retrying(r, "archive")
       THEN Disturb(DlqRow(r).msg)
       ELSE UNCHANGED disturbed
    /\ UNCHANGED <<sender, sent, billed, refusals>>

Next ==
    \/ \E m \in Msgs, n \in InitialRetries : Enqueue(m, n)
    \/ \E id \in Ids : VtExpires(id)
    \/ \E w \in Senders : SenderStep(w) /\ UNCHANGED retryVars
    \/ \E r \in Retriers : RetryStep(r) /\ UNCHANGED senderVars
    \/ \E r \in Retriers : RetrierCrash(r)

Spec == Init /\ [][Next]_vars

(***************************************************************************)
(* Fairness.  A worker that can move does, if only to die: it is awaited   *)
(* by an event loop and restarted by its deployment; nobody has to shut it *)
(* down.  Leases expire, and pgmq does not pass over a readable message    *)
(* for ever.                                                               *)
(***************************************************************************)
ExpiryOf(m) == \E id \in Ids : table[id].msg = m /\ VtExpires(id)

PickOf(m) == \E id \in Ids, w \in Senders :
                 table[id].msg = m /\ ReadOne(w, id) /\ UNCHANGED retryVars

Fairness ==
    /\ \A w \in Senders :
           WF_vars(SenderStep(w) /\ ~Shutdown(w) /\ UNCHANGED retryVars)
    /\ \A r \in Retriers :
           WF_vars(\/ RetryStep(r) /\ ~RetryShutdown(r) /\ UNCHANGED senderVars
                   \/ RetrierCrash(r))
    /\ \A m \in Msgs \ Malformed : WF_vars(ExpiryOf(m)) /\ SF_vars(PickOf(m))

FairSpec == Spec /\ Fairness

-----------------------------------------------------------------------------

TypeOK ==
    /\ table \in Seq(Row)
    /\ sender \in [Senders -> [pc : SenderSteps, id : Nat]]
    /\ sent \in [Msgs -> 0..CountCap]
    /\ billed \in [Msgs -> 0..CountCap]
    /\ refusals \in [Msgs -> 0..RefusalCap]
    /\ disturbed \in SUBSET Msgs
    /\ retrier \in [Retriers -> [pc : RetrySteps, id : Nat]]
    /\ failed \in SUBSET Msgs

Settled(m) == sent[m] > 0 \/ m \in failed

(* No message is lost: whatever dies, times out or runs twice, a message   *)
(* that was enqueued is still held by a queue until a provider accepted it *)
(* or the retry worker gave it up.                                         *)
NoMessageLost == \A m \in Accepted \ Held : Settled(m)

(* A message nothing disturbed has one fate: it is sent once or given up,  *)
(* never both and never twice, and it is billed only if it was sent.       *)
Fates(m) == sent[m] + (IF m \in failed THEN 1 ELSE 0)

OneFateUnlessDisturbed ==
    \A m \in Msgs \ disturbed : Fates(m) <= 1 /\ billed[m] <= sent[m]

(* The trip through the dead-letter queue brings a message back to its own *)
(* channel: the shared DLQ never hands an SMS to the email workers.        *)
ChannelPreserved ==
    \A id \in Ids : table[id].queue \in {MsgChannel[table[id].msg], DLQ}

(* The retry budget holds for every copy of a message: none carries more   *)
(* retries than the retry worker grants (or than it was enqueued with).    *)
RetryBudget ==
    \A id \in Ids : \/ table[id].retries <= RetryMax
                    \/ table[id].retries \in InitialRetries

(* A message leaves its channel queue for the DLQ only when it is spent.   *)
DeadLettersAreSpent ==
    \A id \in Ids : table[id].queue = DLQ => table[id].retries >= SenderMax

(* The steps of a system in which nothing fails: nobody dies or is shut    *)
(* down, the database answers, leases outlive their handlers and providers *)
(* accept what is well-formed.                                             *)
CalmSender(w) ==
    \/ Start(w)
    \/ \E id \in Ids : ReadOne(w, id)
    \/ Dispatch(w, "routed", 1)
    \/ Dispatch(w, "unexpected", 0) /\ Envelope(w).msg \in Malformed
    \/ \E recorded \in 0..1 : EmitBilling(w, recorded)
    \/ ArchiveSent(w)
    \/ SendToDlq(w)
    \/ ArchiveDead(w)

CalmStep ==
    \/ \E m \in Msgs, n \in InitialRetries : Enqueue(m, n)
    \/ \E id \in Ids : VtExpires(id) /\ ~Leased(id)
    \/ \E w \in Senders : CalmSender(w)
    \/ \E r \in Retriers : RetryStep(r) /\ ~RetryShutdown(r)

(* Whatever happened before, once nothing fails any more every well-formed *)
(* message is settled and leaves the queues, however many malformed ones   *)
(* go round beside it and as long as the tables have room for the copies.  *)
EventuallySettled ==
    (<>[][CalmStep]_vars /\ [](Len(table) < MaxRows)) =>
        \A m \in Msgs \ Malformed :
            m \in Accepted ~> (Settled(m) /\ m \notin Held)

(* worker_main.py:14 calls max_retries the "max retries before DLQ": the   *)
(* first attempt and that many more are refused, then the message is dead- *)
(* lettered.  The workers count retries in the payload, which only the     *)
(* retry worker raises, so the count of a message that is not in the DLQ   *)
(* yet never moves.                                                        *)
RefusalsBounded == \A m \in Msgs \ disturbed : refusals[m] <= 1 + SenderMax

(* The promise to tenants, as a specification of its own.                  *)
Promise == INSTANCE AtLeastOnce
               WITH accepted <- Accepted,
                    held     <- Held,
                    settled  <- {m \in Msgs : Settled(m)}

KeepsPromise == Promise!Spec
=============================================================================
