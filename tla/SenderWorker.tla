---------------------------- MODULE SenderWorker ----------------------------
(***************************************************************************)
(* messaging_cp/queues/sender_worker.py: the processes that drain the      *)
(* channel queues.  Several replicas may poll one queue.                   *)
(*                                                                         *)
(* A worker awaits the database or a provider between any two of its       *)
(* steps, so each step below ends at an await.  The process can die at any *)
(* of them; it also dies when an exception escapes _handle, which is what  *)
(* a failing database call does inside the except branch.                  *)
(*                                                                         *)
(* WorkerStats and the log lines are left out: nothing reads them.         *)
(***************************************************************************)
EXTENDS Pgmq

CONSTANTS Senders,        \* the sender processes
          WorkerChannel,  \* MESSAGING_WORKER_CHANNEL of each of them
          SenderMax,      \* max_retries of the sender workers
          Malformed,      \* messages whose payload no dispatch can handle
          CountCap,       \* bound: sent and billed stop counting here
          RefusalCap      \* bound: refusals stops counting here (0 switches
                          \* it off)

ASSUME SenderAssumption == /\ WorkerChannel \in [Senders -> Channels]
                           /\ SenderMax \in Nat
                           /\ Malformed \subseteq Msgs
                           /\ CountCap \in Nat \ {0, 1}
                           /\ RefusalCap \in Nat

VARIABLES sender,     \* where each process is, and the row it has read
          sent,       \* history: how often a provider took the message:
                      \* accepted it or, for push, answered for good
                      \* (bad_token, dev_skipped)
          billed,     \* history: how often its billing event was recorded
          refusals,   \* history: how often the router refused it
          disturbed   \* history: messages a crash, an expired lease, a lost
                      \* answer or a failed archive happened to

senderVars == <<sender, sent, billed, refusals, disturbed>>

SenderSteps == {"stopped", "read", "dispatch", "emit", "archive", "dlq", "drop"}

(* How a dispatch can end.  "routed": the router returned a result.        *)
(* "refused": it raised EmailRouterAllFailed, SmsRouterAllFailed or        *)
(* PushRouterError.  "unexpected": any other exception (a payload without  *)
(* its recipient, a web push, a raw client error).  "died": the process    *)
(* ended with the call in flight.                                          *)
Endings == {"routed", "refused", "unexpected", "died"}

(* Acceptances by providers during one dispatch: a provider may accept a   *)
(* message and its answer be lost, and the email router then goes on to    *)
(* its second provider.                                                    *)
Acceptances == 0..2

(* A result needs an acceptance; a malformed payload reaches no provider.  *)
MayEnd(m, ending, n) ==
    /\ ending = "routed" => n >= 1
    /\ m \in Malformed => ending \in {"unexpected", "died"} /\ n = 0

(* retries >= self._max_retries: the except branch dead-letters it.        *)
Spent(row) == row.retries >= SenderMax

Plus(count, n, cap) == IF count + n < cap THEN count + n ELSE cap

Working(w, step) == sender[w].pc = step

Envelope(w) == table[sender[w].id]

Goto(w, step) == sender' = [sender EXCEPT ![w].pc = step]

Halt(w) == sender' = [sender EXCEPT ![w] = Stopped]

NextPoll(w) == sender' = [sender EXCEPT ![w] = Polling]

Disturb(m) == disturbed' = disturbed \cup {m}

SenderInit ==
    /\ sender = [w \in Senders |-> Stopped]
    /\ sent = [m \in Msgs |-> 0]
    /\ billed = [m \in Msgs |-> 0]
    /\ refusals = [m \in Msgs |-> 0]
    /\ disturbed = {}

Start(w) ==
    /\ Working(w, "stopped")
    /\ NextPoll(w)
    /\ UNCHANGED <<table, sent, billed, refusals, disturbed>>

(* SIGTERM clears _running, which the loop only looks at between messages. *)
Shutdown(w) ==
    /\ Working(w, "read")
    /\ Halt(w)
    /\ UNCHANGED <<table, sent, billed, refusals, disturbed>>

ReadOne(w, id) ==
    /\ Working(w, "read")
    /\ Read(WorkerChannel[w], id)
    /\ sender' = [sender EXCEPT ![w] = [pc |-> "dispatch", id |-> id]]
    /\ UNCHANGED <<sent, billed, refusals, disturbed>>

(* _handle up to the end of the router call, and what its except branches  *)
(* decide: a refused message goes to the DLQ once its own _retries reached *)
(* max_retries, else it is left for the visibility timeout to bring back.  *)
Dispatch(w, ending, n) ==
    LET m    == Envelope(w).msg
        lost == IF ending = "routed" THEN n - 1 ELSE n
    IN /\ Working(w, "dispatch")
       /\ MayEnd(m, ending, n)
       /\ sent' = [sent EXCEPT ![m] = Plus(@, n, CountCap)]
       /\ IF lost > 0 THEN Disturb(m) ELSE UNCHANGED disturbed
       /\ \/ /\ ending = "routed"
             /\ Goto(w, "emit")
             /\ UNCHANGED refusals
          \/ /\ ending = "refused"
             /\ refusals' = [refusals EXCEPT ![m] = Plus(@, 1, RefusalCap)]
             /\ IF Spent(Envelope(w))
                THEN Goto(w, "dlq")
                ELSE NextPoll(w)
          \/ /\ ending = "unexpected"
             /\ NextPoll(w)
             /\ UNCHANGED refusals
          \/ /\ ending = "died"
             /\ Halt(w)
             /\ UNCHANGED refusals
       /\ UNCHANGED <<table, billed>>

(* emit_messaging_credit and emit_messaging_billable, which swallow every  *)
(* failure: the event may or may not be recorded.                          *)
EmitBilling(w, recorded) ==
    /\ Working(w, "emit")
    /\ billed' = [billed EXCEPT ![Envelope(w).msg] = Plus(@, recorded, CountCap)]
    /\ Goto(w, "archive")
    /\ UNCHANGED <<table, sent, refusals, disturbed>>

(* Mutant of ArchiveSent: the message that was sent stays in the queue.    *)
SentStaysQueued(w) ==
    /\ Working(w, "archive")
    /\ NextPoll(w)
    /\ UNCHANGED <<table, sent, billed, refusals, disturbed>>

ArchiveSent(w) ==
    /\ Working(w, "archive")
    /\ Archive(sender[w].id)
    /\ NextPoll(w)
    /\ UNCHANGED <<sent, billed, refusals, disturbed>>

(* The archive call is inside the try: its failure is one more unexpected  *)
(* exception, and the message that was sent comes back.                    *)
ArchiveSentFails(w) ==
    /\ Working(w, "archive")
    /\ Disturb(Envelope(w).msg)
    /\ NextPoll(w)
    /\ UNCHANGED <<table, sent, billed, refusals>>

(* Mutant of SendToDlq: it swallows the failure of its insert.             *)
SendToDlqUnchecked(w) ==
    /\ Working(w, "dlq")
    /\ UNCHANGED table
    /\ Goto(w, "drop")
    /\ UNCHANGED <<sent, billed, refusals, disturbed>>

(* Mutant of SendToDlq: _dlq_channel names the queue the row goes to.      *)
SendToDlqMislabelled(w) ==
    /\ Working(w, "dlq")
    /\ Insert(DLQ, Envelope(w).msg, Envelope(w).retries, DLQ, "visible")
    /\ Goto(w, "drop")
    /\ UNCHANGED <<sent, billed, refusals, disturbed>>

SendToDlq(w) ==
    /\ Working(w, "dlq")
    /\ Insert(DLQ, Envelope(w).msg, Envelope(w).retries, WorkerChannel[w], "visible")
    /\ Goto(w, "drop")
    /\ UNCHANGED <<sent, billed, refusals, disturbed>>

ArchiveDead(w) ==
    /\ Working(w, "drop")
    /\ Archive(sender[w].id)
    /\ NextPoll(w)
    /\ UNCHANGED <<sent, billed, refusals, disturbed>>

(* The process ends between two steps: killed, or by the exception of a    *)
(* failing _send_to_dlq or _archive in the except branch.                  *)
SenderDies(w) ==
    /\ ~Working(w, "stopped")
    /\ ~Working(w, "read")
    /\ Halt(w)
    /\ IF sender[w].pc \in {"emit", "archive", "drop"}
       THEN Disturb(Envelope(w).msg)
       ELSE UNCHANGED disturbed
    /\ UNCHANGED <<table, sent, billed, refusals>>

SenderStep(w) ==
    \/ Start(w)
    \/ Shutdown(w)
    \/ \E id \in Ids : ReadOne(w, id)
    \/ \E ending \in Endings, n \in Acceptances : Dispatch(w, ending, n)
    \/ \E recorded \in 0..1 : EmitBilling(w, recorded)
    \/ ArchiveSent(w)
    \/ ArchiveSentFails(w)
    \/ SendToDlq(w)
    \/ ArchiveDead(w)
    \/ SenderDies(w)
=============================================================================
