----------------------------- MODULE RetryWorker ----------------------------
(***************************************************************************)
(* messaging_cp/queues/retry_worker.py: the process that drains the        *)
(* dead-letter queue.  Its _handle has no try: a failing database call     *)
(* ends the process.                                                       *)
(***************************************************************************)
EXTENDS Pgmq

CONSTANTS Retriers,  \* the retry processes ("one is enough", but a rolling
                     \* restart may overlap two)
          RetryMax,  \* max_retries of the retry worker
          Email      \* the channel of a payload that names none

ASSUME RetryAssumption == /\ RetryMax \in Nat
                          /\ Email \in Channels

VARIABLES retrier,   \* where each process is, and the DLQ row it has read
          failed     \* messages given up for good

retryVars == <<retrier, failed>>

RetrySteps == {"stopped", "read", "handle", "archive"}

RetryInit ==
    /\ retrier = [r \in Retriers |-> Stopped]
    /\ failed = {}

Retrying(r, step) == retrier[r].pc = step

DlqRow(r) == table[retrier[r].id]

RetryStart(r) ==
    /\ Retrying(r, "stopped")
    /\ retrier' = [retrier EXCEPT ![r] = Polling]
    /\ UNCHANGED <<table, failed>>

RetryShutdown(r) ==
    /\ Retrying(r, "read")
    /\ retrier' = [retrier EXCEPT ![r] = Stopped]
    /\ UNCHANGED <<table, failed>>

RetryReadOne(r, id) ==
    /\ Retrying(r, "read")
    /\ Read(DLQ, id)
    /\ retrier' = [retrier EXCEPT ![r] = [pc |-> "handle", id |-> id]]
    /\ UNCHANGED failed

(* _retries >= max_retries: the DLQ entry is archived and that is all that *)
(* records the permanent failure.                                          *)
GiveUp(r) ==
    /\ Retrying(r, "handle")
    /\ DlqRow(r).retries >= RetryMax
    /\ Archive(retrier[r].id)
    /\ failed' = failed \cup {DlqRow(r).msg}
    /\ retrier' = [retrier EXCEPT ![r] = Polling]

(* Mutant of TargetChannel: the default for every payload.                 *)
TargetAlwaysEmail(row) == Email

(* payload.get("_dlq_channel", "email").                                   *)
TargetChannel(row) == IF row.origin = NoChannel THEN Email ELSE row.origin

(* Mutant of Requeue: one retry more than max_retries.                     *)
RequeueOnceMore(r) ==
    /\ Retrying(r, "handle")
    /\ DlqRow(r).retries <= RetryMax
    /\ Insert(TargetChannel(DlqRow(r)), DlqRow(r).msg, DlqRow(r).retries + 1,
              DlqRow(r).origin, "hidden")
    /\ retrier' = [retrier EXCEPT ![r].pc = "archive"]
    /\ UNCHANGED failed

(* Mutant of Requeue: the DLQ entry is archived before the copy is sent.   *)
RequeueArchivesFirst(r) ==
    /\ Retrying(r, "handle")
    /\ DlqRow(r).retries < RetryMax
    /\ Archive(retrier[r].id)
    /\ retrier' = [retrier EXCEPT ![r].pc = "archive"]
    /\ UNCHANGED failed

(* _requeue: back to the channel it came from, one retry more, after a     *)
(* delay that doubles with every retry.  The branch for a channel without  *)
(* a queue is left out: no sender writes such an entry.                    *)
Requeue(r) ==
    /\ Retrying(r, "handle")
    /\ DlqRow(r).retries < RetryMax
    /\ Insert(TargetChannel(DlqRow(r)), DlqRow(r).msg, DlqRow(r).retries + 1,
              DlqRow(r).origin, "hidden")
    /\ retrier' = [retrier EXCEPT ![r].pc = "archive"]
    /\ UNCHANGED failed

ArchiveRequeued(r) ==
    /\ Retrying(r, "archive")
    /\ Archive(retrier[r].id)
    /\ retrier' = [retrier EXCEPT ![r] = Polling]
    /\ UNCHANGED failed

RetrierDies(r) ==
    /\ retrier[r].pc \in {"handle", "archive"}
    /\ retrier' = [retrier EXCEPT ![r] = Stopped]
    /\ UNCHANGED <<table, failed>>

(* RetrierDies is not among them: the composition adds what a death leaves *)
(* behind.                                                                 *)
RetryStep(r) ==
    \/ RetryStart(r)
    \/ RetryShutdown(r)
    \/ \E id \in Ids : RetryReadOne(r, id)
    \/ GiveUp(r)
    \/ Requeue(r)
    \/ ArchiveRequeued(r)
=============================================================================
