-------------------------------- MODULE Pgmq --------------------------------
(***************************************************************************)
(* The Postgres message queue (pgmq) as the workers use it.  pgmq is not   *)
(* in the repository: this module states what the SQL the workers issue    *)
(* (pgmq.send, pgmq.read, pgmq.archive) does to the queue tables.          *)
(*                                                                         *)
(* table is the log of every row ever inserted into any queue, and the     *)
(* position of a row is its msg_id.  A payload never changes once it is    *)
(* inserted; only the visibility of its row does:                          *)
(*   visible   pgmq.read may return it                                     *)
(*   hidden    read less than vt seconds ago, or sent with a delay         *)
(*   archived  moved to the archive table, out of every reader's reach     *)
(***************************************************************************)
EXTENDS Integers, Sequences, FiniteSets

CONSTANTS Msgs,       \* the logical messages tenants submit
          Channels,   \* the outbound channels, one queue each
          DLQ,        \* the dead-letter queue, shared by every channel
          NoChannel,  \* _dlq_channel of a payload that was never dead-lettered
          MaxRows     \* bound: rows the queue tables have room for

ASSUME PgmqAssumption == /\ MaxRows \in Nat
                         /\ DLQ \notin Channels
                         /\ NoChannel \notin Channels

VARIABLE table

Queues == Channels \cup {DLQ}

Row == [queue   : Queues,
        msg     : Msgs,
        retries : Nat,                          \* _retries
        origin  : Channels \cup {NoChannel},    \* _dlq_channel
        state   : {"visible", "hidden", "archived"}]

Ids == DOMAIN table

Live(id) == table[id].state # "archived"

(* The messages handed to the platform, and those a queue still holds.     *)
Accepted == {table[id].msg : id \in Ids}
Held     == {table[id].msg : id \in {i \in Ids : Live(i)}}

(* What a worker process remembers: its place in the loop and the row it   *)
(* has read, 0 between two rows.                                           *)
Stopped == [pc |-> "stopped", id |-> 0]
Polling == [pc |-> "read", id |-> 0]

(* pgmq.send(queue, payload [, delay]): a delayed row starts hidden.       *)
Insert(queue, msg, retries, origin, state) ==
    /\ Len(table) < MaxRows
    /\ table' = Append(table, [queue   |-> queue,
                               msg     |-> msg,
                               retries |-> retries,
                               origin  |-> origin,
                               state   |-> state])

(* pgmq.read(queue, vt, 1): hides the row it returns for vt seconds.       *)
Read(queue, id) ==
    /\ table[id].queue = queue
    /\ table[id].state = "visible"
    /\ table' = [table EXCEPT ![id].state = "hidden"]

(* vt seconds, or the delay of a send, go by.                              *)
Reappear(id) ==
    /\ table[id].state = "hidden"
    /\ table' = [table EXCEPT ![id].state = "visible"]

(* pgmq.archive(queue, msg_id) names the row, not the lease: it works      *)
(* whoever has read the row since, and is a no-op on an archived one.      *)
Archive(id) == table' = [table EXCEPT ![id].state = "archived"]
=============================================================================
