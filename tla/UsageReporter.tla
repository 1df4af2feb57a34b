----------------------------- MODULE UsageReporter -----------------------------
(***************************************************************************)
(* workers/usage_reporter.py: a loop that reports what was delivered in    *)
(* the Window before now, one event to Lago for each tenant and channel,   *)
(* and sleeps for Interval when the report is over.  Lago (external)       *)
(* refuses a transaction_id it has seen.  A process that dies is started   *)
(* again and reports at once.                                              *)
(***************************************************************************)
EXTENDS Integers, FiniteSets

CONSTANTS Deliveries,
          Group,      \* tenant and channel of each
          MetricOf,   \* CHANNEL_TO_METRIC, for each group its tenant and metric
          Window,     \* window_minutes
          Interval,   \* interval_seconds, in the same unit
          MaxTime,    \* bound: the clock stops here
          MaxStarts   \* bound: how often the process is started

ASSUME ReporterAssumption ==
    /\ {Window, MaxTime, MaxStarts} \subseteq Nat
    /\ Interval \in Nat /\ Interval >= Window
    /\ DOMAIN Group = Deliveries
    /\ \A d \in Deliveries : Group[d] \in DOMAIN MetricOf

VARIABLES time,
          created,    \* the deliveries recorded, with created_at
          countable,  \* those whose status is sent, delivered or queued
          due,        \* the loop sleeps until then
          from,       \* start of the window being reported
          counts,     \* rows of its SELECT: the deliveries of each group left
          accepted,   \* Lago: the transaction ids it has taken,
          billed,     \* and the deliveries in each, as <<delivery, id>>
          starts      \* history: when the process was started

usageVars == <<time, created, countable, due, from, counts, accepted, billed, starts>>

Groups == {Group[d] : d \in Deliveries}

TransactionId(g) == <<MetricOf[g], from>>

UsageInit ==
    /\ time = 0
    /\ created = <<>>
    /\ countable = {}
    /\ due = 0
    /\ from = 0
    /\ counts = <<>>
    /\ accepted = {}
    /\ billed = {}
    /\ starts = {0}

(* The pipeline that records deliveries is not in the repository.          *)
RecordDelivery(d) ==
    /\ d \notin DOMAIN created
    /\ created' = [e \in DOMAIN created \cup {d} |-> IF e = d THEN time ELSE created[e]]
    /\ UNCHANGED <<time, countable, due, from, counts, accepted, billed, starts>>

Settle(d) ==
    /\ d \in DOMAIN created \ countable
    /\ countable' = countable \cup {d}
    /\ UNCHANGED <<time, created, due, from, counts, accepted, billed, starts>>

Pass ==
    /\ time < MaxTime
    /\ time' = time + 1
    /\ UNCHANGED <<created, countable, due, from, counts, accepted, billed, starts>>

(* Mutant of InWindow: both ends of the window are included.               *)
InClosedWindow(d, start, end) == start <= created[d] /\ created[d] <= end

InWindow(d, start, end) == start <= created[d] /\ created[d] < end

Counted(g) ==
    {d \in countable : Group[d] = g /\ InWindow(d, time - Window, time)}

Report ==
    /\ counts = <<>>
    /\ due <= time
    /\ from' = time - Window
    /\ counts' = [g \in {g \in Groups : Counted(g) # {}} |-> Counted(g)]
    /\ due' = time + Interval
    /\ UNCHANGED <<time, created, countable, accepted, billed, starts>>

Accept(g) ==
    /\ TransactionId(g) \notin accepted
    /\ accepted' = accepted \cup {TransactionId(g)}
    /\ billed' = billed \cup (counts[g] \X {TransactionId(g)})

Refuse == UNCHANGED <<accepted, billed>>

(* The loop sleeps from when it is through.                                *)
Rest(left) ==
    /\ counts' = [g \in left |-> counts[g]]
    /\ due' = IF left = {} THEN time + Interval ELSE due

(* emit_event returns, or raises LagoError: the next row is tried.         *)
Emit(g) ==
    /\ Accept(g) \/ Refuse
    /\ Rest(DOMAIN counts \ {g})
    /\ UNCHANGED <<time, created, countable, from, starts>>

(* The request times out, answered or not.  Only LagoError is caught: the  *)
(* rows that are left are not reported.                                    *)
EmitRaises(g) ==
    /\ Accept(g) \/ Refuse
    /\ Rest({})
    /\ UNCHANGED <<time, created, countable, from, starts>>

(* The process dies and is started again.                                  *)
Restart ==
    /\ time > 0
    /\ Cardinality(starts) < MaxStarts
    /\ starts' = starts \cup {time}
    /\ counts' = <<>>
    /\ due' = time
    /\ UNCHANGED <<time, created, countable, from, accepted, billed>>

UsageNext ==
    \/ \E d \in Deliveries : RecordDelivery(d) \/ Settle(d)
    \/ Pass
    \/ Report
    \/ \E g \in DOMAIN counts : Emit(g) \/ EmitRaises(g)
    \/ Restart

UsageSpec == UsageInit /\ [][UsageNext]_usageVars

-----------------------------------------------------------------------------
UsageTypeOK ==
    /\ time \in 0 .. MaxTime
    /\ DOMAIN created \subseteq Deliveries
    /\ \A d \in DOMAIN created : created[d] \in 0 .. MaxTime
    /\ countable \subseteq DOMAIN created
    /\ due \in Nat
    /\ from \in Int
    /\ DOMAIN counts \subseteq Groups
    /\ \A g \in DOMAIN counts : counts[g] \subseteq countable /\ counts[g] # {}
    /\ accepted \subseteq {MetricOf[g] : g \in Groups} \X Int
    /\ billed \subseteq Deliveries \X accepted
    /\ starts \subseteq 0 .. MaxTime

(* A delivery is billed twice only if the process was started between the  *)
(* two reports: the windows of one process never overlap, however long its *)
(* reports take and whatever becomes of their events.                      *)
BilledTwiceOnlyAfterRestart ==
    \A d \in Deliveries : \A t, u \in accepted :
        (<<d, t>> \in billed /\ <<d, u>> \in billed /\ t[2] < u[2]) =>
            \E s \in starts : t[2] + Window <= s /\ s <= u[2] + Window
=============================================================================
