------------------------------ MODULE LegacyNotify ------------------------------
(***************************************************************************)
(* legacy/notify: the consumer of cluster.events.global                    *)
(* (kafka_consumer.py) in the lifespan of its process (main.py), and the   *)
(* dispatcher that hands an event to Telegram (dispatcher.py).  The topic  *)
(* is one partition, and external: the client commits the position it has  *)
(* reached, handled or not, every few seconds and when it is stopped; a    *)
(* start without a commit begins behind the last event.                    *)
(***************************************************************************)
EXTENDS Integers, Sequences, FiniteSets

CONSTANTS MaxLog,    \* bound: events produced
          MaxBoots   \* bound: how often the process starts

ASSUME NotifyAssumption == {MaxLog, MaxBoots} \subseteq Nat

VARIABLES log,       \* the topic, each event by its shape
          position,  \* how many of its events the client has returned,
          committed, \* and the offset it has committed; -1 before the first
          task,      \* _run(): off, starting, fetch, dispatch or ended
          stopping,  \* _stop is set
          boots,     \* history: how often the process has started,
          tried,     \* the events given to send_alert(),
          missed     \* and those before the point where a start began

notifyVars == <<log, position, committed, task, stopping, boots, tried, missed>>

history == <<boots, tried, missed>>

(* Neither is dispatched: no JSON, or no kind.                              *)
Shapes == {"event", "kindless", "garbled"}

NotifyInit ==
    /\ log = <<>>
    /\ position = 0
    /\ committed = -1
    /\ task = "off"
    /\ stopping = FALSE
    /\ boots = 0
    /\ tried = {}
    /\ missed = {}

Produce(shape) ==
    /\ Len(log) < MaxLog
    /\ log' = Append(log, shape)
    /\ UNCHANGED <<position, committed, task, stopping, history>>

Boot ==
    /\ task = "off"
    /\ boots < MaxBoots
    /\ boots' = boots + 1
    /\ task' = "starting"
    /\ stopping' = FALSE
    /\ UNCHANGED <<log, position, committed, tried, missed>>

(* consumer.start(); auto_offset_reset is "latest".                        *)
Join ==
    /\ task = "starting"
    /\ task' = "fetch"
    /\ position' = IF committed = -1 THEN Len(log) ELSE committed
    /\ missed' = IF committed = -1 THEN 1 .. Len(log) ELSE missed
    /\ UNCHANGED <<log, committed, stopping, boots, tried>>

(* aiokafka is missing, or no broker answers: nobody awaits the task.      *)
JoinFails ==
    /\ task = "starting"
    /\ task' = "ended"
    /\ UNCHANGED <<log, position, committed, stopping, history>>

ConsumerRuns == task \in {"fetch", "dispatch"}

AutoCommit ==
    /\ ConsumerRuns
    /\ committed' = position
    /\ UNCHANGED <<log, position, task, stopping, history>>

(* consumer.stop(), in the finally, tries to commit where `at` is.         *)
LeaveAt(at) ==
    /\ task' = "ended"
    /\ committed' \in {committed, at}
    /\ UNCHANGED <<log, stopping, history>>

(* Mutant of AfterStop: what is left of the topic is read to its end.      *)
ReadsOn(next) ==
    /\ task' = "fetch"
    /\ UNCHANGED <<log, committed, stopping, history>>

(* The flag is looked at when an event has come, which is dropped then.    *)
AfterStop(next) == LeaveAt(next)

Fetch ==
    /\ task = "fetch"
    /\ position < Len(log)
    /\ log[position + 1] # "garbled"
    /\ position' = position + 1
    /\ \/ stopping /\ AfterStop(position + 1)
       \/ /\ ~stopping
          /\ task' = IF log[position + 1] = "event" THEN "dispatch" ELSE "fetch"
          /\ UNCHANGED <<log, committed, stopping, history>>

(* value_deserializer raises inside the iterator, outside of the try: the  *)
(* loop is over, until the process is started again, and then it is here   *)
(* again.                                                                  *)
Choke ==
    /\ task = "fetch"
    /\ position < Len(log)
    /\ log[position + 1] = "garbled"
    /\ LeaveAt(position)
    /\ UNCHANGED position

(* Dispatcher.dispatch(), whose errors are logged.                         *)
Dispatch ==
    /\ task = "dispatch"
    /\ task' = "fetch"
    /\ tried' = tried \cup {position}
    /\ UNCHANGED <<log, position, committed, stopping, boots, missed>>

(* The process is told to end: stop() sets the flag and waits.             *)
Shutdown ==
    /\ task # "off"
    /\ ~stopping
    /\ stopping' = TRUE
    /\ UNCHANGED <<log, position, committed, task, history>>

(* wait_for() runs out of its ten seconds and cancels the task.            *)
CancelTask ==
    /\ stopping
    /\ ConsumerRuns \/ task = "starting"
    /\ IF ConsumerRuns THEN LeaveAt(position)
       ELSE task' = "ended" /\ UNCHANGED <<log, committed, stopping, history>>
    /\ UNCHANGED position

(* The end of the lifespan, or of a process that is killed.                *)
Exit ==
    /\ stopping /\ task = "ended"
    /\ task' = "off"
    /\ UNCHANGED <<log, position, committed, stopping, history>>

Killed ==
    /\ task # "off"
    /\ task' = "off"
    /\ UNCHANGED <<log, position, committed, stopping, history>>

NotifyNext ==
    \/ \E shape \in Shapes : Produce(shape)
    \/ Boot \/ Join \/ JoinFails
    \/ AutoCommit \/ Fetch \/ Choke \/ Dispatch
    \/ Shutdown \/ CancelTask \/ Exit \/ Killed

NotifySpec == NotifyInit /\ [][NotifyNext]_notifyVars

-----------------------------------------------------------------------------
NotifyTypeOK ==
    /\ log \in Seq(Shapes) /\ Len(log) <= MaxLog
    /\ position \in 0 .. Len(log)
    /\ committed \in -1 .. Len(log)
    /\ task \in {"off", "starting", "fetch", "dispatch", "ended"}
    /\ stopping \in BOOLEAN
    /\ boots \in 0 .. MaxBoots
    /\ tried \cup missed \subseteq 1 .. Len(log)

(* Behind the committed offset, and neither given to Telegram nor about to *)
(* be.                                                                     *)
Lost ==
    {i \in 1 .. committed :
        /\ log[i] = "event"
        /\ i \notin tried \cup missed
        /\ ~(task = "dispatch" /\ i = position)}

RunsEnded == boots - (IF task \in {"starting", "fetch", "dispatch"} THEN 1 ELSE 0)

(* The offset is committed before the event it stands for is dispatched,   *)
(* yet each run of the process loses one event at most, and only by        *)
(* ending: the one it has in hand, or that comes after the stop.           *)
OneLossPerEnd == Cardinality(Lost) <= RunsEnded
=============================================================================
