------------------------------ MODULE AgentBusRmq ------------------------------
(***************************************************************************)
(* agents/agent_bus_rmq.py at several replicas: the bus each of them makes *)
(* on first use, what it publishes, and the consumer of agent.metering.*.  *)
(* budget_exhausted, the one handler that keeps a state, the degrade flag. *)
(* The durable queue is named after the pattern, so the replicas share it: *)
(* an event goes to one of them, and the flag is local to its process.     *)
(* RabbitMQ is external: it delivers an event to one consumer, takes it    *)
(* back when the connection of a consumer that has not answered is lost,   *)
(* and drops what nobody has bound a queue for, dead letters among them.   *)
(***************************************************************************)
CONSTANTS Replicas,
          Events,   \* budget_exhausted events of the metering agent,
          Garbled,  \* those from_json raises on
          Own       \* events that this agent publishes, once each

ASSUME BusEventAssumption == Garbled \subseteq Events

VARIABLES bus,        \* _GLOBAL_BUS of each replica: none, connecting,
                      \* connected (it has its exchange), or broken:
                      \* connect() failed before
          published,  \* events of our own that reached the exchange,
          refused,    \* and those whose publish() failed its assertion
          bound,      \* the queue has been declared and bound
          consuming,  \* replicas whose consumers have started
          arrived,    \* events published when the queue was bound
          ready,      \* those that wait in the queue,
          unanswered, \* and those delivered and not answered: <<replica, event>>
          running,    \* the same, with the handler still to be called,
          returning,  \* or its answer still to be given,
          orphaned,   \* and handlers still to run whose delivery has been lost
          degraded,   \* replicas whose degrade flag is set
          known,      \* history: the events handled by each living process,
          forgotten,  \* those handled by one that has died since,
          rejected    \* and those rejected

rmqVars == <<bus, published, refused, bound, consuming, arrived, ready, unanswered,
             running, returning, orphaned, degraded, known, forgotten, rejected>>

ownVars == <<published, refused>>

handlers == <<running, returning, orphaned>>

queueVars == <<bound, consuming, arrived, ready, unanswered, handlers, degraded,
               known, forgotten, rejected>>

RmqInit ==
    /\ bus = [r \in Replicas |-> "none"]
    /\ bound = FALSE
    /\ published = {} /\ refused = {}
    /\ consuming = {} /\ degraded = {}
    /\ arrived = {} /\ ready = {} /\ unanswered = {}
    /\ running = {} /\ returning = {} /\ orphaned = {}
    /\ forgotten = {} /\ rejected = {}
    /\ known = [r \in Replicas |-> {}]

(* get_bus() stores the bus before it awaits connect().                    *)
GetBus(r) ==
    /\ bus[r] = "none"
    /\ bus' = [bus EXCEPT ![r] = "connecting"]
    /\ UNCHANGED <<ownVars, queueVars>>

Connect(r) ==
    /\ bus[r] = "connecting"
    /\ \E outcome \in {"connected", "broken"} : bus' = [bus EXCEPT ![r] = outcome]
    /\ UNCHANGED <<ownVars, queueVars>>

(* Whoever asks for the bus meanwhile, or after connect() has failed, gets *)
(* one without an exchange; publish() asserts that there is one.           *)
Publish(r, e) ==
    /\ bus[r] # "none"
    /\ e \in Own \ (published \cup refused)
    /\ \/ bus[r] = "connected" /\ published' = published \cup {e} /\ UNCHANGED refused
       \/ bus[r] # "connected" /\ refused' = refused \cup {e} /\ UNCHANGED published
    /\ UNCHANGED <<bus, queueVars>>

(* start_consumers() awaits the declaration, the binding, the consumer.    *)
Bind(r) ==
    /\ bus[r] = "connected"
    /\ ~bound
    /\ bound' = TRUE
    /\ UNCHANGED <<bus, ownVars, consuming, arrived, ready, unanswered, handlers,
                   degraded, known, forgotten, rejected>>

Consume(r) ==
    /\ bus[r] = "connected" /\ bound
    /\ r \notin consuming
    /\ consuming' = consuming \cup {r}
    /\ UNCHANGED <<bus, ownVars, bound, arrived, ready, unanswered, handlers,
                   degraded, known, forgotten, rejected>>

Arrival(e) ==
    /\ bound
    /\ e \in Events \ arrived
    /\ arrived' = arrived \cup {e}
    /\ ready' = ready \cup {e}
    /\ UNCHANGED <<bus, ownVars, bound, consuming, unanswered, handlers, degraded,
                   known, forgotten, rejected>>

(* Mutant of Deliver: the queue is consumed with no_ack.                   *)
DeliverNoAck(r, e) ==
    /\ r \in consuming /\ e \in ready
    /\ ready' = ready \ {e}
    /\ running' = running \cup {<<r, e>>}
    /\ UNCHANGED <<bus, ownVars, bound, consuming, arrived, unanswered, returning,
                   orphaned, degraded, known, forgotten, rejected>>

(* q.consume(_wrap): no prefetch limit, a task for each event.             *)
Deliver(r, e) ==
    /\ r \in consuming /\ e \in ready
    /\ ready' = ready \ {e}
    /\ unanswered' = unanswered \cup {<<r, e>>}
    /\ running' = running \cup {<<r, e>>}
    /\ UNCHANGED <<bus, ownVars, bound, consuming, arrived, returning, orphaned,
                   degraded, known, forgotten, rejected>>

(* from_json()                                                             *)
Parses(e) == e \notin Garbled

(* on_budget_exhausted(), if there is no exception before it.              *)
Handle(r, e) ==
    /\ \/ /\ <<r, e>> \in running
          /\ running' = running \ {<<r, e>>}
          /\ returning' = returning \cup {<<r, e>>}
          /\ UNCHANGED orphaned
       \/ /\ <<r, e>> \in orphaned
          /\ orphaned' = orphaned \ {<<r, e>>}
          /\ UNCHANGED <<running, returning>>
    /\ degraded' = IF Parses(e) THEN degraded \cup {r} ELSE degraded
    /\ known' = IF Parses(e) THEN [known EXCEPT ![r] = @ \cup {e}] ELSE known
    /\ UNCHANGED <<bus, ownVars, bound, consuming, arrived, ready, unanswered,
                   forgotten, rejected>>

(* message.process(requeue=False) acks, or rejects after an exception.     *)
AnswerBroker(r, e) ==
    /\ <<r, e>> \in returning
    /\ returning' = returning \ {<<r, e>>}
    /\ unanswered' = unanswered \ {<<r, e>>}
    /\ rejected' = IF Parses(e) THEN rejected ELSE rejected \cup {e}
    /\ UNCHANGED <<bus, ownVars, bound, consuming, arrived, ready, running, orphaned,
                   degraded, known, forgotten>>

OfReplica(r, deliveries) == {d \in deliveries : d[1] = r}

TakeBack(r) ==
    /\ ready' = ready \cup {d[2] : d \in OfReplica(r, unanswered)}
    /\ unanswered' = unanswered \ OfReplica(r, unanswered)
    /\ running' = running \ OfReplica(r, running)
    /\ returning' = returning \ OfReplica(r, returning)

(* connect_robust() comes back, with its consumers.  Handlers run on, but  *)
(* an answer on the channel that has been lost does nothing.               *)
Reconnect(r) ==
    /\ r \in consuming
    /\ TakeBack(r)
    /\ orphaned' = orphaned \cup OfReplica(r, running)
    /\ UNCHANGED <<bus, ownVars, bound, consuming, arrived, degraded, known, forgotten,
                   rejected>>

Die(r) ==
    /\ bus[r] # "none"
    /\ TakeBack(r)
    /\ orphaned' = orphaned \ OfReplica(r, orphaned)
    /\ bus' = [bus EXCEPT ![r] = "none"]
    /\ consuming' = consuming \ {r}
    /\ degraded' = degraded \ {r}
    /\ known' = [known EXCEPT ![r] = {}]
    /\ forgotten' = forgotten \cup known[r]
    /\ UNCHANGED <<ownVars, bound, arrived, rejected>>

RmqNext ==
    \/ \E r \in Replicas :
        \/ GetBus(r) \/ Connect(r) \/ Bind(r) \/ Consume(r) \/ Reconnect(r) \/ Die(r)
        \/ \E e \in Own : Publish(r, e)
        \/ \E e \in Events : Deliver(r, e) \/ Handle(r, e) \/ AnswerBroker(r, e)
    \/ \E e \in Events : Arrival(e)

RmqSpec == RmqInit /\ [][RmqNext]_rmqVars

-----------------------------------------------------------------------------
RmqTypeOK ==
    /\ bus \in [Replicas -> {"none", "connecting", "connected", "broken"}]
    /\ published \cup refused \subseteq Own
    /\ bound \in BOOLEAN
    /\ consuming \cup degraded \subseteq Replicas
    /\ arrived \cup ready \cup forgotten \cup rejected \subseteq Events
    /\ unanswered \cup running \cup returning \cup orphaned \subseteq Replicas \X Events
    /\ known \in [Replicas -> SUBSET Events]

(* News of an exhausted budget is not lost: an event that the queue took   *)
(* waits there or with one consumer, or has degraded a process that lives  *)
(* or died since; only what does not parse is rejected.  Which of the      *)
(* replicas degrades is up to the broker, and the others do not.           *)
ExhaustionIsKnown ==
    \A e \in arrived :
        \/ e \in ready
        \/ \E r \in Replicas : <<r, e>> \in unanswered
        \/ \E r \in degraded : e \in known[r]
        \/ e \in forgotten
        \/ e \in Garbled \cap rejected
=============================================================================
