# Verification of the messaging control plane

TLA+ modules, TLC runs and TLAPS proofs for `src/apps/control-plane`: the
service that sends a tenant's emails, SMS and push notifications, in two
packages, `messaging_cp` (the canonical send path) and `beacon` (the platform
around it), and for the legacy notifier it replaces, `src/legacy/notify`.
Paths below are relative to `src/apps/control-plane/src/` unless they say more.

    tlc -workers 2 -config MCOutboundDelivery.cfg MCOutboundDelivery
    tlapm OutboundDeliveryProofs.tla

## 1. The system

| part | state | operations | talks to |
|---|---|---|---|
| outbound queues (pgmq in Postgres) | rows of three channel queues and a shared DLQ | send, read with a visibility timeout, archive | sender and retry workers, producers |
| sender worker `messaging_cp/queues/sender_worker.py` | the row it has read | read, dispatch, bill, archive, dead-letter | queues, routers, billing |
| retry worker `messaging_cp/queues/retry_worker.py` | the DLQ row it has read | read, give up, requeue with a delay | queues |
| circuit breakers `messaging_cp/adapters/_circuit.py` | state, failures, time of opening | is_open, record_success, record_failure | routers |
| routers `messaging_cp/adapters/*/router.py` | one circuit per provider | send | providers |
| send guards `messaging_cp/send_guards.py` | suppression list, quotas, kept responses in Redis | look up, decrement, guard, store | send endpoints |
| send endpoints `messaging_cp/api/v1/{emails,sms,push}.py` | a request under way | POST | guards, routers, billing |
| idempotency middleware `beacon/middleware/idempotency.py` | kept replies in Redis | dispatch | every write endpoint |
| billing `messaging_cp/{credits,lago}_emit.py` | none | emit | Lago, credit wallet |
| messaging service `beacon/services/messaging.py` | five locked in-memory stores | evaluate | notifications endpoint |
| agent invocation `beacon/agents/agent_invoke_router.py` | in-memory idempotency cache | invoke | other agents |
| agent bus `beacon/agents/agent_bus_{client,rmq}.py` | last audit reference, bus of the process, degrade flag | invoke with retries, publish, consume | other agents, RabbitMQ |
| provider adapters `messaging_cp/adapters/*`, `beacon/integrations/*` | none | send | routers, providers |
| suppression list `beacon/services/suppression.py` and its doors | `suppression.entries` | add, remove, unsubscribe, webhook | send guards, sweep, erasure |
| token sweep `beacon/workers/bad_token_cleanup.py` | one transaction | read bad tokens, insert entries | suppression list, notifications |
| erasure `beacon/api/internal_dsar.py` | none | delete entries, overwrite rows | suppression list, notifications |
| usage reporter `beacon/workers/usage_reporter.py` | its window | report, emit, sleep | deliveries, Lago |
| email domains `beacon/{services,api}/domains.py` | `senders.email_domains` | create, verify | DNS |
| authentication and tenancy `beacon/middleware/*`, `beacon/db/session.py`, the migrations | tokens, memberships, policies | resolve a caller, an organization, a session | every endpoint |
| segments, A/B tests `beacon/api/{segments,ab_tests}.py` | dictionaries of the process | CRUD, assign, record, decide | none |
| web push keys `beacon/api/{webpush_subs,push_apps}.py` | `senders.push_apps` | get or make a key, create, delete | clients |
| capability registry `beacon/agents/capabilit*.py`, `beacon/main.py` | registry of the process | load, show, judge | aggregator, agent invocation |
| legacy notifier `src/legacy/notify` | Kafka offset | consume, dispatch | Kafka, Telegram |
| the rest of `beacon` | one table or dictionary per endpoint | CRUD, text scoring | Postgres |

`PROJECT.json` lists every component with its sources, and those that are not
modelled with the reason.

What makes it hard:

* **Queue processing.**  A row is leased for 30 s, whatever its handler does;
  several replicas poll one queue; every await is a point where the process may
  die; dead-lettering and requeueing are an insert and an archive in two
  transactions.  *Correct* means: no message is lost, none escapes the retry
  budget, none changes channel, and one that nothing disturbed is sent once.
* **Routers.**  The API holds one router per process, so overlapping requests
  record their outcomes on shared circuits in any order, and a lost answer looks
  like a failure.  *Correct*: counter and state agree, a fallback doubles a
  message only when an answer was lost, and no provider is given up for ever.
* **Synchronous sends.**  A handler awaits Redis, the database, a provider and
  the billing services in turn; other requests, a second attempt of the same
  client, an opt-out or midnight get in at each await, and each of those
  services can fail before or after it acted.  *Correct*: a quota is charged
  once per send and never overspent, a standing opt-out stops a message, and
  whatever is replayed stands for a message that really went out.
* **Messaging service.**  `POST /notifications/send` is a plain `def`, so its
  calls run in threads.  Each store locks itself, but not the stores together,
  and three of them read the clock before they take their lock.  *Correct*:
  deduplication, rate limit, cap and quota hold in real time, whatever the
  threads do, and nobody is refused without a reason.
* **Agent bus.**  The client retries what timed out, and the attempt it gave up
  on may reach the handler after its own retry, at another replica, or after a
  restart; the endpoint's only memory of it is a bounded dict of its process.
  *Correct*: a key that is remembered does not run again, no success is made
  up, and every call ends with an answer or a cause.

* **Opt-outs and erasure.**  Six doors write `suppression.entries`, each in its
  own spelling of an address, while a sweep inserts what it read a while ago and
  an erasure deletes in one transaction and overwrites in another.  *Correct*:
  who opted out is found by the next send, an erasure that reports no trouble
  left nothing, and a sweep stores all it read or nothing.
* **Usage reports.**  A window slides over rows while reports take time, fail
  half-way and start again.  *Correct*: one process bills a delivery once.
* **Domains.**  A verification reads a row, asks DNS three times and writes the
  row back, and so does the next one.  *Correct*: a domain is verified only if
  all records were there for one verification.
* **Access.**  The token, the membership and the rows are read in sessions of
  their own, while tokens are revoked and memberships end.  *Correct*: a request
  touches the rows of no organization but its credential's.
* **RabbitMQ.**  An event may be delivered again after a lost connection, while
  its first handler still runs.  *Correct*: no event that was queued is lost.
* **Keys and contracts.**  A key is made by whoever asks first, and a contract is
  loaded by whoever needs it first, on each host.  *Correct*: one key, and
  invocations judged by the contract that was shown.
* **Legacy consumer.**  Kafka's offset is committed behind the consumer's back.
  *Correct*: an end of the process loses one event, not more.

`PROJECT.json` also lists the hazards of this code line by line, with the
properties that would catch each.

## 2. Modules

**Asynchronous delivery.**

* `Pgmq` is what the workers' SQL does to the queue tables.  `table` is the log
  of all rows ever inserted, so that a `msg_id` is a position; a row is visible,
  hidden (leased or delayed) or archived.  `Archive` names the row and not the
  lease, as `pgmq.archive(queue, msg_id)` does.
* `SenderWorker` is `run_forever` and `_handle` for any number of processes:
  `ReadOne`, `Dispatch` (to the end of the router call, with what the except
  branches decide), `EmitBilling`, `ArchiveSent` or `ArchiveSentFails`,
  `SendToDlq`, `ArchiveDead`, and `SenderDies` between any two of them.
  `Dispatch` takes how the router call ended and how many providers took the
  message, which `OneTakerUnlessLost` below justifies.  `sent`, `billed`,
  `refusals` and `disturbed` are history: no action's guard reads them.
* `RetryWorker` is the process on the DLQ: `RetryReadOne`, `GiveUp`, `Requeue`,
  `ArchiveRequeued`, `RetrierDies`.
* `OutboundDelivery` composes the three, adds producers (`Enqueue`, external),
  expiring leases (`VtExpires`) and fairness, and states the properties.
* `AtLeastOnce` is the promise to a tenant, over three sets: what was accepted
  stays held until it is settled.  `KeepsPromise` says that `OutboundDelivery`
  implements it under `Promise == INSTANCE AtLeastOnce WITH ...`.

**Routers.**

* `ProviderCircuit` has the methods of `_circuit.py` as operators on a record;
  the clock is the age of an open circuit, which stops at the reset time.
* `ProviderRouters` is `send()` of the three routers as routes of providers.
  The routers run on one event loop, so all between two awaits is one step
  (`Send`, `Answered`, `Errs`), and overlapping calls share the circuits.
  Which answers there are follows from `ProviderAdapters`.
  `Escapes` is the exception that `push/router.py` does not catch.
* `ProviderAdapters` is what each adapter and its HTTP client make of what a
  provider replies, or of missing credentials, as operators without state: a
  status, or an exception.

**Synchronous sends.**

* `SendGuards` is `send_guards.py`: suppressions, quotas and the responses kept
  in Redis, with the lookup, the conditional UPDATE and `SET NX` as operators.
* `CanonicalSend` is a request from `IdempotencyMiddleware.dispatch` through the
  handler and back, one action per await: `Arrive`, `Lookup`, `Guard`,
  `CheckSuppression` (once per recipient), `ConsumeQuota`, `Routed` or
  `NotRouted`, `Emit`, `StoreAndEnd`, `Remember`.  The three handlers differ in
  what a replayed response needs (`Fits`) and in web push (410).  `Faults` says
  which of Redis, the database, the providers, the process and key expiry may
  fail.  A lookup that fails lets the recipient pass, and a quota update that
  fails lets the send pass, as the code says.

**Messaging service.**

* `MessagingService` is `evaluate()`: one action per store (`IsSuppressed`,
  `SeenBefore`, `Resolve`, `AllowRate`, `RecordAndCheck` or `Uncapped`,
  `TryDecrement`), since each holds its lock throughout, and `ReadClock` as an
  action of its own before the three that read the clock.  `SetQuota`,
  `Suppress` and `SetPreference` are the stores' other operations.  `Stall` is
  the longest time a thread stops between its reading and its lock; `Tick` does
  not pass it.  An event of the frequency cap is the call it came from, whose
  last reading is its time.  `first`, `counted`, `passed`, `granted` and
  `takers` are history: they record real time, which the stores do not know.

**Agent bus.**

* `AgentInvoke` is `agent_invoke()` on any number of servers.  After the token
  it awaits only the handler, and the handlers of `handlers.py` are coroutines
  without an await; so from the budget check to the store nothing gets in
  between, and `OverBudget`, `Replay`, `Run` and `HandlerRaises` are one step
  each.  A handler that suspends would end this.  `stored` and `ran` are
  history.
* `AgentBus` is `AgentBusClient.invoke()` calling it.  `post` keeps every
  attempt, also those the client no longer waits for, so a server may answer
  them at any time.  `Return`, `Refused`, `Lost`, `Unavailable` and `Garbled`
  are the ways a wait ends; two of them go round the loop through its `except`
  (`Except`), one with `continue`, and one leaves it with an exception nobody
  catches.

**Compliance.**

* `Tenancy` is the two tables of tenants, which nothing keeps equal.
* `SuppressionList` is every request that writes `suppression.entries`, one
  transaction and so one step each.  How an address is written is a member of
  `Written`, and what the code does to it (`strip`, `lower`, the leading `+`)
  are functions on these.  `asked` is history: opt-outs as they were written.
* `BadTokenCleanup` extends it with the notifications and the sweep over them:
  `SweepRead`, one `SweepInsert` per key, `SweepCommit` or a rollback,
  `SweepDies`.  An insert that fails has aborted the transaction, although the
  code catches it and goes on.
* `Consent` extends both with the erasure of a data subject, two transactions
  each of which may fail and be noted, and with the opt-outs and notifications
  that arrive meanwhile.

**Platform.**

* `UsageReporter` is the worker's loop: `Report` takes the rows of a window,
  `Emit` and `EmitRaises` hand them to Lago one by one, `Restart` begins anew.
* `EmailDomains` is create (`CreateDomain`, `CommitDomain`) and verify (`Load`,
  three `LookUp`, `Write`, which writes only the columns that changed since
  `Load`, as SQLAlchemy does).
* `Access` takes a request from its bearer token over the two middlewares to the
  handlers of `api/api_tokens.py`; `policy` says what row-level security asks of
  the role: nothing, what migration 0003 asks, or what 0006 does.  `Segments`
  adds `api/segments.py`, whose dictionary no policy protects.
* `AbTests` is one A/B test with the assignment and the results' arithmetic.
* `WebPushKeys` is the keypair made for the first caller; `Capabilities` is the
  registry of each host, and the aggregator's copy of it.
* `AgentBusRmq` is the bus of each process and the consumer that sets the
  degrade flag, with RabbitMQ as a queue that redelivers.
* `LegacyNotify` is the Kafka consumer of the legacy service: start, fetch,
  dispatch, stop, cancellation, kill, and the client's commits in between.
* `ControlPlane` puts these together.  They share no state (`SuppressionList`,
  `BadTokenCleanup` and `Consent` are one part, as are `Access` and `Segments`),
  so a behaviour chooses a `part` and moves in it only: the states of the parts
  add up, where their product would say nothing more about any of them.  The
  model thus claims nothing on two parts at once.

Operators called "Mutant of ..." are used by nothing.  Each is a plausible bug
in the definition below it, and with it in that definition's place the property
that `PROJECT.json` names is violated.

## 3. Runs

| run | instance | shows |
|---|---|---|
| `delivery` | 1 message, 2 sms senders, 1 retrier, 4 rows, sender retries 1, retry-worker retries 2, enqueued with 0 to 2 | `NoMessageLost`, `OneFateUnlessDisturbed`, `ChannelPreserved`, `RetryBudget`, `KeepsPromise` |
| `delivery_live` | 2 messages, one malformed, 1 sender, 1 retrier, `FairSpec` | `EventuallySettled` |
| `delivery_refusals` | 1 message, 1 sender, retries 2 | `RefusalsBounded` is violated |
| `routers` | 2 calls on the routes (Postal, Resend), (APNs) and (FCM), Resend and FCM with credentials, threshold 2, reset after 2 ticks, `FairSpec` | `ClosedIffBelowThreshold`, `OneTakerUnlessLost`, `Reprobed` |
| `circuit_probes` | the same without fairness | `HalfOpenTriesOne` is violated |
| `canonical_send` | 2 requests of 3 kinds, 1 unit of quota, 2 days, every fault | `QuotaConserved`, `OptOutRespected`, `ReplayIsReal`, `ReplaysAgree` |
| `canonical_dedup` | 2 requests with one key, no fault | `OneMessagePerKey` is violated |
| `canonical_replay` | 2 requests that differ in content, no fault | `ReplayOfTheSameSend` is violated |
| `messaging_service` | 2 threads, 1 tenant, 2 categories, limit 1, cap 1, window 2, TTL 1, period 2, stall 1, clock to 3 | `KeyOncePerLifetime`, `DuplicateOnlyWhileRemembered`, `RateWithinWindow`, `RefusedOnlyWhenFull`, `CapWithinPeriod`, `QuotaExact` |
| `agent_bus` | 2 calls with a key each, 2 servers that remember 1 key, 1 retry, `FairSpec` | `OnceWhileRemembered`, `AnswersAreReal`, `RaisesTheCause`, `EveryCallEnds` |
| `agent_retries` | the same without fairness, 1 server | `RefusalIsFinal` is violated |
| `control_plane` | one small instance of every part, below | `OptOutsHeeded`, `ErasureHolds`, `SweepAllOrNothing`, `BilledTwiceOnlyAfterRestart`, `VerifiedWasPublished`, `TouchesOnlyOwn`, `ExhaustionIsKnown`, `OneLossPerEnd`, `FairTests`, `OneKeyUnlessExcused`, `JudgesAsTold` |

Every passing run checks its module's `TypeOK` as well, except `delivery_live`.

**Bounds.**  `MaxRows` 4 leaves room for a message, its dead letter and a
duplicate of each, which is where copies of copies begin.  Two senders are
enough for an expired lease to be read by another.  `CountCap` 2 tells "more
than once" from "once".  Messages only meet in `delivery_live`, where one can
starve the other; in `delivery` they would share nothing but the workers.  Two
calls of a router are enough for a late outcome on a circuit another call has
moved.  One unit of quota is contended by two requests, two recipients tell the
first from the others, and two days change the default key.  In
`messaging_service` every limit is at its smallest, so that the second call
meets it; the clock goes far enough for a key, an event of the window and one
of the period to run out.  In `agent_bus` one retry makes a late first attempt,
a cache of one key is full with the other call's, and two servers do not know
of each other's runs.  In `routers` the SMS
route is left out, since the liveness check grows with every circuit; it has the
shape of the email route, which is there.

In `control_plane` each part has the smallest instance where its hazard occurs:
*consent* one organization and one stray tenant, one address and one phone
number in two spellings each, 2 rows (whose keys may be equal in a sweep); *usage*
2 deliveries of two channels with one metric, window 2, interval 2, time to 5, 2
starts (a second report of the same delivery needs no more); *domains* 1 domain
and 2 verifications; *access* 2 organizations, 2 tokens, one user and 2
requests, and every policy; *bus* 2 replicas and 2 events, one of them garbled;
*notify* a log of 3 and 3 starts, so that two losses in one run would show; *ab*
3 weightings, of which two do not add up to 100, the smallest sample (10) and
counts to 10 for 2 variants; *keys* 2 applications and 3 calls; *capabilities* 2
hosts and 2 editions of the file.  Rows and requests are interchangeable
(symmetry).

What is left open by the bounds is closed by the
proofs of section 5, which have none but bounds such as `MaxRows`, `MaxClock`
and `MaxLog` and the caps on the history counters, all of them arbitrary numbers
there.

**Fairness.**  Only `delivery_live`, `routers` and `agent_bus` need it.  In `delivery_live` a
worker that can move does, if only to die: it is awaited by an event loop and
its deployment restarts it.  Nothing makes it shut down.  Leases expire (weak),
and a message that is readable again and again is read (strong):
`pgmq.read` returns the lowest `msg_id` that is visible, a detail `Pgmq` leaves
open.  `EventuallySettled` assumes that faults end, since with endless faults
nothing is delivered, and that the table has room.  In `routers` time passes,
every provider call ends (the HTTP clients have timeouts) and requests keep
coming for every route; without requests nobody would try a provider again.  In `agent_bus` every wait
ends, if only by the timeout of the HTTP client, and `asyncio.sleep` returns;
the servers owe nothing, and nobody has to make a call.

`control_plane` assumes none and has no liveness property: its parts promise
none that their schedulers or deployments would keep (a request may be the last,
a worker need not be restarted).

**Deadlock** is checked except in the `CanonicalSend` runs and in
`control_plane`, whose requests, calls and verifications are made once, and which
then have nothing left to do.

## 4. Where code and documents disagree

Each of these is a run that TLC ends with a counterexample, listed with the
quoted line under `findings` in `PROJECT.json`.

* `delivery_refusals`: `worker_main.py:14` calls `MESSAGING_MAX_RETRIES` the
  "max retries before DLQ", but the sender never counts a retry.  A message that
  was enqueued with none is refused for ever and never dead-lettered
  (`DlqUnreachable` is the general form, proved).
* `circuit_probes`: `_circuit.py:9` lets a half-open circuit "try one request";
  `is_open()` lets every caller through until the first one is answered.
* `canonical_dedup`: `send_guards.py:15` says that a retried send returns the
  cached response "instead of double-sending"; the key is looked up before the
  send and stored after it, so a retry that overlaps is sent again.
* `canonical_replay`: `emails.py:85-86` says that the default key dedups
  "identical sends"; it leaves the content and all recipients but the first out,
  so a different email of the day is answered with the first one's response and
  is not sent.
* `agent_retries`: `agent_bus_client.py:13-14` promises "no retry on 4xx except
  429", and the ticket `docs/tickets/phase-6-inter-agent-comm/BCN-100` asks for
  a test "401 sem retry"; the exceptions a refusal raises are caught by the
  `except` of the same `try` and retried.

Met on the way, and outside what the runs show:

* `worker_main.py:42` and `:84` pass `channel=` to a standard `logging` logger,
  which raises `TypeError`: as committed, no worker gets past its first log
  line.  The model starts where `run_forever` does.
* `beacon/api/messages.py` imports names from `services/messaging.py` that this
  module does not define.
* The frequency cap counts requests the quota then refuses, and a request
  refused after the idempotency stage finds its own key when it is retried and
  is called a duplicate.  `MessagingService` has both; no document says which
  is meant.
* `agent_invoke_router.py:50` gives the cache a "TTL ~24h"; nothing expires in
  it, and a key leaves only by eviction or restart.
* A caller's own `Idempotency-Key` is not tied to a tenant in
  `derived_idempotency_key`, nor in the guards of the send endpoints.
* `send_guards.py:132`: no row updated may mean an exhausted quota or a missing
  organization; both end in 429, though the comment below lets the latter pass.
* The push routers are built without credentials, and a push without them, or
  after a refused FCM token, returns "dev_skipped": no failure for the circuit,
  and sent for the caller (`ProviderAdapters`).
* `usage_reporter.py:39` claims idempotency, but a restarted process bills a
  window again (`BilledTwiceOnlyAfterRestart` says when), channels of one metric
  share a transaction id, an exception that is no `LagoError` loses the rows
  left, and the time a report takes is a gap between windows.
* `bad_token_cleanup.py` counts insertions that an aborted transaction undid.
* `vapid.py:3`, one keypair per organization: overlapping first calls make one
  each, and every call makes one if the first web application has no key.  The
  private key is stored nowhere.
* `session.py` promises that workers connect as `beacon_worker`, but the
  settings have no such DSN; under migration 0006 a role that policies bind
  would let nobody in (`UnscopedFindsNothing`, proved).
* `create_token` with a JWT names a user that need not be in `tenancy.users`,
  and its INSERT then fails on the foreign key.
* The DKIM check compares the RSA prefix all keys share.
* `main.py:90` says that a malformed `capabilities.yaml` fails at boot; the
  exception is logged.  The aggregator is told to ask again before the host
  serves, so it finds an old host or none.
* `get_bus` keeps a bus whose `connect()` failed: `publish()` fails its
  assertion until a restart.  The queue is shared and the degrade flag is not,
  so one replica learns of an exhausted budget; nothing reads the flag.
* An erasure matches addresses as they were written, not normalised.
  `/internal/v1/dsar` and the provider webhooks of `messaging_cp` are not on the
  list of public paths, so signed calls are answered 401; the webhook for Postal
  there always answers 400, and Zenvia's 204 without storing the opt-out.
  `lgpd.request_dsar` inserts an id of 41 characters into `VARCHAR(36)`.
* `beacon.notifications` refers to `beacon.tenants`, which nothing in `src/`
  writes, and nothing writes `beacon.deliveries`.
* A/B results do not look at the runner-up's sample; "unsubscribed" as metric
  crowns the worst variant; 5.99 is the critical value for two degrees of
  freedom, not one; weights above 100 in total starve the last variants.
* One undecodable message ends the legacy consumer, and again after a restart
  that begins there.

## 5. Proofs

All theorems hold for every value of the constants under the named assumptions
of the modules (`PgmqAssumption`, `SenderAssumption`, `RetryAssumption`,
`DeliveryAssumption`, `CircuitAssumption`, `RouterAssumption`,
`AdapterAssumption`, `GuardAssumption`, `SendAssumption`, `ServiceAssumption`,
`InvokeAssumption`, `BusAssumption`, `TenancyAssumption`, `WritingAssumption`,
`RowAssumption`, `SubjectAssumption`, `ReporterAssumption`, `DomainsAssumption`,
`AccessAssumption`, `BusEventAssumption`, `NotifyAssumption`, `AbAssumption`,
`CapabilitiesAssumption`), which TLC evaluates in the runs.

| module | proves |
|---|---|
| `OutboundDeliveryProofs` | `TypeOK`, `NoMessageLost`, `ChannelPreserved`, `RetryBudget`, `DeadLettersAreSpent`; the DLQ stays empty unless messages are enqueued as spent |
| `OneFateProofs` | `OneFateUnlessDisturbed` |
| `DeliveryRefinementProofs` | `KeepsPromise`: every step of `OutboundDelivery` is a step or a stutter of `AtLeastOnce` |
| `ProviderRoutersProofs` | `TypeOK`, `ClosedIffBelowThreshold`, `OneTakerUnlessLost` |
| `CanonicalSendProofs` | `TypeOK`, `QuotaConserved`, `OptOutRespected`, `ReplayIsReal`, `ReplaysAgree` |
| `MessagingServiceProofs` | `TypeOK` and the six properties of the run |
| `AgentBusProofs` | `TypeOK`, `OnceWhileRemembered`, `AnswersAreReal`, `RaisesTheCause` |
| `ControlPlaneProofs` | the properties of `control_plane`, each for the part it is about, with that part's types, and `UnscopedFindsNothing`; `TypesOfTheWhole` and `PromisesOfTheWhole` carry them to `Spec` of `ControlPlane` |

**Delivery.**  `NoMessageLost` is not inductive.  A worker that archives a row
it gave up relies on the copy it inserted before, but another process may have
archived that copy by then, relying on a copy of its own, and so on.  There is
no circle, because a copy is always inserted after the row it was made from and
has a larger `msg_id`.  The invariant (`IInv`) says so: a row about to be
archived is settled or has a live copy *further up the log*
(`ArchivesCovered`), busy workers hold a row of their queue (`SenderHolds`,
`RetrierHolds`), and each row's message is settled or live (`RowsHeld`).  The
refinement follows: a row leaves only in a state where its message is settled
or another copy is live, which is a `Release` or a stutter of `AtLeastOnce`.
For the budget, three actions insert rows, and each inserts a `Sound` one; the
sender's decision to dead-letter stays true until it acts (`DlqDecided`).

**One fate.**  `OneFateUnlessDisturbed` counts sends, bills and failures; what
keeps them at one is in the queues.  A message may have many rows, one for every
trip to the DLQ and back, and more than one of them live, since a copy is inserted
before the row it was made from is archived.  The invariant (`FateInv`) calls a
row *open* while it can still be dispatched, given up or copied.  An undisturbed
message has at most one open row, and is unsettled as long as it has one
(`OneOpen`); a row that a process holds is hidden and nobody else's
(`LeasesHold`); at most one sender is about to bill, and the message was sent
once and not billed (`OneEmits`).  Every step that could open a second row or
let two processes hold one is among those that disturb the message.

**Routers.**  The counter is compared where it is changed, so the invariant is
the property with the types of circuits and calls, which are proved first
(`RoutersTypeCorrect`).

**Messaging service.**  All of it rests on `ReadingsAreFresh`: a store acts on a
reading at most one stall old.  *Keys* (`KeyInv`): a stored key was let pass by
some call no earlier than its stored time says, and who was let pass has its key
in the store with a time at most a stall older, or its lifetime is over.
*Rate* (`RateInv`): the bucket is the end of the list of passes, each event at
most a stall older than its pass, and what was dropped from its head has left
the window.  The bucket need not be in order, and an event that is out of date
may stay behind one that is not; this costs one stall in either direction and
no more.  *Cap* (`CapInv`): a counted call is in its bucket until its period is
over, because it reads the clock no more.  *Quota*: `QuotaExact` is inductive
with `TypeOK`, since `granted` and `takers` change with `remaining`.

**Synchronous sends.**  The invariant adds to the properties what a handler
knows at each await (`Fine`): its key is its request's, on the day it was worked
out; it has paid nothing before `consume`; until the lookups are over whoever is
barred is suppressed, and those looked up so far are barred only if the lookup
failed; from `emit` on its answer names its own message.  Conservation counts
payers, and a payer is added exactly when the guarded UPDATE takes a unit.
`ReplaysAgree` holds because what is kept changes in two ways only, the SET NX of
a handler, which leaves what is there, and the expiry (`KeptUntilItExpires`).

**Agent bus.**  A cache does not say what it has forgotten, so the invariant
(`LogInv`) compares it with the log of all that was stored: the cache is the end
of the log, and all of it or as much as there is room for (`Window`).  A key
that is not in the cache is therefore not among the last `Capacity` of the log,
and storing it keeps equal keys far apart.  For `AnswersAreReal` the addition is
that what is remembered has run (`RealInv`); a replay answers from there.

**Control plane.**  Each part is proved by itself, and a behaviour of the whole
is one of every part that stutters in all but one (`StepsOfParts`, `PartsRun`).

* *Opt-outs*: the key of every request in `asked` is in the list (`Heeded`); the
  guards' lookup normalises as `add()` does, so it finds it.
* *Erasure* (`Forgotten`): after the first transaction, unless `disturbed`, no
  entry, no open insert and no key that a sweep has still to insert is about the
  subject, and this lasts until somebody writes the subject again.
* *Sweep* (`SweptSoFar`): what the run has read is inserted, still to do, or
  deleted since, unless the transaction is aborted.
* *Billing*: reports of one process lie an interval apart (`Spaced`), and what a
  report billed was created in its window (`WithinWindow`).
* *Domains* (`Founded`): what a verification has found was shown to it.
* *Access* (`Admitted`): a request past a middleware has an organization that
  was among its credential's rights.
* *RabbitMQ* (`OneHandlerEach`): a delivery that is not answered has one handler,
  before or after its run, and after it the event is known or garbled.
* *A/B results* (`WinnersLead`): the order of the results is total, so there is
  a best and a runner-up (`BestTwo`, by a least element of a finite strict
  order).  If another variant had the rate of the best, the runner-up, which lies
  between them, would have it too; then the difference the test looks at is 0,
  which is not significant, and no winner is named.
* *A/B shares* (`SharesAreWeights`): a variant has the buckets between two
  neighbouring sums of weights, as far as they lie below a hundred, and the last
  variant the rest; so what the shares are off adds up to what the weights are
  off from 100.  The sums are folds of the community modules, defined by a
  recursion over sets.  The induction theorems of the library cannot be
  instantiated for it, so each induction is on a least counterexample, with
  `WFMin`: that the recursion has one solution (`SumsExist`, `SumsAgree`), that
  the order of the elements does not matter (`SumSplits`), and that a sum is
  where its running totals get to (`Telescopes`).
* *Keys* (`OneSource`): without an excuse there is one call about to insert, or
  one key.  *Capabilities*: what was told and judged is what the host has cached.
* *Legacy consumer* (`NotifyInv`): what a commit could lose *now* is bounded by
  the runs that have ended, so that a commit at any time keeps the bound.

**Model-checked only.**  `EventuallySettled`, `Reprobed` and `EveryCallEnds`:
liveness under fairness, and the `ENABLED` in it, are out of the prover's reach.
The runs that expect a violation show what the code does, and have nothing to be
proved; `DlqUnreachable` is the general form of one of them.  Proved and not a
property of any run: `DeadLettersAreSpent`, `UnscopedFindsNothing` and
`DlqUnreachable`.

## 6. Not modelled

* Providers, Postgres, Redis, Kafka, RabbitMQ and Lago beyond the operations
  used; signatures, HMAC and the verification of JWTs.
* *Journeys*: their activities are stubs, their signals have no handler, and
  their configuration holds a `timedelta` that Temporal's converter does not
  take, a failure `api/journeys.py` swallows: as committed there is nothing that
  runs.
* *Content*: template rendering, scoring and the stubs of `templates`, `chain`,
  `webhooks_mgmt` and WhatsApp status are pure text or store nothing.
* *Process-local settings* (`sms_numbers`, `team`, `settings`): dictionaries that
  all organizations share, without a check that could hold.
* `generate_unsubscribe_token`, `bulk_add`, `is_suppressed` and
  `start_consumers`: nothing in `src/` calls them.  The last is modelled
  nevertheless, with `get_bus`, because the queue it binds is the component.
* What agent handlers compute; none of them suspends, which is what
  `AgentInvoke` relies on.
* The export of a subject's data (it only reads), the audit chain (another
  service keeps it), the digest and the HTTP endpoints of the legacy notifier,
  the clients of the legacy integrations (none keeps a state).
* A rollback that itself fails in the erasure, which leaves an outcome without a
  note.
* The browser console and the SDKs.  `WorkerStats`, logs and metrics are left out
  everywhere.

Three hazards listed in `PROJECT.json` have no property: kept 409 and 429
replies, transaction ids shared by a tenant's events, and keys left behind by
refused requests.  Each is what the code does whenever the case occurs, and no
document says otherwise.

## 7. What could follow

* `IdempotencyMiddleware` in front of other endpoints than the send endpoints.
* The export and the generation of a DSAR, once its request can be stored.
* The consumers of RabbitMQ that only log, if they get to keep something.
