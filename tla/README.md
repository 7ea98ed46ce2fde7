# A verification project for the EventFlow microservices

EventFlow is a choreographed purchase saga: five NestJS services, Kafka between
them, a SQLite database in two of them. This directory holds TLA+ models of its
parts, the TLC configurations that check them, and proofs about them for TLAPS.

## 1. The system

```
client ──POST /orders──▶ order-service ──order.created──▶ [order.events]
                              ▲                                 │
          status feedback     │                                 ▼
   payment.failed, stock.failed,                        payment-service
   stock.released, notification.sent                 (processed_events table)
                              │                                 │ payment.requested,
                              │                                 │ payment.processed / failed
                              │                                 ▼
   notification-service ◀─stock.reserved── stock-service ◀─ [payment.events]

   every handler runs in KafkaRetryExecutor: retry = republish to the same topic,
   exhausted = publish to <topic>.dlq  ──▶ dlq-service (logs)
```

### Inventory

| Component | State | Operations | Hard behaviour | What makes it correct |
|---|---|---|---|---|
| Retry executor (`shared/src/kafka/retry`) | none of its own: the attempt count is a header of the record | run the handler, republish with backoff, dead-letter | republish and commit are two steps; crashes replay; errors of the publish itself escape; other groups read the republished record | nothing vanishes; dead letters are earned; retrying ends; its cost is bounded |
| Payment consumer and pipeline (`services/payment-service`) | `processed_events` rows, messages published | look up by event, look up by order, charge, publish, record | check-then-act over awaits, publish-then-record, two replicas after a rebalance, a database error before the executor | one verdict per envelope and one charge per order unless a fault hits the window; an honest table; bounded damage |
| Order API and feedback (`services/order-service`) | `orders` rows, requests in flight, topic | save, store eventId, publish under two retry loops, mark failed; status updates | lost acknowledgements, stale entity in the catch block, feedback racing the request, client retries | events backed by rows, bounded copies, earned statuses, no silent pending order |
| Business rules, gateway simulator | none | seven rules, a draw against the failure rate | boundaries; blank, unreadable or out-of-range variables | only a configured bound refuses an order; what is approved keeps the bounds; a demo set to fail always or never does |
| Stock service | none | `payment.processed` → `stock.reserved`; `order.cancelled` → `stock.released` | no duplicate detection: every fault may double what follows | a reservation for every paid order, none without a payment |
| Notification service | none | `stock.reserved` → `notification.send`, `notification.sent` | two publishes under one retry | every `sent` has a `send` |
| DLQ service and topic routing | none | one logging handler per dead-letter topic | domain topics vs. event-type topics | every dead letter reaches a reader |
| Event catalog, envelopes, validators | none | accept or refuse a body, parse, skip, reject | the pipe and the consumers judge the same data by different rules; a skipped and an invalid event are both acknowledged; routes are written down four times | an accepted order can be read downstream; a verdict is understood by exactly its consumers; the catalog tells the routes |
| Consumer and topic configuration | the topic's partitions, the group's offsets, the replicas' sessions | provisioning, join, rebalance, commit, expulsion, crash, restart | no heartbeat during a handler; keys move when partitions are added; a group without an offset starts at the end | one replica per order; nothing committed is lost; every partition gets a reader |
| HTTP plumbing, modules, databases, docker, scripts | – | – | – | only where they meet one of the above |

The components interact only through Kafka records and, inside one service,
through its database; no call crosses services. Records of one order have the
key `orderId` and therefore one partition (`partition-key.ts`), so the models of
the services look at one partition. `ConsumerGroup` is about when that is
allowed: which partition a key gets, who reads it, and from where.

`PROJECT.json` lists the hazards of this code, each at its line, with the
properties that would catch it going wrong.

## 2. The modules

### RetryPolicy, RetryExecutor

`RetryPolicy` has the boundary decisions `shouldRetry`, `shouldSendToDlq` and
the fall-through of `execute`. `RetryExecutor` is one partition, its consumer
groups and `KafkaRetryExecutor.execute`.

| Model | Code |
|---|---|
| `log`, records `[event, retryCount]` | the topic partition; `x-retry-count` header |
| `position`, `committed` | kafkajs' resolved offset, the offset autoCommit stored |
| `Deliver` | the `@EventPattern` handler up to the parser's answer |
| `HandlerReturns`, `HandlerThrows` | `await params.handler()` |
| `ScheduleRetry`, `SendToDlq` | the two branches of the catch block |
| `PublishRejects` | the publish in a branch rejects, with or without the record in the broker |
| `PrecheckThrows` | an error before `execute` (payment-service's idempotency check) |
| `DropEscaped`, `RedeliverEscaped` | what the framework may do with an escaped error |
| `Crash` | a member dies; its successor starts at the committed offset |

`handled`, `failed` and `lost` are history. Of a handler the model knows on which
events it can throw (`Fallible[g]`); the others it only logs. `x-retry-count` is
in a header every subscribed group sees, so a group that failed on an event would
inherit the count of another one that did. `OneFallibleGroupPerEvent` says that
this does not happen: an event has at most one group whose handler can throw on
it. `payment.events` has two such groups, each for an event of its own:
stock-service for `payment.processed` (it publishes the reservation inside the
executor) and order-service for `payment.failed` (it writes its database there);
notification-service only logs. On `order.cancelled` only stock-service publishes,
and every other topic has one group. `DeadLetterMeansExhausted` and
`RetriesAreBounded` depend on it.

### PaymentService

One action per await of `handleOrderEvents` → `checkOrderCreated` →
`execute` → `processPayment` → `recordProcessed`. `pc[i]` is the await replica
`i` is at; `task[i]` what it holds in memory. `Rebalance` gives the partition to
another replica while the old one continues (a "zombie"), which then can write
the table and publish but no longer move the group's offset. `exposed` is
history: the orders a fault hit between the idempotency check and the record of
the outcome, i.e. exactly those for which the table can promise nothing.

### OrderService

One action per await of `createOrder`; `TransportRetry` is the Kafka client's
own loop (`getKafkaClientConfig`), `ApplicationRetry` the loop of
`publishWithProducerRetry` around it; `SendFails` leaves a record in the broker
or not. `Downstream` stands for the other services' answers, and more than one
answer for an order costs a fault, because PaymentService shows that a second
verdict needs one. `Apply` is a feedback handler, `Drop` an event that
RetryExecutor dead-letters or loses.

### Routing, Fulfilment

`Routing` holds three functions of the code: `ResolveKafkaTopic`, the handlers
and what each accepts of its topic, and the topics dlq-service has a handler
for. `Fulfilment` is the saga after the charge: stock-service,
notification-service and the feedback handlers of order-service, each with its
retry executor, on four topics.

| Model | Code |
|---|---|
| `envelopes`, `CreateEnvelope` | `createEventEnvelope`: the eventId is an index, `cause` the causationId |
| `log[t]` | the topics; `Emit` and `SendRejects` are the outcomes of `publish` |
| `phase[h]`, `held[h]` | where handler `h` is and the `send` envelope it keeps in memory |
| `Deliver` | the `@EventPattern` handler up to the parser's answer |
| `ReserveStock`, `SendNotification`, `NotificationSent`, `UpdateOrderStatus` | the handlers, one action per await |
| `...Rejects` | that await rejects, with or without the record in the broker |
| `ScheduleRetry`, `SendToDlq`, `RetryPublishRejects` | the executor around the handler |

An acknowledged publish leaves its record in the topic once, or twice when an
acknowledgement was lost and kafkajs sent it again (`Emit`). kafkajs may resend more
often inside one publish; that is left out, as each further copy would be one more
fault of the same kind.

A service has one consumer that handles one record at a time, whichever of its
topics the record is from; each service reads its own retry budget from its
environment (`MaxAttempts[s]`). `PublishVerdict` stands for payment-service;
that it may answer twice is PaymentService's subject.

### AtLeastOnce

The abstract specification of a delivery stage, with no topic, offset, header or
attempt in it: a message that lies ahead of a consumer stays there until the
consumer is through with it, and may come back. `RetryExecutor` and
`PaymentService` each instantiate it (`Delivery`) with a refinement mapping:
`ahead` is "a copy of the event is at an offset behind the position", `settled`
is "handled, dead-lettered or dropped" and "answered, dead-lettered or dropped".
`ImplementsAtLeastOnce` is `Delivery!Spec`. It says more than `NothingVanishes`,
namely *how* things change: nothing is settled that does not lie ahead of the
group at that moment, not even by a zombie replica, and a restart brings back
only what was settled.

### EnvVar, RetryConfig

`EnvVar` is what an environment variable may hold when a number is read from it:
nothing, blanks, something unreadable (NaN), a number. `RetryConfig` resolves
the four numbers of a retry policy over the layers `KAFKA_CONSUMER_RETRY_*` or
`KAFKA_PRODUCER_RETRY_*`, `KAFKA_RETRY_*` and the defaults, and computes the
backoff and the schedule logged at start-up. A producer's policy also sets the
transport retries of kafkajs (`kafka-config.ts:36-41`): `PublishDelays` is how long
one publish can have waited in them, by the longest of kafkajs' random waits.

### ConsumerGroup

A topic with partitions, and the replicas of payment-service that share a
consumer group.

| Model | Code |
|---|---|
| `partitions`, `KafkaInit`, `SetTopicPartitions` | `create-topics.sh`, `kafka-set-topic-partitions.sh`; a topic nobody made is auto-created with one partition |
| `known[pr]`, `PartitionFor` | the partition count in a producer's metadata, and the default partitioner on the key of `partition-key.ts` |
| `GroupOf`, `ResolveConsumerGroup` | `consumer-groups.ts`: explicit group id, or the default with a suffix |
| `StartingOffset` | `subscribe.fromBeginning` of `consumer-config.ts` |
| `Take` … `Finish` | the `eachMessage` callback around one record: `HandlerReturns`, or `HandlerThrowsLast` with the dead letter, or `HandlerThrows`, `Backoff` and `Republish` |
| `HandlerWaits`, `SendDelays` | `processPayment`: the publish of `payment.requested`, the gateway, the publish of the verdict; each publish with its transport retries |
| `silent[m]`, `Heartbeat`, `Expel` | `sessionTimeout`, `heartbeatInterval`; kafkajs heartbeats between records, and only when the interval has elapsed, so a handler that waits is silent on top of up to one interval |
| `Rebalance`, `AutoCommit`, `Crash`, `Restart` | the coordinator and `run.autoCommit`; compose has no restart policy |

Time is abstract but for one quantity: the milliseconds of *configured* waits since
a replica's last heartbeat. They are the transport retries of the handler's two
publishes, the gateway's delay, the executor's backoff, the transport retries of
the republish or of the dead letter, and, since a heartbeat is skipped until its
interval has elapsed, one interval before all of these. What a request, a
connection or the database takes is no setting and is not counted. The broker and
kafkajs are not in the repository; their definitions are marked external and
follow the options the code sets.

With the defaults the longest silence is 3000 + 2 · 4080 + 3000 + 2000 + 4080 =
20 240 ms, below the session timeout of 30 000: a replica stays in its group. With
`KAFKA_RETRY_MAX_ATTEMPTS=4` one publish may wait 10 992 ms, and three of them
outlast the session. The schedule `retry-policy.ts` logs does not show this: a
consumer budget of 1 logs an empty one, whatever the producers' retries wait.

### PaymentRules, Catalog, Intake

`PaymentRules` is `payment-rules.ts` and `payment-simulator.ts` as operators over
the environment. `Catalog` is `EVENT_CATALOG`, the topics derived from it, those
`create-topics.sh` makes and the subscriptions of the services. `Intake` sends
an order's *data* through all checks in turn: the validation pipe, the
envelope, the parsers, the rules and the gateway, and the three readers of the
verdict. Every step succeeds there and every record comes once: retries and
crashes are the subject of the other modules.

A string is empty, blank or readable; amounts are whole cents; an amount beyond
`MaxFinite` is one JSON writes as `null`. `verify-kafka-partitions.mjs` writes
records that are no envelopes (`ProduceWithKey`).

### Counting

`PowerOfTwo` and `Pascal`, the numbers the three counting properties are stated
with: `RetriesAreBounded` (RetryExecutor), `OneChargePerFault` (PaymentService)
and `EachFaultAtMostDoubles` (Fulfilment).

### MC modules, proofs and mutants

`MC*.tla` extend the modules with values for the constants and define no
property. `*Proofs.tla` hold theorems and what only they need. The inductive
strengthenings that look at the state of a component (`StormInv`, `ChargeInv`,
`DoublingInv`, `IntakeInv` and others ending in `Inv`) are in its module, so that
TLC can be given them as invariants of the component's run; they were, before
they were proved. In a component's module, an operator commented *Mutant* is a
plausible bug: replacing the definition that follows it by the mutant makes a
run fail, which shows that the property looks at that piece of code.

## 3. What is checked

| Run | Expect | What it asks |
|---|---|---|
| `retry` | pass | two groups share a topic, each can fail on an event of its own: `NothingVanishes`, `DeadLetterMeansExhausted`, `RetriesAreBounded`, `EventuallyDrained`, and the refinement `ImplementsAtLeastOnce` |
| `payment` | pass | two replicas, two envelopes of one order: `OneVerdict`, `LedgerIsHonest`, `PaymentIdsAreUnambiguous`, `NothingVanishes`, `ApprovalStands`, `OneChargePerFault`, `EventuallyAnswered`, and `ImplementsAtLeastOnce` |
| `order_requests` | pass | two requests, of two clients at once or of one client that posts again after a failure: `EventsAreBacked`, `CopiesAreBounded`, `PendingMeansUnderway`, `StatusIsEarned`, `NeverReopened`, `OrdersAreDecided` |
| `fulfilment` | pass | one paid order, two faults, different budgets: `CausalChain`, `EachFaultAtMostDoubles`, `EventuallyCompleted` |
| `fulfilment_orders` | pass | a paid and an unpaid order: `StatusFollowsVerdict` |
| `consumer_group` | pass | two replicas, a topic that may be created with one partition and altered to two, four environments: `SettingsTellExpulsion`, `OneReplicaPerOrder`, `NoLossOnceCommitted`, `EventuallyConsumed` |
| `intake` | pass | eleven bodies under nine environments: `OnlyTheseAreStranded`, `OnlyBoundsRefuse`, `ApprovedWithinBounds`, `SettingsDecide`, `VerdictsAreUnderstood`, `AnswersTellTheRoutes`, `PolicyIsLayered` |
| `payment_double_charge` | violation | `NoDoubleCharge`: the promise of `payment-service/src/main.ts` without conditions |
| `order_terminal` | violation | `TerminalIsFinal`: "terminal success" of `order-status.enum.ts` |
| `order_client_retry` | violation | `OneEventPerPurchase`: the header of `orders.service.ts` about clients that retry |
| `dlq_unread` | violation | `DeadLettersAreRead`: "consumes all `*.dlq` topics" of `docs/PROJECT_DETAILS.md` |
| `first_records_lost` | violation | `EveryRecordIsDelivered`: "at-least-once delivery" of `docs/PROJECT_DETAILS.md` |

Every passing run also checks the module's `TypeOK`.

What the passing runs say, in words:

* **Nothing vanishes.** An event a group has to handle is handled, dead-lettered,
  still ahead, or was dropped because an error escaped `execute` (a publish
  rejected, or the idempotency check failed). The last way is the only leak.
* **Retries are bounded.** Without faults, one record per attempt. With `f`
  faults at most `choose(maxAttempts + f, f + 1)` records (`Pascal[f + 1][maxAttempts - 1]`),
  because a crash replays uncommitted records and each replay may be republished again.
* **The payment table works outside the fault window**: `OneVerdict`. Inside it,
  each fault costs at most one more charge: `OneChargePerFault`.
* **Orders.** Two retry loops with one `maxAttempts` multiply to
  `maxAttempts²` sends. A pending order after its request means the event is in
  the topic, unless a crash or failed save cut the request short; such an order
  stays pending for ever (no reconciliation in the code), and so does one whose
  feedback was dead-lettered. `OrdersAreDecided` names exactly these exceptions.
* **Fulfilment.** An event of the saga is in its topic only if the event that
  caused it is in its own, for the same order. No stage detects duplicates, so
  duplicates run down the chain: `f` faults make at most `2^f` events of a type
  out of one verdict. A paid order is completed in the end, unless a dead letter
  or an escaped error took one of its events out of the flow.
* **Consumer groups.** Two replicas hold records of one order at the same time
  only when the order's records are spread over partitions (the topic was
  altered under it) or a replica was silent for a session timeout, for whatever
  cause; `SettingsTellExpulsion` adds up which settings let the waits of one record
  reach it. Waits of different records never add up, nor do two backoffs.
  Crash, expulsion, rebalance and growth lose nothing once an offset is
  committed. Partitions added later get a reader, and an expelled replica
  comes back.
* **Data.** An order the API accepted is unreadable downstream, and then pending
  for ever, for two reasons only: a name made of spaces (the consumer trims, the
  pipe does not) or a total JSON cannot carry. `create-order.dto.ts:8` says its
  rules mirror the constraints of `order.created`; these two do not, and
  `OnlyTheseAreStranded` names them. Of the seven rules only the three configured
  bounds can refuse an order of this API, and the sum's tolerance only when it is set
  below zero. An unreadable bound is no bound; a
  blank one is zero.
* **Configuration.** A blank or unreadable variable never hides a good value of
  the layer below. `docs/RETRY_DLQ.md:20`, `docs/RULES.md:173-175`
  and `:293` and `docs/EVENT_MODELING.md:77` warn that an empty
  `KAFKA_RETRY_MAX_ATTEMPTS` yields `NaN`; the code falls back instead.
* **Routes.** The catalog's topics are those published to and provisioned. Three
  catalogued consumers do not subscribe (`Deaf`): payment-service to
  `payment.requested`, notification-service to `notification.send` and to
  `stock.failed`. The catalog's header says start-up validates subscriptions
  against it; only the controllers of `GET /events/catalog` read it. Two texts name
  other routes: `services/payment-service/src/main.ts:25` has `payment.requested`
  produced on `payment.events`, and `docs/PROJECT_DETAILS.md` (`:480`, `:491`, `:524`,
  `:526`) has `order.created` and `payment.processed` each on a topic of its own
  name. The code, the catalog and `docs/EVENT_CATALOG.md` agree on
  `payment.requested`, `order.events` and `payment.events`.

What the violations show: a crash between publishing `payment.processed` and the
insert of the row charges twice; when acknowledgements are lost the saga may
complete an order before its request gives up, whose catch block then overwrites
`completed`; a client that posts again after such a 500 gets a
second order and event, since `hasPublishedEventId` is tested on an entity that
was created with `eventId: null` a few lines above; a failed reservation ends in
`payment.events.dlq`, for which no handler exists, because the handlers of
dlq-service are listed by event type and dead letters are sent by topic; a
record published before the group first joined is skipped, because a group
without an offset starts at the end of the partition.

### Bounds

Unbounded counters are capped by `MaxFaults` (crashes, rebalances, rejected
calls, redeliveries) and `MaxAttempts`; nothing else is bounded by a guard, since
without faults every model stops by itself. Hence `CHECK_DEADLOCK FALSE` in all
configurations: a system with nothing to do is meant to stand still.

* Two events and two groups, each able to fail on one of them, are enough for a
  republished record to be overtaken and for each group to see and skip the
  other's retry; `MaxAttempts = 2` has a retry and an exhausted attempt. One fault
  is what TLC gets through in minutes here; the theorems about this module hold
  for any number.
* Two replicas and two envelopes of one order are the smallest instance with a
  zombie and with an upstream duplicate; two faults let a rebalance and a crash
  meet in one run.
* Two order ids and two clients let two requests run at once and one client post
  again after a failure; `MaxAttempts = 2` makes the loops multiply.
* One paid order shows the doubling; two faults and a budget of 1 for
  stock-service and order-service and 2 for notification-service let both a retry
  and a dead letter happen, and either publish reject. Two orders are the
  smallest instance with a record that is not a handler's business.
* `consumer_group`: two replicas, two partitions, two records, one failure and
  one crash are what it takes for two replicas to hold one order after an
  expulsion, after an alteration, and with a retry that goes to another partition
  than its first copy. The environments: one attempt and no backoff; a backoff that
  with the heartbeat interval makes up the session timeout exactly; a backoff that
  fits although a second one would not; and no backoff at all, but transport
  retries with which the handler's two publishes fit the session and the dead
  letter's does not.
* `intake`: one order, because nothing relates two orders' data; the bodies are on
  either side of each limit, the draws are 0, 99 and the two sides of the default
  rate, the rates 0, 100, beyond both, blank and unreadable, the tolerances unset, blank,
  unreadable and negative.
* `payment` has no order that breaks a business rule: to the pipeline a refusal is
  one more failed verdict, which the gateway's choice already includes; which
  orders are refused is `intake`'s question.

### Fairness

Weak fairness, per group, replica or order, of the steps a running event loop
takes: every `await` ends (handlers and publishes are bounded by client
timeouts, backoffs by `maxDelayMs`) and the consumer polls. In `ConsumerGroup`
the containers are started (`Start`), a replica works on (`Work`), and the
coordinator completes a rebalance all members have come to. No fairness is
assumed of producers, provisioning, clients, autoCommit, restarts or of any fault. In `OrderService` the
other services are assumed to answer what is published, which `EventuallyAnswered`
and `EventuallyCompleted` show for the payment service and the stages after it, up to the two ways of dropping an event.

## 4. What is proved

For all values of the constants, any number of faults included:

| Theorem | Module | Argument |
|---|---|---|
| `TypeCorrect` | RetryExecutorProofs, PaymentServiceProofs, OrderServiceProofs | inductive as stated |
| `TypeCorrect` | FulfilmentProofs | with "a handler works only on what it accepts" (`PlacesOK`) |
| `TypeCorrect` | ConsumerGroupProofs | with the sessions of the replicas and the partitions' offsets (`GroupInv`, below) |
| `VanishingNothing` (`NothingVanishes`) | RetryExecutorProofs | inductive with `DoneIsSettled`: a member says it is done only when its record is settled or republished *behind* it |
| `DeadLettersAreEarned` (`DeadLetterMeansExhausted`) | RetryExecutorProofs | under `OneFallibleGroupPerEvent`, with `RetryTrail` (every header count below a record's own was a failure before) and `FailedAttempt` |
| `ExecutorImplementsAtLeastOnce` (`ImplementsAtLeastOnce`) | RetryExecutorProofs | step simulation: one lemma for each way a step can change the two abstract variables, and one step per action; rests on `NothingVanishes` |
| `RetryStormIsBounded` (`RetriesAreBounded`) | RetryExecutorProofs | under `OneFallibleGroupPerEvent`, with `StormInv` (below) |
| `HonestLedger` (`LedgerIsHonest`) | PaymentServiceProofs | inductive with what a replica about to record has published (`HonestInv`) |
| `VanishingNothing` (`NothingVanishes`) | PaymentServiceProofs | inductive with what a replica about to resolve has answered (`VanishInv`) |
| `PaymentIdsTellOneStory` (`PaymentIdsAreUnambiguous`) | PaymentVerdictProofs | ids are fresh: no two replicas are about to publish under one id (`PaymentIdsInv`) |
| `OneVerdictPerOrder` (`OneVerdict`) | PaymentVerdictProofs | `VerdictInv`: of an unexposed order, only the owner is in the charge window, what it found in the table still holds, and every verdict is recorded or in the owner's hands |
| `ApprovalIsFinal` (`ApprovalStands`) | PaymentVerdictProofs | from `VerdictInv`: whoever is about to write a row found none that was approved |
| `ChargesAreBounded` (`OneChargePerFault`) | PaymentVerdictProofs | `ChargeInv`: every fault, and the order itself, pays for one hazard (below) |
| `PaymentImplementsAtLeastOnce` (`ImplementsAtLeastOnce`) | PaymentServiceProofs | step simulation, with `VanishInv` for the step of the position |
| `NoOrphanEvent` (`EventsAreBacked`) | OrderServiceProofs | inductive with the row's and the request's agreement on the eventId (`BackedInv`) |
| `CopiesBounded` (`CopiesAreBounded`) | OrderServiceProofs | while publishing, fewer copies than `(attempt - 1) * sends + send` (`BoundInv`) |
| `NoSilentPending` (`PendingMeansUnderway`) | OrderServiceProofs | inductive as stated |
| `StatusEarned` (`StatusIsEarned`) | OrderServiceProofs | inductive with "a request in its catch block has used its attempts" (`EarnedInv`) |
| `OrdersStayDecided` (`NeverReopened`) | OrderServiceProofs | a request that is still to write its pending row finds none (`NoRowYet`), and no other save writes that status |
| `CausalChainHolds` (`CausalChain`) | FulfilmentProofs | every step makes at most one envelope, justified by the record in hand or by the published `send` in memory (`HeldOK`), and topics only grow |
| `StatusHonest` (`StatusFollowsVerdict`) | FulfilmentProofs | from `CausalChain`: a `notification.sent` goes back over three causes to the payment |
| `FaultsAtMostDouble` (`EachFaultAtMostDoubles`) | FulfilmentProofs | `DoublingInv`, on top of the chain of causes (below) |
| `OrdersHaveOneReplica` (`OneReplicaPerOrder`) | ConsumerGroupProofs | from `GroupInv`: a busy member of the group owns the partition of its record, and an expelled one has overstayed |
| `ExpulsionIsForeseeable` (`SettingsTellExpulsion`) | ConsumerGroupProofs | `Foreseen`: what a replica has waited is at most the waits of the phases its record went through, because a handler only sleeps when an attempt is left and every record starts at most one interval after a heartbeat; an expelled member has overstayed (`GroupInv`) |
| `NothingCommittedIsLost` (`NoLossOnceCommitted`) | ConsumerGroupProofs | from `GroupInv`: committed offsets are behind the position, so only a start without an offset can jump |
| `TypeCorrect` | IntakeProofs | with `IntakeInv`; the sum of an order's items is a number (`SumOfLineItems`) |
| `StrandedOnlyByBlanksAndSize` (`OnlyTheseAreStranded`) | IntakeProofs | `OrderTrail`: an event on the wire was made of a body the pipe accepted, so the parser's checks reduce to two |
| `RefusedOnlyByBounds` (`OnlyBoundsRefuse`) | IntakeProofs | a quantity, a price and a sum the pipe accepted break none of the other rules; the sum of the wire is the sum of the items |
| `ApprovedKeepsBounds` (`ApprovedWithinBounds`), `SettingsDecideVerdicts` (`SettingsDecide`) | IntakeProofs | `JudgeTrail`: an approval had no refusing rule and a draw outside the failure rate, under the resolved environment |
| `VerdictsReachTheirReaders` (`VerdictsAreUnderstood`) | IntakeProofs | `VerdictTrail`: every verdict is one of the two envelopes payment-service makes, and each reader parses those as the catalog says |
| `AnswersAreRight` (`AnswersTellTheRoutes`), `PoliciesAreLayered` (`PolicyIsLayered`) | IntakeProofs | case analysis over the catalog and over the contents of the layers |

`GroupInv` is `TypeOK` with three facts the type invariant does not carry.
`Session`: a busy member that is still in its group owns its record's partition,
at the offset after the position, and an expelled one was silent for a session
timeout. `OffsetsKept`: committed offsets are not ahead of the position, and
nothing exists in a partition the topic does not have. A rebalance keeps `Session` because
it waits for every member in the group to be idle.

The three bounds that count need an invariant in which every fault is spent on
something.

* `StormInv` counts the copies of an event per header count `c`. A copy at `c + 1`
  was republished from one at `c` its group was then through with. Copies at
  `c + 1` plus copies at `c` still waiting are therefore at most the copies at
  `c` plus `ReplaysOf(c)`, what the faults so far let the group do again. With
  `copies(c) <= Pascal[f][c]` Pascal's rule gives the same for `f + 1`, and the sum
  over `c` is the bound.
* `ChargeInv` adds up the charges made, the replicas that lost the partition and
  may still charge the order or overwrite its approved row (`Zombies`), and the
  charge the owner may still make (`Unsettled`). The sum starts at one, no step
  raises it, and a fault raises it by at most one.
* `DoublingInv` gives every order five shares, one for each stage from the record of
  the payment to `notification.sent`: what exists there, and what open records
  may still cause there. But for the one publication of the verdict, a step
  without a fault raises no share. A crash reopens at most the records of one
  stage, which are themselves a share, so that it at most doubles the shares
  after. Its other half says that a `payment.processed` has no cause and that only
  paid orders cause the rest.

Induction over data cannot be cited from the library here (its theorems take a
predicate as a parameter), so `CountingProofs` has it in a form the provers can
use: induction over a *set* of numbers (`Induction`), from it the existence and
the equation of a function defined by recursion (`Recursion`), and from that the
rules of `PowerOfTwo` and `Pascal`. `IntakeProofs` treats the sum over an order's
items, a fold, in the same way (`SumExists`, `SumOfLineItems`).

Assumptions are those of the `ASSUME`s (`RetryAssumption`, `PaymentAssumption`,
`OrderAssumption`, `FulfilmentAssumption`, `GroupAssumption`, `IntakeAssumption`:
types of the constants, and an order id is neither empty nor blank) and, stated in the theorem:

* `DeadLettersAreEarned` and `RetryStormIsBounded`: `OneFallibleGroupPerEvent`;
* the theorems of ConsumerGroupProofs: `WaitsAreNatural`: the session timeout is
  a positive number, the heartbeat interval is a natural number below it, and the
  gateway's delay, the backoffs and the waits of a publish are natural numbers;
* `ExpulsionIsForeseeable`: also `BudgetsAreIntegers`, no fractional `maxAttempts`;
* `OrdersHaveOneReplica`: all replicas have the same group id, which is what
  `docker-compose.yml` sets and `consumer_group` checks `ResolveConsumerGroup` for.

In particular `maxAttempts` is a natural number, and in `ConsumerGroup` any
integer: the code also accepts a fraction from the environment.

Every invariant and every action property of the runs has a theorem. Only
model-checked: the liveness properties (`EventuallyDrained`, `EventuallyAnswered`,
`OrdersAreDecided`, `EventuallyCompleted`, `EventuallyConsumed`), since fairness and
`ENABLED` are outside TLAPS' reach here; the five violations are shown by TLC's
counterexamples. No module needs a `RECURSIVE` operator.

## 5. What is not modelled

* Wording of logs and responses, the formats of ids and timestamps (their
  producers generate them), binary fractions in amounts and in environment
  variables, the broker's replication.
* Dependency injection, bootstrapping and the database drivers.
* `handleOrderCancelled` of stock-service, which would release stock: no service
  publishes `order.cancelled`. The handlers of it elsewhere only log.
* `waitForRetryReady`: `retryAt` is the time of the republish, which comes after
  the sleep, so the wait is never positive.
* The scripts that watch a demo (`verify-payment-full-flow.mjs`,
  `verify-payment-consumer-scale.mjs`) and `payment-logs.ts`: they read logs and
  print. `kafka-set-topic-partitions.sh` is modelled by what it does to a topic;
  that under `set -e` it stops at the first topic which already has the count,
  although its header calls it safe to run several times, is not.
* The framework's treatment of an error that escapes a handler is not in this
  repository; the models allow both known outcomes (logged and resolved, or
  redelivered).
* One composition of all services in a single module. `OrderService`,
  `PaymentService` and `Fulfilment` overlap at the topics instead: each takes what
  its neighbour is shown to produce (`Downstream`, `PublishVerdict`), duplicates
  included, and no property of a stage depends on more. Together the instances
  are beyond what TLC can enumerate with a fault in each stage.

## 6. Plan

The modules were built in the order RetryPolicy, RetryExecutor, PaymentService,
OrderService, Fulfilment, as the retry executor is under every handler, the
charge is the one irreversible effect and the order row is what users see; then
AtLeastOnce with its two refinements, ConsumerGroup, and the data (PaymentRules,
Catalog, Intake); last the counting bounds and their proofs. What could be added:

1. an abstract saga per order (pending, paid, completed or failed) for `Fulfilment`
   to implement, as `AtLeastOnce` is for a single stage, and the proof of that refinement;
2. fractional and negative numbers in `RetryConfig`, once a property depends on them.
