# Verification of the commerce playground

TLA+ models of the parts of this repository that keep state or run concurrently:
the checkout saga, the payment and inventory services it drives, quotes and
carts before it, the transactional outbox and the fulfillment, notification and
order consumers behind it, the price journal, the storefront gateway, the context
that crosses all of them, and the machinery below: background tasks, shared
connections, the start of the stack, migrations and the CLI's trace verification.
TLC checks the models on small instances; TLAPS proves the safety results of
every component, and that both queues implement their abstract specification, for
every instance (section 5 says what is left to TLC).
`PROJECT.json` is the machine-readable index: components, runs, mutants, the map
from definitions to source lines, findings, hazards and theorems.

Paths below are relative to the repository root.

## 1. The system

A web shop written as a distributed system, so that its telemetry has something
to show. A client reaches the **storefront** gateway (Rust), which forwards to
**catalog** (Java, GraphQL), **pricing** (Rust) and **checkout** (Rust).
Checkout runs a saga over **payment** (Java, gRPC) and **inventory** (Rust,
HTTP). A paid order leaves checkout through a transactional **outbox** and
RabbitMQ. **Fulfillment** (Java) consumes the events, changes the order and asks
**notifications** (Rust) to tell the customer. **Orders** (Rust) is a smaller
producer and consumer with an inbox of its own. All durable state is in
PostgreSQL; Redis holds caches; every service may run as several replicas that
share nothing but the database and the broker.

### Inventory of components

| Component | State | Operations | Hard part | Module |
|---|---|---|---|---|
| checkout saga (`services/checkout/src/application.rs`, `infrastructure.rs`) | `checkout_attempts` (status, generation, lease), `orders`, `checkout_payment_reconciliations`, `checkout_compensation_tasks` | claim/reclaim an attempt, create order, authorize, reserve, capture, consume, finalize, compensate, answer; reconciliation worker; compensation worker | calls that time out and take effect later; a reclaimed attempt whose old handler and workers still run; three parties that may end one order | `Checkout` |
| checkout outbox | `outbox_events` (status, attempts, claim token, lease) | enqueue, claim, sweep, publish with confirm, settle, operator replay | a replica dies or is slow between claim and settle; lost confirmations | `Outbox` |
| inventory (`services/inventory`) | `inventory` (on hand, reserved), `inventory_reservations` | reserve, release, consume, reap expired holds | last units; partly reaped orders; stale generations | `Inventory` |
| payment (`services/payment`) | `payments`, `payment_operation_requests`, provider decisions | authorize, capture, void, refund, replay of a request id, pending reconciliation | repeated and reordered calls; late provider decisions; partial amounts | `Payment` |
| fulfillment (`services/fulfillment`) | operation claims, `fulfillment_effects`, the order | claim, process, claim/dispatch/publish effects, complete, retry, dead-letter | cancellation racing fulfillment; at-least-once delivery; lost claims | `Fulfillment` |
| notifications (`services/notifications`) | `notification_deliveries`, attempt log, channel messages | record, claim, dispatch, mark delivered/failed, dead-letter | slow worker and expired lease; lost acknowledgement | `Notifications` |
| orders (`services/orders`) | inbox rows, queue, dead-letter queue | publish, claim, consume, retry, dead-letter, malformed recovery | publish/update/ack are three steps; redelivery with an old body | `OrdersInbox` |
| price journal (catalog, storefront) | prices, journal with identity `sequence`, positions of subscriptions | updatePrice, baseline, LISTEN, replay, emit, reconnect | order of sequences is not order of commits; missed notifications | `PriceJournal` |
| pricing quote cache | a cached quote and its version | lookup, version check, compute, store | version and price are read at different times | `PriceJournal` |
| pricing and its callers (`services/pricing`, quote conversion in storefront and checkout) | `promotions`, quotes in Redis by fingerprint, pending orders | price a request, take the promotion off, answer with the remaining validity, check the answer, place the order, redeem at finalization | two orders for the last redemption; a quote that changes hands between three services with their own checks | `Quoting` |
| carts (`services/checkout/src/api.rs`) | `carts` (customer, session, status), items, orders of a cart | find or create, add, replace, remove, place an order, close at finalization | found first and locked later; one cart per session whatever its status | `Carts` |
| storefront gateway (`services/storefront`) | deadline of a request, hop timeouts, the pricing channel shared by all requests | twelve operations: check, connect, send, read, answer with a category | an answer that is a timeout while the work goes on; repeats that overtake | `Gateway` |
| context propagation (`libs/playground-telemetry`, all services) | baggage, W3C carrier in headers and in rows | extract, validate, clean, resolve tenant and session, inject, store, read back | every service has rules of its own for the same carrier | `Propagation` |
| background tasks (every `main.rs`, subscription and stream registries) | registered tasks, the cancelled flag, the drain deadline | spawn, cancel, take, join, abort, exit | a spawn between the signal and the taking of the list; tasks that hang | `TaskRegistry` |
| shared connections (RabbitMQ in checkout, Redis in pricing) | the connection in place and its generation | reuse, connect, fail, report, supervise | a late report about a connection that was replaced | `SharedConnection` |
| Compose stack and `verify_stack` (`cli/src/task_commands.rs`) | containers, health verdicts, what services noted about their dependencies | start in order, answer readiness, check, notice, verify | verdicts and notes that are old; services that wait for one another | `Stack` |
| migrations (`cli/src/task_commands.rs`) | schema, `schema_migrations`, advisory lock | wait, lock, apply, record, verify | several migrators, one of which breaks off | `Migrations` |
| trace verification (`cli/src/commerce_verify.rs`) | stored spans, the walk, the deadline | fetch, analyse, check the analytics row, retry | the graph is read while it is written | `TraceVerify` |

Not modelled, with the reason in `PROJECT.json`: the catalog product cache and
GraphQL reads, the analytics consumer (same claim protocol as fulfillment), the
operational replay endpoint, recommendation's stateless call (its readiness is in
`Stack`), exporters and log setup of the telemetry library, the scenario runner,
the load generator, the clients and generated code. The scenario runner and the
load generator are long scripts of requests with expected answers; they keep
nothing between requests, so a model of them would repeat the services' models
as a client.

### How the components interact

* checkout → payment, inventory: remote calls with deterministic operation ids.
  In `Checkout` the two services are one record `ext` whose transitions
  (`Effects`, `Accepted`) abstract `Payment` and `Inventory`: a repeated
  operation id is answered from the stored answer, an inventory call is fenced
  by the generation.
* payment → checkout: the payment worker requeues the reconciliation job of a
  pending payment when the provider decides (`ProviderDecides`, `Requeued`).
* checkout → outbox: `finalize_order` inserts the event in the transaction that
  marks the order paid (`Enqueue` in `Outbox`, `Finalize` in `Checkout`).
* outbox → fulfillment: at-least-once; `Fulfillment` lets every message be
  delivered again until it is acknowledged, in any order.
* fulfillment → notifications: an HTTP request that may be repeated;
  `Notifications` records requests once per event key.
* storefront → pricing, checkout: in `Gateway` the callee keeps an outcome per
  key, which is what `Checkout` does with an attempt; in `Quoting` the three
  services' checks of one quote are in one module.
* carts → checkout: `PlaceFromCart` and `FinalizeCart` of `Carts` are the two ends
  of the saga, whose middle is `Checkout`.
* every service → every service: `Propagation` follows one request from its door
  to its last hop.
* catalog → storefront, pricing: `LISTEN/NOTIFY` plus replay of the journal; the
  largest sequence is the version of a quote.

## 2. What makes each part correct

* **Checkout**: an order is paid only for captured money and consumed stock; an
  old generation can no longer decide anything; a recorded answer stands; jobs
  and tasks end.
* **Outbox**: published means routed; the number of copies is bounded by the
  claims; a running lease is exclusive; every event settles.
* **Inventory**: the ledger balances with the holds; units are conserved; never
  oversold; an order is consumed as a whole; holds of dead checkouts end.
* **Payment**: balances equal the succeeded operations; statuses follow from the
  balances; one active payment per order; answers agree with the payment.
* **Fulfillment**: a cancellation is final: it closes the rows of the fulfillment,
  and no thread that it overtook passes the validation of an effect (one that has
  passed it before still dispatches, section 7); effects are sent a bounded number
  of times; an acknowledged delivery was handled; every delivery
  settles.
* **Notifications**: delivered means acknowledged by the channel; calls stay
  within the budget; every delivery ends.
* **Orders**: the attempt budget is never reset by a redelivery; no two claims
  have the same number; no event is lost; every event settles.
* **Prices**: a subscription skips no change, and a cached quote is served only
  with current prices, except where changes of two SKUs were committed against the
  order of their sequences (section 7).
* **Quotes**: what pricing answers is balanced and acceptable for the request it was
  computed for, which is the caller's or one with the same hash (section 7); a
  promotion gives no more discounts than it may.
* **Carts**: a cart is paid for once; a checked-out cart never changes again.
* **Gateway**: what a client that names its operation is told is what happened,
  late calls included.
* **Propagation**: every hop acts for the tenant the request was admitted for; a
  carrier that was let in is readable at the next hop (it is not, section 7).
* **Tasks, connections**: no task outlives a shutdown, and a shutdown ends unless a
  client holds a quote stream open without reading (section 7); a working
  connection is not thrown away, and a lost one comes back.
* **Stack, migrations**: a verified stack is ready, the stack comes up by itself; a
  file takes effect once and a successful migrator leaves a complete schema.
* **Trace verification**: no wrong or unfinished run passes, no complete one fails
  unless a delivery was deferred (section 7).

`PROJECT.json` lists the hazards behind these properties with their lines.

## 3. Modules

Conventions shared by all modules:

* One database transaction is one action, one remote call is one action with
  the fence checks around it. Between them everything may interleave.
* Time is a Boolean: a lease is live or has run out. A lease can run out at any
  moment, also under a worker that is still busy, which covers every clock.
* Fresh tokens (UUIDs) are represented by a number of the row that grows with
  each claim (`attempts`, the generation); that number is used once, so it
  identifies the claim as the token does.
* A crash forgets a process's local variables and keeps the rows.
* A call that fails may have taken effect, may take effect later, or never.
* Operators marked `Mutant` are plausible wrong versions of the operator that
  follows them. They are not used by the specification; they show that the
  properties can fail.

| Module | Contents |
|---|---|
| `Outbox` | `row`, `replays`, the publisher loops `pub`, the messages on the `wire` and those `delivered`. `Claim`/`Sweep` = `claim_outbox_event`; `Send`/`Answer`/`ConfirmFails` = `publish_outbox_message`; `Settle` = the two settling updates of `publish_one_outbox`; `Replay` = `replay_failed_outbox_event`. |
| `OutboxProofs` | inductive invariants, theorems, refinement of `LeasedDelivery` |
| `Inventory` | `onHand`, `reserved`, the reservation of each line, the fence of each request. `ReserveNew`/`ReserveReleased`/`ReserveAgain` = `reserve`; `Release`; `Consume` = all lines of an order, missing holds taken anew (`Recoverable`); `Reap` = the reaper's batch. The fence actions are the checkout service. |
| `Payment` | payments, stored operations, provider decisions, the waiting checkout. One action per gRPC method of `JdbcPaymentStore`, `Refuse` for stored refusals, `Reconcile` for the worker. |
| `Checkout` | attempt, order, reconciliation job, tasks, the remote state `ext`, calls in flight `late`, and a program counter per actor. Handlers, reconciliation workers and compensation workers share the saga steps (`Reserve`, `Capture`, `Consume`, `Finalize`, `Release`, `Undo`, `Close`), as the code shares its functions. |
| `Fulfillment` | claim per operation, the order's status, effects with claim and version, listener threads, deliveries. |
| `Notifications` | delivery rows, attempt log, channel acknowledgements, workers. `Record` = `record_delivery`; `ClaimNext`, `ReclaimExhausted`, `Dispatch` (`process_job`), `MarkDelivered`, `MarkFailed`, `Quarantine` = the delivery worker. |
| `NotificationsProofs` | inductive invariants, theorems, refinement of `LeasedDelivery` |
| `OrdersInbox` | queue, inbox rows, dead letters, consumers (prefetch 1). |
| `PriceJournal` | open transactions, journal, prices, subscription tasks, quote cache, pricing calls. |
| `LeasedDelivery` | the abstract specification of a table of leased deliveries: accepted once, taken by one worker at a time, no more copies than takes, delivered only after a copy left, ended for good unless an operator reopens it. `Notifications` and `Outbox` implement it; `PromisedState` and `Promise` are the mappings. |
| `Quoting` | the promotion row, the price book, quotes on the Redis `shelf`, the buyers. `Priced`, `promotion_discount`, `ComputedQuote` = pricing's calculation; `stable_request_fingerprint` = the base-31 fold over the bytes of the items (`ItemText`, `HashOf`, `TextHash`), wrapping at `HashModulus`; `QuoteHit`/`QuoteMiss`/`QuoteRefused` = the gRPC method; `validate_quote_response`, `try_from_proto` = the receivers; `PlaceOrder`, `CaptureOrder`, `FinalizeQuoted` = checkout. |
| `Carts` | cart rows with their locks, requests, orders. `AddFind`/`AddItem`, `EditFind`/`EditItem`, `CheckoutFind`/`PlaceFromCart`, `FinalizeCart`: each request in two steps, before and under the row lock. |
| `Gateway` | a request per client, over GraphQL or REST, with or without a session, the pricing channel cell, calls on the wire, the outcome per key downstream. Time passes only when no timer is due. |
| `Propagation` | one journey: context, carrier, and the tenant each hop acted for. One action per hop. |
| `TaskRegistry` | tasks, registry and its lock, clients that have stopped reading (`stalled`), the shutdown as a sequence of steps. |
| `SharedConnection` | both connections with generation and lock, the callers. |
| `Stack` | containers, verdicts, notes, `compose up`, `verify_stack`. Readiness answers are operators over the state of the moment. |
| `Migrations` | schema, recorded versions, lock, migrators. |
| `TraceVerify` | exported spans with at most one fault, or one deferred delivery (`Sender` = `OrderEventPublisher.defer`); a consumer is a child of the producer (`Received` = `startConsumerSpan`) unless its trace was started anew (`Restarted`); the walk over linked traces, the analysis as operators over the fetched spans. |
| `CheckoutProofs`, `PaymentProofs`, `FulfillmentProofs`, `OrdersInboxProofs` | inductive invariant and theorems of the module they are named after |
| `PlatformProofs` | the same for `PriceJournal`, `TaskRegistry`, `SharedConnection`, `Stack` and `Migrations` |
| `RequestPathProofs` | the same for `Inventory` (with the arithmetic of sets of lines), `Propagation`, `Quoting`, `Carts`, `Gateway` and `TraceVerify` |
| `MCRequestPath`, `MCPlatform` | six parts each that share no state. A behaviour picks one part and takes only its steps, so TLC explores the sum of their states in one run. |
| `MCCheckoutWorkers` | `Checkout` with one kind of worker awake at a time |
| other `MC…` | constant values for TLC |

## 4. Runs

`tlc -workers 2 -config X.cfg M` in this directory. Every run
finishes within about two and a half minutes; `checkout_reclaim` (two million
states) takes longest.

| Run | Instance | Shows |
|---|---|---|
| `checkout_reclaim` (`MCCheckout.cfg`) | two generations, one reconciliation worker with two attempts, one fault | `PaidOrderIsBacked`, `AnswerMatchesOrder`, `StoredAnswersStand` |
| `checkout_workers` | one generation, a reconciliation or a compensation worker, two faults | `ReconcilerDrains`, `CompensatorDrains` |
| `checkout_forgotten` | two generations, no fault | **violation** of `ChargeNeverForgotten`, see section 7 |
| `outbox` | one event, the code's three attempts, two replicas, one replay | `LiveClaimIsExclusive`, `OutboxKeepsPromise` (refinement of `LeasedDelivery`), `EveryEventSettles` |
| `payment` | one order of two units, two authorize ids, three operation ids | `OneActivePayment`, `BalancesAddUp`, `AnswerAgreesWithPayment` |
| `fulfillment` | a fulfillment and a cancellation on two threads, one fault | `CancellationIsFinal` |
| `fulfillment_settle` | two deliveries of one operation, two threads, a crash or a fault | `AckedWasHandled`, `DeliveriesSettle` |
| `notifications` | two keys, conflicting requests, two workers, one crash | `DeliveredIsAcknowledged`, `QueueKeepsPromise` (refinement of `LeasedDelivery`), `EveryDeliveryEnds` |
| `orders` | a good, a poison and a malformed event, two consumers, two faults | `NothingLost`, `EveryOrderEventSettles` |
| `request_path` | *inventory*: two requests, three lines, two stock rows with fewer units than all lines ask for, two generations; *propagation*: every combination of door, tenant, session, trace and baggage; *quotes*: two buyers, seven requests, two of them with one hash, three promotions, one price change; *carts*: two customers, two sessions, three requests; *gateway*: two clients, every operation sent up to twice, one of them over REST without a session, a request timeout of 3 and a hop timeout of 2; *verifier*: two deliveries, thirteen kinds of run | `StockIsSound`, `OnlyCurrentGenerationWrites`, `ExpiredHoldsEnd`, `OneTenantAllTheWay`, `QuotesAreAccepted`, `DiscountsWithinBudget`, `OnePaidOrderPerCart`, `CheckedOutIsFrozen`, `ToldOutcomeStands`, `PassedRunIsSound`, `CompleteRunPasses` |
| `platform` | *price*: two SKUs, two writers, a catalog subscription of one SKU and a storefront subscription of the tenant, one lost connection; *quote cache*: two quoters over the same journal; *registry*: two streams, one of them held open by a client that may stop reading, a worker; *connection*: two callers of two calls, two drops; *stack*: seven containers, one outage; *migrations*: three files, two migrators, three breaks or restarts | `NothingSkipped`, `EveryChangeDelivered`, `ServedQuoteIsCurrent`, `NoTaskOutlivesShutdown`, `ShutdownEnds`, `WorkingConnectionStays`, `ReconnectsInTheEnd`, `VerifiedStackIsReady`, `ComesUpInTheEnd`, `MigratedSchemaIsComplete` |
| `carrier_refused` (`MCPropagation.cfg`) | the requests of *propagation* | **violation** of `CarrierCrossesEveryHop`, see section 7 |

### Checks on demand

The modules state more than the runs check: the `TypeOK` of the older modules, the parts of
`StockIsSound` and `BalancesAddUp`, `PublishedWasRouted`, `CopiesWithinBudget`,
`CallsWithinBudget`, `OutcomeIsFinal` (implied by the two refinements),
`ConsumedAfterCapture`, `OldGenerationsRetired`, `CopiesBounded`,
`CancelledRowsClosed`, `BudgetNotReset`, `ClaimsDistinct`, `OrdersAreFound`, `AnsweredInTime`, `SettledPaymentsStand`, `RemoteOutcomesStand`. They
hold on the instances above; add the name to the run's cfg to check it again. All are
also proved (section 5; the `TypeOK` of `PriceJournal` as a part of its invariant),
and the proof modules state the types of the other modules.

### Why the bounds are enough

The races in this code are between *one* owner and *one* intruder of the same
row: an old and a new generation, a slow holder of a lease and the next one, a
first and a repeated call. Two of each show them, and rows of different orders,
events or keys do not touch each other except through the stock, where
*inventory* has two requests. For safety the argument is not needed: the proofs
cover any number.

* `MaxGeneration` 2 (checkout): one reclaim. A third generation meets the second
  as the second meets the first, and `StoredAnswersStand` and
  `OldGenerationsRetired` relate neighbours.
* `MaxReconcile`, `MaxCompensate` 2: a first attempt, a retry and exhaustion.
  The code's limits are larger, and no branch depends on anything but the
  comparison with the limit.
* `MaxFaults`: each fault is a lost call, a database error or a crash; leases
  run out any number of times without counting as a fault (in `OrdersInbox` an
  expiry under a working consumer counts).
* `MaxAttempts` is the code's 3 in `outbox` and `orders`; 2 in `notifications`
  (code: 4) and `fulfillment`.
* `MaxSequence` 2 (price): two open transactions, of one SKU or of two, committed in
  either order, a gap by rollback, one change before and one after a baseline.
* `Quoting`: amounts up to 20 stand for 32 bits (`AmountLimit`), so that a total
  overflows with three items; `QuantityLimit` 3 for the largest quantity and
  `ItemsLimit` 2 for the largest number of items, each with a request beyond it.
  `HashModulus` is 2^16 where the code wraps at 2^64, which TLC cannot multiply; the
  hash wraps, and two of the requests (SKUs AP and B1) collide as they do in 64 bits.
* `Gateway`: with timeouts 3 and 2 a request can spend one hop completely and
  still begin another, and two sends let the second overtake the first.
* `TraceVerify`: `VerifyTime` 1 gives one attempt that fails and another that has
  the last word; two deliveries are what distinguishes a run from a redelivered one.
  `Restarted` {0} starts the analytics trace anew, so that the walk has a second trace.
* `Stack`: the seven containers have every kind of dependency: a job, a note that
  is polled, a note that is set on connecting, and two levels of asking. One outage
  meets every moment of `verify_stack`.
* `Migrations`: two files that build on the first, one of which is not among those
  that `postgres_verify` looks for.
* The runs say `CHECK_DEADLOCK FALSE` where the system may come to rest: all
  rows settled and no bound left.

### Fairness

* Worker loops (`outbox`, `notifications`, reconciliation and compensation
  workers, the reaper) are `loop { …; sleep }` tasks of every
  replica: weak fairness of each worker's step. A crash is never forced, and a
  crashed worker's successor runs the same loop.
* Leases run out: weak fairness of the expiry of a row whose lease nobody
  renews. It is time passing.
* Listener threads: weak fairness of a thread that has a delivery; strong
  fairness of a delivery in `Fulfillment`, because the broker keeps redelivering
  an unacknowledged message and a thread becomes free again and again.
* Consumers of `OrdersInbox`: weak fairness of a consumer's step, which includes
  reconnecting.
* Shutdown, tasks that have been told to stop, and the supervisor of the broker
  connection: weak fairness, as steps of a running executor. A task that hangs is
  not assumed to end, and a client is not assumed to read; the drain deadline, once
  the drain has begun, is assumed to pass.
* Stack: Docker restarts containers and repeats health checks, services repeat
  their polls: weak fairness of each. That `compose up` gives up is never forced.
* Nothing is assumed about clients, the provider, faults or price changes.

## 5. Proofs

`tlapm M.tla` checks the eight proof modules. Each `EXTENDS` the module it speaks
of (the last two `EXTENDS` several that share no state), so a theorem is about the
very definitions TLC runs.

**What is assumed.** Only the named assumptions about the constants
(`…Assumption` in the modules), and TLC evaluates each in a run. Most say that a bound is a
natural number or that a limit is positive. The others come from the code:
`QuotingAssumption` is what the CHECKs of the prices and promotions tables
(`deploy/postgres/migrations/001-commerce.sql:83`, `:104`, `:110`) say of a row (no
negative price, a positive discount) and the types of a request's items, `PropagationAssumption`
keeps the names of tenants apart from the model's marks for a missing or refused
one, and `FaultsAssumption` puts a fault into a span whose record can show it.
`CodeAssumption` leaves out one kind of collision: no request with the promotion code has
the hash of one without it for the same items. The texts then differ in the heading
only and 31 is odd, so the hashes of the two headings would have to agree in all 64
bits. Only `PromotionBudgetKept` rests on it; every other collision is in the
model. One theorem has a hypothesis of its own, `CompleteRunsPass`; see below.

**The shape of the arguments.** No property of the list is inductive. A property
speaks of rows; what breaks or keeps it is a process that decided on its step
earlier, from rows that have changed since. So each inductive invariant adds what
every process knows *by standing where it stands*, and what every message or call
on its way carries. It is stable because of what the rows never take back. The
invariants were checked with TLC on the instances of section 4 before they were
proved.

| Module | Theorems | Inductive invariant, and why it is needed |
|---|---|---|
| `CheckoutProofs` | `TypeCorrect`, `PaidOrdersAreBacked`, `StockFollowsMoney`, `AnswersMatchOrders`, `OldGenerationsAreRetired`, `StoredAnswersDoStand`, `RemoteOutcomesDoStand` | `CheckoutInv`. An order is marked paid by whichever actor stands at `finalize`, long after the answers that led it there. `StepOK` says what an actor has earned for the step it is about to take (consumed stock to finalize, captured money to consume, a decided order to answer), `LateOK` the same of calls that were given up and still arrive, `RowsOK`, `TasksOK` and `RepliesOK` which states attempt, order, job and tasks may be in together. `Forward` is what no step takes back (a decided order, consumed stock, an answered capture); a step that goes forward keeps what the other actors have earned. That the remote outcomes stand needs that answer and payment agree (`AnswerAndPayment`). |
| `PaymentProofs` | `TypeCorrect`, `OneActivePaymentPerOrder`, `BalancesExact`, `AnswersAgree`, `SettledPaymentsDoStand` | `IInv`: the types, the sums, the statuses, one active payment, the stored answers, and that an id without an answer has no payment (`UnansweredIsAbsent`). That the balances add up needs the status (which operations are still admitted), and the status needs the balances. A sum is the cardinality of the set of moved units, so it needs no induction. |
| `OrdersInboxProofs` | `TypeCorrect`, `NoEventIsLost`, `RetryBudgetKept`, `ClaimsStayDistinct` | `IInv`: what each step of a consumer says of row and queues (`JobsOK`), one holder per message, and `AllBacked`, which is `NothingLost` with a message *that nobody is about to acknowledge* (`Kept`): without it an acknowledgement could take the last one. `EmittedIsSpent` counts consumptions against claims that are past their work, so a slow consumer's is in the count before it happens. |
| `FulfillmentProofs` | `TypeCorrect`, `AckedMeansHandled`, `CancelledOrdersAreClosed`, `EffectCopiesBounded`, `CancellationStands` | `IInv`: a thread about to acknowledge has a completed operation, one about to publish has sent its effect, its tokens were issued (`JobsOK`, `RowsOK`), no two threads may send under one token (`TokensDistinct`), and copies are counted against tokens nobody will use again (`SentIsSpent`). |
| `OutboxProofs` | `TypeCorrect`, `PublishedRouted`, `DuplicatesBounded`, `ClaimExclusive`, `TerminalRowsFinal`, `OutboxImplementsPromise` | `IInv`: that a row is published only for a routed message is known to the publisher before it is known to the row (`AckedWasRouted`); every busy loop and message carries a claim within the budgets spent so far (`LoopsInBudget`, `WireInBudget`). The refinement adds `RInv`: the token of every loop, message and copy was *issued* by a claim made so far (`Issued`), and there are as many tokens as claims. |
| `NotificationsProofs` | `TypeCorrect`, `DeliveriesAcknowledged`, `OutcomesFinal`, `QueueImplementsPromise`, `ChannelCallsBounded` | `IInv`: a worker's attempt is one that the row has issued (`AttemptIssued`, without which an old worker's mark could hit a later attempt), past its dispatch the acknowledgement is stored (`DispatchedIsStored`), a row it found exhausted is closed. The refinement adds `RInv`: only a row in processing has a lease, and calls plus claims that have not called yet (`Pending`) stay within the attempts (`CallsAccounted`). |
| `PlatformProofs` | `NothingIsSkipped`, `CachedQuotesAreCurrent`, `ShutdownLeavesNothing`, `WorkingConnectionKept`, `PassedStackIsReady`, `MigratedIsComplete` | *prices*: an open transaction has its SKU to itself and a sequence above every committed one of it (`SkuIsLocked`), and what is committed up to a subscriber's position is handled, in its batch, or was overtaken (`PositionOK`). A quote's price is the one in force at its version or older than a change that was overtaken (`QuotesDated`). *registry*: a live task is registered or taken by the shutdown. *connection*: a caller reports only a generation on which a call failed (`ReportsFailed`). *stack*: a service that answered after the verdicts were read stays ready while nothing goes down (`AnswersStand`). *migrations*: only the holder of the lock is inside a file, a file is applied exactly when it is recorded, success was verified. |
| `RequestPathProofs` | `TypeCorrect`, `LedgerAlwaysBalances`, `StockAlwaysConserved`, `NeverOversold`, `OrdersConsumedTogether`, `StockAlwaysSound`, `StaleGenerationsFenced` (inventory); `OneTenantEverywhere`; `PromotionBudgetKept`, `EveryQuoteAccepted`; `OnePaidPerCart`, `CheckedOutStaysFrozen`, `OrdersStayListed`; `ToldOutcomeIsFinal`, `EveryRequestAnsweredInTime`; `VerifierIsSound`, `CompleteRunsPass` | *inventory*: three ledger equations that need one another: a release does not make `reserved` negative because the ledger balances, a consume not `onHand` because nothing is oversold. `Total` counts the units of a set of lines, so sums are cardinalities of disjoint sets. *propagation*: carrier and context at every hop name the tenant of the hops before (`CarrierNames`, `ContextNames`), and what is stored can be read back (`NotifyIsDurable`). *quotes*: a discount, cached, offered or ordered, belongs to a request with a code while the promotion exists (`ShelfOK`, `DiscountsEarned`), so finalization counts it (`DiscountsCounted`). A quote is accepted because a reply, fresh or cached, has one line for each item of some request with the fingerprint that found it, totals that are sums of the lines, and a discount no larger than the subtotal (`AmountsInv`). *carts*: what stands after the lock belongs to its holder (`RowsAreLocked`), and a cart with a paid order is closed (`PaidIsClosed`); an order has the session of its cart, and no row is removed or moved to another session (`OrderInItsCart`, `SessionsStay`). *gateway*: what may be on its way and done under the key of a request (`KeyedWork`). *verifier*: an attempt that passed the analysis saw the run and not the fault (`SawTheRun`); an attempt that began after the last span is on its way to all the traces (`WholeInv`, see below). |

**Refinement.** `OutboxImplementsPromise` and `QueueImplementsPromise` say that
both queues implement `LeasedDelivery` for every instance: initial states map to
initial states, every step to a step of the promise or a stutter. Claims that a
sweep ends, replays, crashes and late settlements are mapped one by one.

**Overtaken changes.** `NothingIsSkipped` and `CachedQuotesAreCurrent` are proved for any
SKUs, filters, writers, subscribers and calls. Both speak of changes that were *overtaken*:
committed after a change of another SKU with a larger sequence. The history variable
`overtaken` records them at the commit. The row lock of the variant keeps the changes of
one SKU in order (`SkuInOrder`, part of `NothingSkipped`), so a subscription of one SKU
misses nothing. A subscription of the tenant misses only changes that were
overtaken, and a stale quote is served only after one. That both happen is shown by
`MCPlatformTenant.cfg` and `MCPlatformStale.cfg` (section 7).

**Colliding fingerprints.** `EveryQuoteAccepted` says that whatever the cache returns is a
sound quote of a request with the same hash, with the fold as it is in the code. That it
is the caller's own request is not true, and `MCRequestPathDeviations.cfg` has the trace.

**The search for the traces.** `CompleteRunsPass` says that an attempt which starts once
all spans of a run are stored passes when nothing is wrong with them and no delivery was
deferred, whether the consumers continue the producer's trace or start their own. Two searches are
behind it. `fetch_trace_graph` walks over the links between traces, one trace per step of
the model; `WholeInv` keeps `Walk` through it: the attempt is still at the anchor, or it
has scheduled every trace and each span is fetched or in a trace still pending. Then
`analyze_details` searches breadth-first over parents and links of the spans, a
recursive function of the number of rounds. That it reaches all spans is no induction
over data here: from the root everything is within three rounds (`RoundsOfTheSearch`), a run
has at least three spans (`EnoughSpans`), and that the set stays the same in all later
rounds follows with a least counterexample (`LeastNatural`, in `SearchEnds`). The hypothesis
`RunFits` is that all the traces the run may have, one per delivery, the order's and the analytics one,
stay within `MAX_TRACES` (`cli/src/commerce_verify.rs:13`, 32). Beyond it the code
reports an error, and the property is false.

**The contract between the saga and its services.** `Checkout` keeps payment and
reservations of an order in one record, `ext`, and what it says of the two services is
an abstraction of `Payment` and `Inventory`. The theorems state what that abstraction
rests on from both sides: the services keep settled payments, stored answers
and consumed reservations as they are (`SettledPaymentsDoStand`, and the last part of
`StaleGenerationsFenced`), and no step of the saga needs them to do otherwise
(`RemoteOutcomesDoStand`). It is not a refinement: `Payment` also has partial captures and refunds,
which the saga never asks for.

**What the proofs changed in the models.** A few `CASE` expressions had
overlapping arms, of which TLC takes the first and logic leaves the choice open;
they are `IF` now. `Propagation` updates baggage with operators of its own
(`Only`, `Overlay`) in place of those of the TLC module, whose definitions the
prover does not expand. `Quoting` adds amounts up as the number of their minor units
(`MinorUnits`) in place of a fold, whose value for every input would need an
induction. The assumptions above were made explicit.

**Only model-checked.**

* Liveness under fairness, and `ENABLED`: out of the prover's reach in this version
  (`EveryEventSettles`, `ExpiredHoldsEnd`, `ReconcilerDrains`, `CompensatorDrains`, `DeliveriesSettle`, `EveryDeliveryEnds`,
  `EveryOrderEventSettles`, `EveryChangeDelivered`, `ShutdownEnds`,
  `ReconnectsInTheEnd`, `ComesUpInTheEnd`).
* The two violations, which are traces.

## 6. Mutants

Every property of every passing run has a mutant: a definition of the model is
replaced by a wrong version a programmer could have written (a lease that is
never reclaimed, a fence without its token, a row lock left out, an off-by-one of
a budget), and TLC finds the property violated. `PROJECT.json` lists them.

## 7. Where the code disagrees with its documentation

`checkout_forgotten`: VERIFICATION.md:139-143 promises that captured payments are
refunded by the recovery path. A handler captures and dies. The next generation
reclaims the attempt and fails while it validates the catalog or asks for the
quote, before it looks at the payment. The attempt is recorded as failed, which
no later request reclaims; there is neither a task nor a job, the order stays
pending and the capture is never refunded. `ChargeNeverForgotten` states the
promise and TLC shows the trace.

`carrier_refused`: TOUR.md:26 says "W3C context and business baggage cross every
hop." The propagation library accepts a baggage property without a value
(`libs/playground-telemetry/src/propagation.rs:1001` tests it with `sampled`), and
checkout stores the carrier of such a request by those rules and its relay sends the
stored header with the event (`services/checkout/src/infrastructure.rs:2001`).
Fulfillment's `RabbitTraceContext.parseBaggage` refuses a property without a value, and
the event of the paid order is dead-lettered. Its limits of size and number are smaller,
too. TLC's trace goes from the storefront through checkout, the stored row and the relay
to fulfillment. The orders service is not affected: its publisher validates by the rules of
its consumer (`services/orders/src/messaging.rs:131`) and answers an error.

### Known deviations

The same models show more. Ten have a configuration. They are kept beside the runs and
reproduce each trace in seconds (`tlc -config <cfg> <module>`; with `-continue` for the two
of `MCRequestPathDeviations.cfg`).

| Configuration | Property | What happens |
|---|---|---|
| `MCCheckoutReplay.cfg` | `PaidOrderHoldsFunds` | Operation ids depend on the request only ("replay is safe", `services/checkout/src/application.rs:2690`). Generation 1 captures, is refused the stock, refunds and dies before it cancels the order. Generation 2 repeats authorize and capture, gets the stored successes, consumes the stock and marks the order paid, with a refunded payment. Fulfillment, which looks the payment up, refuses such an order. |
| `MCCheckoutConsumed.cfg` | `ConsumedOrderNotRefunded` | The error of a fence check after a consume that took effect is none of the retryable codes of `is_retryable_inventory_consume_error` (`application.rs:481`), so it counts as refused: the release fails, and the payment of the consumed order is refunded. |
| `MCCheckoutCancelled.cfg` | `CancelledFundsReturned` | The inventory task is committed before the payment task. A compensation worker finishes it in between, sees no other task and cancels the order (`infrastructure.rs:1708`). If the handler then loses its lease, the authorization is never voided. |
| `MCFulfillmentOrphan.cfg` | `CompletedHasSentEffects` | When the dispatch of one effect fails, `onOrder` releases that effect only (`OrderEventConsumer.java:156`). The retry claims it, publishes it and completes the operation; the other effect stays claimed, its claim runs out, and nothing sends it. |
| `MCFulfillmentLate.cfg` | `NothingSentOnceCancelled` | A thread has passed `validateEffectClaim`; the cancellation commits; the thread dispatches the effect (`OrderEventConsumer.java:118-124`). Its mark is refused afterwards, but the downstream service has the effect of a cancelled order. `CancellationIsFinal` is what remains true. |
| `MCRequestPathDeviations.cfg` | `QuotesAreOwn` | The fingerprint is a base-31 fold of bytes (`services/pricing/src/domain.rs:196`), in which SKUs that end in AP and B1 collide, and a hit is not compared with the request. The caller gets the quote of other lines; checkout refuses it (`validate_quote_response`) until the entry expires, the storefront shows it. |
| `MCRequestPathDeviations.cfg` | `DeferredRunPasses` | A redelivery that meets a live claim is published again with the consumer's own context (`OrderEventConsumer.java:84`, `OrderEventPublisher.java:74`). The next consumer span links to a consumer, which the trace verifier refuses in every attempt (`cli/src/commerce_verify.rs:1620`) although the run is complete. |
| `MCPlatformHeld.cfg` | `ShutdownAlwaysEnds` | A quote stream waits in a send that does not watch for the shutdown (`services/pricing/src/api.rs:234`) for a client that does not read, and `main` waits for the server before any drain deadline runs (`services/pricing/src/main.rs:90`): pricing does not stop until the client reads or leaves. |
| `MCPlatformTenant.cfg` | `TenantMissesNothing` | `sequence` is taken at insert and visible at commit; only updates of one SKU are serialized. A subscription to the whole tenant moves past a smaller sequence that commits later (`PostgresPriceChangeListener.java:107`) and never sees it. |
| `MCPlatformStale.cfg` | `ServedPriceInForce` | For the same reason `MAX(sequence)` does not move when the smaller sequence commits, and a quote cached in between is served with the old price (`services/pricing/src/infrastructure.rs:264`). |

Without a configuration, and visible in the models' reachable states: `finalize_order`
refuses an order whose promotion ended after the capture, however often it is
repeated (`Quoting`); a session whose cart was checked out cannot get another cart
(`Carts`); a repeated `addToCart` adds twice (`Gateway`); a migrator that finds the
lock taken may go on without the file, because psql may report `\quit` as success
(`Migrations`, where both outcomes are allowed), and a file that only inserts rows
is then missed by `postgres_verify`.

### Hazards without a property

`PROJECT.json` lists the hazards the runs speak of. These have none, besides the
deviations above:

* A job is processing for the last time when the provider decides, so the payment
  worker's requeue finds no row that waits (`JdbcPaymentStore.java:733`). Reachable in
  `Checkout`; no document bounds this case.
* A permanent error of one event dead-letters the claim of the order, and a later
  correct event under the same key is refused (`FulfillmentRepository.java:183`).
* Effects sent again after a lost claim (`FulfillmentRepository.java:667`) and a
  redelivery with the attempt of the first body (`orders/src/messaging.rs:941`) are
  bounded by `CopiesBounded` and `BudgetNotReset`, on demand.
* The catalog's product cache can be filled with a product read before a price
  change (`ProductController.java:133`), and its subscription may pass events on out
  of order (`:367`); that layer is not modelled.
* The storefront works out the time for the pricing connection before it waits for
  its turn (`storefront/src/application.rs:515`); the middleware bounds the request
  all the same (`AnsweredInTime`, proved).

### Simplifications

* A readiness answer of `Stack` is about one moment, although the service asks its
  dependencies one after the other; pricing's refresh and its note are one step.
* `MCCheckoutWorkers` keeps one kind of worker awake at a time.
* `Propagation` treats the four business fields with a default as one key.
* `TraceVerify` has one notification span, where the verifier looks for at least one
  that fits; names of spans are their roles.
* The items of a cart are one quantity; all quotes are of one tenant and currency.
* `postgres_idempotence`, which migrates a scratch database twice, is not modelled.

One further configuration repeats passing checks on another instance:
`MCCheckoutCompensation.cfg` (two generations and a compensation worker).

## 8. Plan

Order of the work: first the parts that hold money and stock (`Outbox`,
`Inventory`, `Payment`, `Checkout`), then what hangs on them (`Fulfillment`,
`Notifications`), then the independent parts (`OrdersInbox`, `PriceJournal`), then
the edge and the machinery (`Quoting`, `Carts`, `Gateway`, `Propagation`,
`TaskRegistry`, `SharedConnection`, `Stack`, `Migrations`, `TraceVerify`) and the
abstract `LeasedDelivery`. These are written, and every safety property that a run
checks is proved. What remains:

1. *Refinement*: the state `ext` of `Checkout` as an abstraction of `Payment` and
   `Inventory` restricted to the calls of the saga (full captures and refunds, one
   authorize id for an order). `OrdersInbox` is *not* a further `LeasedDelivery`: a
   delivery with a newer attempt takes over a claim whose lease still runs, and an
   exhausted event is claimed again until dead-lettering it succeeds. Its own
   theorems say what it does promise.
2. *Model*: the catalog product cache beside `updatePrice`, the analytics
   consumer.
