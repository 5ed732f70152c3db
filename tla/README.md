# Verification of the Sales order service

TLA+ models of the Sales order service (`src/src`), the TLC runs that check
them, and TLAPS proofs about them. Paths below are relative to the repository;
`order-service.ts` and the like are files under `src/`.

## 1. The system

The service is one Node.js process with Fastify in front and MongoDB behind. It
takes orders, asks a Delivery service to ship them, and applies the status
callbacks Delivery sends. All asynchronous work goes through an in-memory queue
store; drains take messages from it, started by a polling timer
(`AUTO_CONSUME_STATUS_QUEUE`) or by debug routes.

| Component | State it keeps | Operations | Talks to |
|---|---|---|---|
| Order repository (`order-repository.ts`) | the `orders` collection, with unique indexes on `id` and `requestId` | `create`, `findByRequestId`, `findById`, `appendStatusEvent`, `updateShipmentMetadata` | MongoDB; one command each |
| Order creation (`order-service.ts` `createOrder`, `POST /orders`) | none of its own | look up the key, replay or refuse, check availability, insert, publish | repository, order-created queue |
| Status updates (`validateStatusUpdate`, `applyStatusUpdate`, `POST /orders/:orderId/status`) | none of its own | validate and enqueue a callback; apply a message | repository, status queue |
| Queue store and consumer (`outbound-event-service.ts`) | one array of messages tagged with a queue name | enqueue, dequeue, clear; `consumeOne` requeues on failure | handlers wired in `plugins/services.ts` |
| Queue workers (`queue-workers.ts`) | two timers | drain a queue until it is empty or a message fails | consumers |
| Debug routes (`routes/debug.ts`) | none | list, clear, drain a queue | store, consumers |
| Shipment scheduling (`handleOrderCreatedEvent`, `delivery-client.ts`, `retry.ts`) | the `shipment` field of an order | request a shipment with timeout and retries, store the metadata | Delivery, repository |
| Rate limiting (`rate-limit.ts`, `rate-limit-store.ts`) | connection flags of the Redis adapter | choose a store, hand out the client | Redis, `@fastify/rate-limit` |
| Payload hash (`hash.ts`), availability (`product-availability-service.ts`) | none | pure functions | |
| Configuration, bootstrap, wiring (`env.ts`, `app.ts`, `server.ts`, `mongo.ts`, `services.ts`) | none after start | | |
| Delivery mock (`delivery-mock/server.js`) | none | answers each POST with a new shipment id | |

What is hard about it:

- **Interleaving at every await.** Requests and drains read an order, wait, and
  act on what they read. `setInterval` does not wait for the previous drain, so
  drains overlap with each other and with the debug route's.
- **Failures between two steps.** An order is stored and then announced; a
  restart in between separates the two. Queues are lost at a restart, orders
  are not. A MongoDB command whose answer is lost may still be applied.
- **Ordering and retries.** A failed message goes to the back of the queue.
  Clients and Delivery retry. Event ids and idempotency keys are all that tells
  a retry from a new request.
- **Liveness.** A message that can never be applied is requeued for ever.

What makes each part correct: a key names one order and one body for ever
(creation); an announced order is shipped, once, and records a shipment that was
made for it, whatever Delivery times out on (shipment); a history is the
lifecycle, each event in it once, and nothing that was accepted is lost or
forged (status updates); each queue is FIFO and independent of the other
(queues); the parts disturb each other in nothing but what each expects (the
whole); retries are counted right, wait no shorter each time, and end (retry);
the text that is hashed tells bodies apart, and nothing of their property order
(hash, which holds with two exceptions, see the violations); the limit is one
limit, a live connection is always offered and a closed one never (rate-limit
store: after a loss that no handler hears of, the client stays offered while it
reconnects). The hazards, with the
lines where they bite and the properties that cover them, are listed in
`PROJECT.json`.

## 2. The modules

| Module | What it is |
|---|---|
| `OrderRepository` | the collection and one operator per MongoDB command |
| `OrderCreation` | `POST /orders`, concurrent requests and faults |
| `IdempotencyKeys` | abstract: a write-once register per key |
| `Shipment` | the order-created queue, its drains, Delivery and its mock |
| `ShipmentLedger` | abstract: shipments made, and the one an order records |
| `StatusUpdates` | status callbacks, the status queue and its drains |
| `OrderLifecycle` | abstract: histories that grow along the lifecycle |
| `SalesService` | the three parts on one collection and in one process |
| `InMemoryQueue` | the one array behind both queues, its client and consumers |
| `FifoQueues` | abstract: an independent FIFO queue per name |
| `Retry` | `executeWithRetry` and the delays |
| `PayloadHash` | `stableSerialize` and the replay check |
| `RateLimitStore` | the store adapter under connection events and restarts |
| `MC...` | the small instances TLC checks |
| `OrderRepositoryProofs` | lemmas about the commands and about sequences used as queues |
| `OrderCreationProofs`, `ShipmentProofs`, `StatusUpdatesProofs`, `SalesServiceProofs`, `InMemoryQueueProofs`, `RetryProofs`, `RateLimitStoreProofs` | the theorems |

`OrderCreation`, `Shipment` and `StatusUpdates` extend `OrderRepository`, and
each has the others as an environment: orders appear in `Shipment` and
`StatusUpdates` (`CreateOrder`), and are announced once in `Shipment`
(`Announce`). `SalesService` instantiates all three on the same variables
`orders` and `announced`, and shows that these environments are all there is.

**Steps.** JavaScript runs to the next await, so one action is what runs between
two awaits that reach the outside world. A MongoDB command takes effect in the
step that issues it; what follows its await is the next step of the same request
or drain, and any other request, drain or fault may come between. An await of
something that is already settled (the availability check, the in-memory send)
ends no step of its own: other code may run there, but none that the result
depends on.

**Order creation.** `create[r]` is the point a request has reached: `"new"`
before the lookup is answered, `"insert"` before `insertOne`, `"publish"` after
it, else the reply (`"mismatch"` and `"unavailable"` are the two 409s,
`"dropped"` a connection lost in a restart). `LookupKey` is `createOrder` up to
the insert, `InsertOrder` the insert with the unique indexes, `PublishOrder` the
publish and the 201. `announced` is what was ever published, in order; the queue
it goes to is in `Shipment`.

**Shipment.** `workerPc[w]`, `workerOrder[w]`, `attempt[w]` and
`workerShipment[w]` are a drain of the order-created queue: `TakeOrder` is
`consumeOne` up to the handler, `LookUp`, `Post` and `SaveMetadata` are the three
awaits of `handleOrderCreatedEvent`, `PostFault` is a failed attempt inside
`executeWithRetry` (which is retried until `MaxRetries` is used up), `Fail` the
catch of `consumeOne`. `Handle` is Delivery: with `keepsContract`, chosen at the
start, it answers a known Idempotency-Key with the shipment it made for it;
without, it is the mock, which makes a new one for every POST. A POST whose
issuer timed out or died is in `strayPosts`, a metadata write in
`strayMetadata`; each lands later or never. `Undeliverable` orders get a final
4xx.

**Status updates.** `callback[c]` and `callbackMsg[c]` are a request to the
status route: `ValidateCallback` is the read and its four outcomes,
`EnqueueCallback` the enqueue and the 202. `drainPc[d]`, `drainMsg[d]` and
`drainVersion[d]` are a drain: `Dequeue` is `consumeOne` up to the handler,
`Prepare`, `AppendEvent` and `Recheck` are the three MongoDB commands of
`applyStatusUpdate` with what follows each, `Requeue` is the catch of
`consumeOne`. `Prepared` is `prepareStatusUpdate`, which route and worker share.
A drain may be idle before any iteration starts; an iteration that finds the
queue empty changes nothing and is no step. `accepted` is a history variable.

**The whole service.** A step is a step of one part with the others' variables
unchanged, except that `PublishOrder` also puts the event into the shipment
queue, and `Restart` is the restart of all three at once. `CreationSees`,
`UpdatesSee` and `ShippingSees` are what a part knows of a document: creation
knows it as it was inserted, the status updates do not know the shipment,
shipment does not know the updates. `ImplementsCreation`, `ImplementsUpdates`
and `ImplementsShipment` say that through these views the service behaves as the
part alone does.

**Queue store.** `messages` is the array; `ConsumeOne` finds the first message
of the consumer's queue and splices it out, `HandlerThrows` appends it again,
`ClearQueue` keeps the others. The modules above have one sequence per queue
instead: `ImplementsFifoQueues` is what allows that.

**Retry.** `halves` is twice `maxRetries` and `base` twice `retryBaseDelayMs`,
because the configuration schema admits fractions, zero and negative numbers for
both; delays are in half milliseconds. `FailWith` is the catch with its two ways
out, `NextAttempt` the end of the delay, `RunOut` the throw after the loop.
`Timer` is what `setTimeout` makes of a delay: whole milliseconds, and one
millisecond of what is less than that or longer than a timer can run.

**Payload hash.** A text is a sequence of tokens, since `JSON.stringify` quotes
every string. `Collation` gives names that `localeCompare` takes for equal the
same place, and the sort keeps those in written order. `SaysTheSame` is written
from what the comments of `hash.ts` promise, not from what the code does: objects
as functions of their names, numbers as numbers. `OrderCreation` keeps of a hash
that it ignores the order of properties; `MCOrderCreation` has TLC compare that
with the text, for its own bodies (`HashIsOfText`) and for all pairs of ordinary
nested ones (`TextsTellRegularBodiesApart`).

**Rate-limit store.** `useRedis`, `warned` and `ready` are the adapter's fields,
`OnReady`, `OnError` and `OnEnd` its handlers, `Start` a process that constructs
the adapter and registers the store it gives (`ChosenStore`). `OffersClient` is
`getClient`. `Request` counts in the store that was registered; one key is
followed for one time window, and a request whose Redis command fails is not
admitted. Redis itself is not restarted. A refused or unresolved address is
reported only while a connection is being made.

**Faults.** `CreateFault`, `WorkerFault` and `DrainFault` are a failing MongoDB
command. When it was a write it is added to the stray writes, from where it
lands later or never: that covers a lost answer, a late command and a write in
flight when the process dies. `Restart` empties the queues, forgets the requests
and drains under way, and leaves MongoDB and Delivery as they are.
`ClearStatusQueue` and `ClearCreatedQueue` are the two DELETE routes.

**Abstractions.** A document has the fields the service branches on; customer,
amounts and timestamps are left out. `randomUUID` returns an id nobody has
drawn. SHA-256 is taken to be free of collisions. Event ids include the
`order-created-<key>` ids the service writes itself, since a callback may carry
such a key. The rate limiter and the schemas appear in a request as replies 429
and 400, given before anything is read.

**Faulty variants.** A definition may have a faulty variant before it: a
plausible bug in the code it models. Nothing in a specification uses it. Each
property of a passing run is violated under one of them, as `PROJECT.json`
lists.

## 3. The runs

| Run | Expect | Shows |
|---|---|---|
| `order_creation` | pass | one order per key, a conflict exactly for another body, one announcement per order and no order without (unless a fault intervenes), for three concurrent requests; creation implements the register |
| `shipment` | pass | an event has one handler and is never lost, an order is shipped once under the contract, at most once more for each fault without it, and shipped in the end; shipment implements the ledger |
| `status_updates` | pass | histories follow the lifecycle, nothing accepted is lost, forged or applied twice, and every accepted status is reached; the pipeline implements the lifecycle |
| `sales_service` | pass | each part behaves in the whole as it does alone, and a created order is shipped |
| `queue_store` | pass | the array implements two FIFO queues; no message lost, doubled, overtaken before its first attempt, or starved |
| `retry` | pass | how often the task runs, which error ends the call, that waits do not shrink, that a call ends |
| `rate_limit_store` | pass | one limit for all instances, a live connection always offered and a closed one never, one loud log line for each outage |
| `create_race` | violation | a 500 for a concurrent retry |
| `stranded_order` | violation | an order that is never announced |
| `poison_status_message` | violation | a 202 that is never persisted |
| `payload_hash` | violation | another body taken for a replay, a reordered one for a conflict |
| `full_jitter` | violation | delays above the exponential they should be drawn from |

**Bounds.**

- `order_creation`: three requests, two keys and three bodies, two that differ
  in property order only, at the availability limit of ten, and one above it.
  Three requests let one lose the race for a key and one come after both. The
  assumption on the hash covers every pair of 201 nested bodies, two levels deep.
- `shipment`: two keys and three order ids (so that at most two orders exist,
  one of which may be the undeliverable one), two drains, one retry, four
  shipment ids. Two faults let a POST be aborted, its retry answered, and a
  metadata write fail or a restart come after that.
- `status_updates`: three callbacks, two drains, three event ids (one of them
  the created-event id), two order ids and one key, so that one order exists at
  most and the other id is always unknown. Two drains and three messages are
  enough for a lost race on the version, a duplicate in two hands, and a message
  that is requeued behind another.
- `sales_service`: two order ids, one key, two requests, one callback, one drain
  of each queue, no retry and one fault of each part, so that a race for the
  key, a replay, a status before the metadata and a late write of each kind
  occur. What needs more actors is checked in the parts.
- `queue_store`: two queues, one with two consumers, three messages of which one
  is poison, two more failures.
- `retry`, `full_jitter`: `maxRetries` from -1 to 5 in steps of a half, base
  delays of -1, 0, 0.5, 1.5 and 2 ms: five retries are enough to reach the cap of
  ten base delays. `TimerMax` is 15 ms, so that one of the caps is more than a
  timer can run.
- `payload_hash`: every pair of 334 objects, two levels deep with up to two
  elements on each, over three names of which two collate alike.
- `rate_limit_store`: two instances with two starts each, a limit of two. The
  run checks no liveness and treats instances alike, so they are symmetric.

`MaxFaults` bounds restarts and failing commands, `MaxStarts`, `MaxFailures` and
`MaxReplays` what their names say. No other run uses symmetry: the liveness
properties would make it unsound. `CHECK_DEADLOCK FALSE` is given throughout:
requests, retries and starts are bounded and nobody has to send one, so a system
may really come to rest.

**Fairness.** `Shipment!Fairness` and `StatusUpdates!Fairness` are weak fairness
of each drain's steps: the poll timer fires again and again (or someone keeps
posting to the drain route), and Delivery and MongoDB answer. `InMemoryQueue`
says the same of consumers and handlers. `OrderCreation!Fairness` is weak
fairness of each request's steps after the lookup: MongoDB answers the insert
and the event loop goes on. `Retry!Fairness` is that the task settles, since its
timeout aborts it, and that timers fire. `SalesService!Fairness` is that of its
parts. Nothing is assumed of clients, of stray writes or of faults; liveness
properties hold in spite of the faults that do occur.

**What the violations show.**

- `create_race`: two requests with one key and one body both find no order; the
  second insert fails on the unique index, and the driver's error reaches the
  client as a 500. `DESIGN.md:122` promises 201 or 200. A second retry gets 200.
- `stranded_order`: a restart after the insert and before the publish leaves an
  order without its event. The client's retry is a replay, and a replay
  publishes nothing, so no worker ever ships the order. `DESIGN.md:39` says that
  a worker consumes the event.
- `poison_status_message`: two callbacks with the same status and different
  event ids are validated before either is applied, and both are answered 202.
  The second is a conflict when the worker gets to it; the consumer puts it back
  each time, for ever. `README.md:223` says that draining the queue persists the
  change. The pass run shows that such a message holds up no other
  (`AcceptedStatusReached`) because it goes to the back of the queue.
- `payload_hash`: a number that is not finite serializes as `null`
  (`hash.ts:24`; a body may hold 1e999 in a property the schema does not name), so
  that body and the one with `null` there are replays of each other, where
  `hash.ts:47` says that a key cannot be reused with another body without a
  conflict. Conversely, names that `localeCompare` takes for equal stay in
  written order, so a body with both of them, reordered, conflicts with itself,
  where `hash.ts:10` promises one string "irrespective of property ordering".
  Bodies without either (`Regular`) are told apart exactly, which is what
  `MCOrderCreation` checks.
- `full_jitter`: `DESIGN.md:146` speaks of "exponential backoff + full jitter",
  which draws a delay between zero and the exponential; `retry.ts:54` adds the
  jitter to the exponential, so no delay is below it and most are above.
  `DelaysGrow` says what the delays really are.

Smaller differences met while modelling, which no run is about: `DESIGN.md:7`
says the mock mirrors the production contract through idempotency headers, but
`delivery-mock/server.js:9` answers every POST with a new shipment and never reads
the key, so a POST that timed out and is retried makes a second one (and never
more than the faults account for, as `DuplicatesNeedFaults` shows);
`rate-limit-store.ts:67` logs "falling back to memory store", but the store was
registered at the start and stays Redis (`SharedLimit` rests on that).

## 4. The proofs

The proofs hold for every value of the constants, under the assumptions the
modules name: `NoDocument`, `NoShipment`, `NoOrder`, `None` and `NoMessage` are
not documents, ids or messages; created-event ids are event ids; hashes are
`PayloadHashes`; a payload is a record with natural quantities; callbacks and
drains are finite sets; `MaxFaults`, `MaxRetries`, `Max` and `MaxStarts` are
natural numbers, `TimerMax` a positive one, `Halves` and `BaseDelays` integers.
TLC evaluates each assumption on the instances.

`OrderCreationProofs`: `TypeCorrect`, `KeyNamesOneOrder`, `ConflictIffOtherBody`,
`OrdersAreAnnouncedOnce`, and `KeysImplemented`
(`Spec => ImplementsIdempotencyKeys`). The inductive invariant `IInv` adds what
these rest on. `UniqueKeys`: stored orders with one key are one order.
`RequestsAgree`: a request answered with an order, or about to publish one, has
a stored order with its key and its hash, and a request refused for a mismatch
has one with its key and another hash. `OwnIds`: no two requests that build or
built an order drew the same id. `Unannounced`: an order is not announced while
its request has still to publish it. Creation never changes or removes a
document, so what a request learned from one stays true.

Three more theorems say what only faults do. `CreatedMeansAnnounced`: the orders
announced are exactly those whose creator was answered 201.
`OrdersAreStrandedOnlyByFaults`: before the first fault a stored order has been
announced, or the request that stored it is about to; this is the safety core of
`StoredIsAnnounced`, and the counterpart of the run `stranded_order`.
`ErrorsAreLostRaces`: before the first fault a 500 goes only to a request whose
key another one has created an order for; the counterpart of `create_race`.
Together they show what the two violations take: a fault, and a lost race. The
invariant `FInv` follows each stored order to its creator, which needs that
without a fault no insert is stray.

`StrandedOrdersHaveFailedRequest` says what faults leave behind, however many
there are: an order without its event is about to be published, or a request of
its own key got a 500 or no answer. Faults of other keys strand nothing, and a
client all of whose requests were answered 200 or 201 has no stranded order. It
is inductive together with the same statement about the orders that stray inserts
may still store (`StraysOfFailed`), since a late insert stores an order that no
request holds any more.

`ShipmentProofs`: `TypeCorrect`, `EventsHaveOneHandler`, `DueOrdersAreHandled`,
`EachDuplicateHasAFault`, and `LedgerImplemented` (`Spec => ImplementsLedger`). The
argument has two layers. `EventInv` is about events: each is in one place
(`Sole`), each announced and not discarded is somewhere (`DueHandled`), and each
is of a stored order (`HeldStored`), so that the key of a POST is a key.
`DeliveryInv` is about shipments: orders have their own keys (`UniqueKeys`); a
shipment was made for a stored order under its key (`MadeForOrders`), with an id
of its own (`IdsOnce`), the only one for the key under the contract
(`OnePerKey`); every id held by a drain, a stray write or a document was made
for that order (`IdsMadeFor`). `DuplicatesNeedFaults` has a second case, a
Delivery that does not keep the contract, for which `FaultsAccount` keeps an
account per order: the shipments made, the POSTs left behind, and one more while
the order is still to be posted, are together at most one more than the faults.
A fault pays for the POST it leaves behind, or for the event that is put back
though its POST was answered; a POST that is answered, or lands late, only moves
within the account. That uses `Sole`: "find no metadata, then POST" is safe
without a lock because an event has one handler.
`OnlyAnnouncedOrdersAreShipped` adds that Delivery ships nothing that was not
announced, by following every drain and every POST left behind to its event.

`StatusUpdatesProofs`: `TypeCorrect`, `HistoryIsLifecycle`,
`EventsAreAppliedOnce`, `StaleWritesAreGuarded`, `MessagesAreNeverAhead`,
`AcceptedEventsSurvive`, `LifecycleImplemented`, `AppliedEventsWereAccepted`,
`NoMessageIsForged`, `AcceptedMessagesAreOnTheirWay` and `TooLateForever`.
`LifecycleHistory` is not inductive alone. That an append keeps a history on the
lifecycle needs to know that the transition checked before the await is still
legal at the write. The version is what says so: a write in hand or stray never
names a version yet to come, and while its version is current its transition is
legal (`WritesGuarded`). That is inductive only together with
`LifecycleHistory`, which ties version, status and length of the history to each
other, so `IInv` conjoins them with the types and the other invariants. A new
append makes every other snapshot of the order stale, because it moves the
version on.

`NeverAhead` is about a message that is validated, queued or in hand: its status
has been reached by its order, or `prepareStatusUpdate` would let it through as
it is (the status is the next one, the event id is new). It is preserved because
ranks only grow, one at a time, and because an append that records the event id
under another message moves the order to a status at or past this one. So a
message the worker refuses is late, never early. `AcceptedSurvives` adds that an
event dropped as a duplicate has its status reached; that one step needs
`NeverAhead`: a message that has its event id in the history is not applicable,
so it is late. From the two follows `AcceptedMessagesAreOnTheirWay`: an accepted
event whose status is not reached is in the queue or in hand, and applicable.
That is the safety core of `AcceptedStatusReached`; what fairness adds is that
drains get to it. `TooLateForever` is the other side, and the reason behind
`poison_status_message`: a message whose status was reached through another
event is never recorded, whatever the drains retry and whichever stray write
lands. `AppliedEventsWereAccepted` follows a message from its acceptance to the
write it ends in; `NoMessageIsForged` counts the copies of a message in the
queue, in the drains and in the callbacks, with the lemmas of
`OrderRepositoryProofs` on what dequeueing and appending do to a count.

`SalesServiceProofs`: `CreationImplemented`, `UpdatesImplemented` and
`ShippingImplemented`, the three refinements of `SalesService`, and what follows
from them. The
parts' proof modules are instantiated with what each part sees of the
collection, so that their invariants can be used about the service. The
invariant `SInv` conjoins creation's `IInv`, the types of the status updates,
shipment's `EventInv`, and that a stray insert is of a new document. Lemmas say
what the views make of each command: an insert is the insert of that document to
every part, an append is one to the status updates and nothing to the others, a
metadata write is one to shipment and nothing to the others. Then each step of
the service is a step or a stutter of each part (`EveryStepIsSeen`). The publish
is the interesting one: `Announce` wants an order that is stored and not yet
announced, and it is creation's `RequestsAgree` and `Unannounced` that provide
it.

A part's theorem then holds of the part's view; `KeysInService`,
`HistoriesInService` and `ShipmentsInService` carry every safety property of the
parts and their three abstract specifications over to the documents themselves,
which all parts write. `ShipmentsWereCreated` is a property no part can state:
behind every shipment is a request answered 201 for that order under that key,
and what an order records is such a shipment. It chains shipment's
`ShippedWasAnnounced` and `MadeForOrders` to creation's `AnnouncedIffCreated`
and `RequestsAgree` through the one document that both see. `OrdersAreAccountedFor` goes the other
way, from the document on: every stored order is with the request about to
publish it, with a client of its key that got a 500 or no answer, or with a client
told 201, and then it has its shipment, or its event is queued or in hand, unless
a restart or the debug route discarded it. It joins
`StrandedOrdersHaveFailedRequest`, `CreatedMeansAnnounced` and
`DueOrdersAreHandled`, and is the safety core of `CreatedIsShipped`.

`InMemoryQueueProofs`: `TypeCorrect`, `EachMessageOnceHolds`,
`TriedInOrderHolds`, and `FifoQueuesImplemented`
(`Spec => ImplementsFifoQueues`), for any queues and consumers. What `filter`
does to an array is `Filter` in the model: the elements at the first, second,
... of the positions kept. (`MCInMemoryQueue` has TLC compare it with
`SelectSeq`, which is defined by recursion.) Everything about it is derived from
what it does to an array that is one longer, by an induction over sets of
sequences that the lemmas `LeastElement`, `NaturalsBySuccessor` and
`SequencesByAppend` provide: a set of sequences that has the empty one and, with
each, those one longer, has all. From that comes what splicing out the first
message of a queue does to each queue's payloads: its own loses its head, the
others nothing. The inductive invariant `IInv` adds to the two properties that a
payload is sent once (`SentOnce`), that what is in the array or in a hand was
sent (`AllWereSent`), is there once (`OnePlace`), and is somewhere until it is
settled (`PlaceUnlessSettled`); and for the order of first attempts that what is
in a hand has been started (`StartedFirst`) and that a message never tried is
younger than all before it in the array (`UntriedAreYounger`): only tried ones
are put back, and at its end.

`RateLimitStoreProofs`: `TypeCorrect`, `LimitIsShared`, `LiveClientIsOffered`
and `OutageLoggedOnce`. An instance on Redis is registered with Redis, and what
all of them let pass is bounded by the counter in Redis.

`RetryProofs`: `RetriesAreExhausted`, `CallsAreBounded`,
`UnexpectedStateOnlyIfNotWhole` and `DelaysGrowHolds`, for every set of retry
counts and every set of base delays in halves, zero and negative ones included.
`IInv` ties `attempt`, `calls` and the delays to each other. Each new delay lies
between two neighbours of the capped exponential. That a wait is then not shorter
than the last one follows from 2^n doubling with n, which the provers do not know
and which is read off the number of subsets of `1..n`, and from what `Timer` makes
of a delay (`TimersGrow`); negative and zero base delays all end at one
millisecond.

Only model-checked:

- liveness under fairness, which is out of the prover's reach:
  `StoredIsAnnounced`, `DueIsShipped`, `AcceptedStatusReached`,
  `CreatedIsShipped`, `EventuallyHandled`, `Ends`. Of each the safety half is
  proved: that what has to happen is still under way
  (`OrdersAreStrandedOnlyByFaults`, `DueOrdersAreHandled`,
  `AcceptedMessagesAreOnTheirWay`, `OrdersAreAccountedFor`,
  `EachMessageOnceHolds`), and for `Ends` that the calls are bounded
  (`CallsAreBounded`);
- that texts tell ordinary bodies apart (`TextsTellRegularBodiesApart`):
  serialization is recursive over its input, and induction over data is out of
  reach.

## 5. Not modelled

- Order reads and queue listings change nothing. Logging, wording, response
  bodies and timestamps are left out.
- `env.ts`, `server.ts`, `mongo.ts` and the wiring run once before the first
  request. What they leave open is a constant or an initial choice of the models
  (retries, provider). Two queues configured with one name are not considered.
- The limits, key generators and messages of the rate-limit plugin configure
  `@fastify/rate-limit`, which does its own counting in a library; only which
  counter it uses is followed.
- `store.clear()` has no caller. The performance script drives the service from
  outside; tests and documents were read for what the system is to do.

## 6. What is left

What could still be added: a proof that the serialization tells bodies apart, if
it is written as a function of the depth of a body; more than one time window
in `RateLimitStore`, and a Redis that loses its counters; reads that
may be served from a stale copy, should MongoDB ever be read from a secondary.

## 7. Running

    tlc -workers 2 -config OrderCreation.cfg MCOrderCreation.tla
    tlc -workers 2 -config OrderCreationRace.cfg MCOrderCreation.tla
    tlc -workers 2 -config OrderCreationStranded.cfg MCOrderCreation.tla
    tlc -workers 2 -config Shipment.cfg MCShipment.tla
    tlc -workers 2 -config StatusUpdates.cfg MCStatusUpdates.tla
    tlc -workers 2 -config StatusUpdatesPoison.cfg MCStatusUpdates.tla
    tlc -workers 2 -config SalesService.cfg MCSalesService.tla
    tlc -workers 2 -config InMemoryQueue.cfg MCInMemoryQueue.tla
    tlc -workers 2 -config Retry.cfg MCRetry.tla
    tlc -workers 2 -config RetryJitter.cfg MCRetry.tla
    tlc -workers 2 -config PayloadHash.cfg MCPayloadHash.tla
    tlc -workers 2 -config RateLimitStore.cfg MCRateLimitStore.tla
    tlapm OrderCreationProofs.tla       # and every other *Proofs.tla
