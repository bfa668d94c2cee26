# TLA+ verification of the event-driven e-commerce backend

Five Go services (gateway, order, inventory, payment, catalog) run an order through a choreographed saga over Kafka. This
directory models the parts of them that keep state and run concurrently,
model-checks the models with TLC and proves the most important invariants with
TLAPS. Paths below are relative to the repository (`src/` in `PROJECT.json`).

## 1. The system

```
 client ── HTTP ──> gateway ── gRPC ──> order-service ── outbox ──> order.created, order.cancelled
                       │                     ▲                              │
                       │ gRPC                │ inventory.reserved           ▼
                       ▼                     │ inventory.reservation_failed  inventory-service
                  payment-service ───────────┤ payment.captured / failed        │
                       ▲                     │ payment.creation_failed          │
                       └──────────── inventory.reserved ────────────────────────┘
```

| Component | State it keeps | Operations that change it | Talks to |
|---|---|---|---|
| gateway-service (`internal/gateway`) | the in-memory map of cancel idempotency records | `CancelOrder`; every other route translates one HTTP request into one gRPC call, checkout with a deadline | gRPC to the other services |
| order-service, orders (`internal/order/service`, `repository`, `handler`) | tables `orders`, `order_items`, `order_outbox_events` | `CreateOrder`, `CancelOrder`, five `Mark...` methods; all updates go through `UpdateOrder` | outbox rows in the same transaction |
| order-service, consumers (`internal/order/consumers`) | Kafka offsets, Redis marks | one goroutine per topic calls a `Mark...` method | service methods |
| order-service, outbox dispatcher (`internal/order/events`) | `locked_at`, `published_at` of outbox rows | claim, publish, mark published, release | Kafka |
| inventory-service (`internal/inventory`) | tables `inventory_stocks`, `inventory_reservations`; offsets, Redis marks | consumers of `order.created` (reserve all lines, undo on failure) and `order.cancelled` (release) ; gRPC reads, `ReserveStock`, `ReleaseStock` | Kafka, directly |
| payment-service (`internal/payment`) | table `payments`; offsets, Redis marks | consumer of `inventory.reserved` (create a payment); gRPC create, capture, fail, cancel | Kafka, directly |
| catalog-service (`internal/catalog`) | MongoDB products | create, read, update, delete of one document | none |
| every process (`cmd/*/main.go`) | open resources, goroutines, error channels | start-up, launch, signal, failure, draining, closing | its own goroutines |
| Redis deduplicators | processed event ids with a TTL | `IsProcessed`, `MarkProcessed` | |
| auth-service | none (an empty placeholder) | | |
| Kafka, Postgres, Redis, MongoDB | external | modelled as the code uses them | |

What is hard here:

* **stale reads.** The order and payment methods decide on a row they read
  outside the transaction and write the whole copy back, without lock, version
  or condition. Consumers of different topics and gRPC handlers do this for the
  same order at the same time.
* **at least once.** The dispatcher's leases are not fenced; consumers mark an
  event in Redis after its effects; a handler that returns an error stops the
  service, and the message is met again after the restart.
* **different topics.** `order.created` and `order.cancelled` have no order
  between them.
* **partial failure.** An order's lines are reserved in one transaction each;
  payment events are published after the database commit, without an outbox.
* **waiting.** Gateway requests wait on another request's channel, without a
  timeout; closing the database pool waits for event handlers that nobody told
  to hurry.
* **stopping.** An error in one goroutine takes the process down while the
  others are between an effect and its mark; `main` waits for requests but not
  for consumers.
* **retries across services.** A checkout that timed out may have stored its
  order; amounts, currencies and payment methods are converted a dozen times on
  their way to the payment, in arithmetic that wraps.

What makes each part correct:

* orders: an idempotency key names one order; a cancelled order is announced
  exactly once; statuses only advance and answered changes last;
* dispatcher: nothing is lost, nothing is confirmed before it is delivered,
  everything is delivered eventually;
* inventory: stock is conserved, the two tables agree, an order holds all of its
  lines or none, a cancelled order holds nothing;
* payment: events announce what is stored, final statuses are final, a capture is
  announced;
* listings: a page holds the rows it stands for, a walk ends and misses nothing;
* gateway: one call per key at a time, the same answer for the same key, nobody
  waits for ever;
* processes: no event is skipped, requests never meet a closed resource, a
  failure stops the whole process, a healthy backlog is consumed;
* the saga: a confirmed order was captured and holds its stock, every order settles,
  a cancelled one gives back what it held;
* checkout: one order per key, the client is shown what it asked for and is
  charged the sum of its lines.

`PROJECT.json` lists every hazard at its line with the properties that are about
it.

## 2. Modules

| Module | Models | Runs | Proofs |
|---|---|---|---|
| `OrderService` | orders, outbox rows, concurrent service methods | `order_*` via `MCOrderService` | `OrderServiceProofs` |
| `EventRelay` | abstract specification: an at-least-once relay | through refinement | |
| `OutboxDispatcher` | the dispatchers, refining `EventRelay` | `outbox` | `OutboxDispatcherProofs` |
| `Inventory` | stock, reservations and both consumers | `inventory*` via `MCInventory` | `InventoryProofs` |
| `Payment` | payments, consumer and gRPC handlers | `payment` | `PaymentProofs` |
| `GatewayCancel` | the idempotent cancellation | `gateway` via `MCGatewayCancel` | `GatewayProofs` |
| `Listing` | the paged listings of orders, payments and products | `listing` via `MCListing` | `ListingProofs` |
| `ServiceProcess` | one process of any service, from `main` to exit, with its consumers | `process` via `MCServiceProcess` | `ServiceProcessProofs` |
| `Saga` | `OrderService`, `Inventory` and `Payment` composed by their events | `saga` via `MCSaga` | `SagaProofs` |
| `Checkout` | `POST /checkout` down to the payment, over `OrderService` | `checkout` via `MCCheckout` | `GatewayProofs` |

An operator whose comment begins with "Mutant" is a plausible bug: the
definition after it with one guard, assignment or order changed. Substituted for
that definition it makes TLC report the property that `PROJECT.json` lists with
it. No specification uses these operators.

### OrderService

State: `orders` and `outbox` are the tables; `call[c]` is the goroutine `c`
inside a service method, with its local copy of the row, or the answer it got
last. A method is cut where another goroutine can interleave:

| Step | Code |
|---|---|
| `CreateOrder` | normalisation, validation, first `GetOrderByIdempotencyKey` (`service.go`, `CreateOrder`) |
| `InsertOrder`, `InsertKeyExists`, `InsertIDExists` | repository `CreateOrder`: one transaction, or one of its two unique violations as `mapCreateOrderError` tells them apart |
| `RereadOrder` | the second look-up after `ErrIdempotencyKeyAlreadyExists` |
| `CancelOrder`, `Mark...` | the read and the decision of each method (`transitionOrder`) |
| `BeginUpdate` | `UpdateOrder`: BEGIN and the unlocked read of the current status |
| `CommitUpdate`, `RollbackUpdate` | `UpdateOrder`: UPDATE of the whole row, items, `order.cancelled` if the status read was another one, COMMIT; or the primary key `outbox-cancelled-<id>` is taken and everything is rolled back |
| `Abort` | any error, expired context or crash |

A commit may succeed with its answer lost: `InsertOrder` and `CommitUpdate` may
leave the caller without an answer. The row keeps status, cancel reason, key and
`request`, which stands for all that `ordersMatchForIdempotency` compares;
items and amounts do not influence any other decision. Reads are left out. The consumers are the `Mark...` actions, which may come at any time,
in any order and any number of times: this covers redelivery, reordering and
lost marks. `CommitUpdate` is one step because the UPDATE's row lock is held to
the end of the transaction and its other statements touch rows keyed by the
same order.

### OutboxDispatcher and EventRelay

Rows are numbered by `created_at`, the order of the claim. `lock` abstracts
`locked_at` to free, held and expired; `ExpireLock` may fire at any time after a
claim, because a batch of ten rows with a five-second publish timeout each can
outlast the thirty-second lease. `Claim` takes what `WHERE`, `ORDER BY`, `LIMIT`
and `SKIP LOCKED` leave; `PublishAcked`, `PublishFailed` (which may have
delivered), `MarkPublished`, `ReleaseEvent`, `StatementFailed` and `Crash` follow
`dispatchOnce`. MARK and RELEASE do not check the holder, as in the SQL.
`Rejected` are events the broker never takes, such as a message above its size
limit.

`EventRelay` is what the other services rely on: a stored event is delivered at
least once and confirmed only after it was delivered. The refinement maps
`delivered` to `kafka` and `confirmed` to `published`.

### Inventory

State: the columns `available` and `reserved`, the `reservation` rows (0: no
row), the position of both consumers' handlers per order, published outcomes,
Redis marks. Each `ReserveStock` and `ReleaseStock` is one transaction under
`FOR UPDATE` and one step. `ReleaseReservationsByOrderID` is two: the list is
read without a lock (`ListReservations`), then its quantities are released and
its rows deleted (`ReleaseListed`), or the guarded UPDATE matches no row
(`ReleaseListedFails`). An error that either consumer returns stops the process with
what both have in hand, a message each at most (`ProcessStops`): this is what
`RollbackFails` and `ReleaseListedFails` do, and `ServiceStops` is the same for a
crash or an error of Redis, Kafka or the database. `ExpireMark` drops a mark at the
end of its TTL. `Redeliver...` are stops before the offset commit and
second copies from the outbox. `ReserveFails` includes a lost answer to COMMIT.
`overtaken` is a history variable: the orders whose `order.created` was handled
after their `order.cancelled` had come, be it late or again after its mark expired.

### Payment

A payment is named by its order (`order_id` is UNIQUE); `key` tells the
consumer's idempotency key from a client's. The consumer's handler goes through
look-up, insert, publish, mark and commit; every error of `createPayment` leads
to `payment.creation_failed`, as in the code. `Capture`, `Fail` and `Cancel` read,
switch on the status, write the whole row and publish (`CancelPayment` publishes
nothing). `RefetchReserved` is an error or crash of the handler, or the outcome
published again under a new event id.

### GatewayCancel

A record is named by the request that leads it. `Lead`, `Follow` and `Conflict`
are the three results of `beginCancelIdempotency` (under the mutex, so one step
each); `performCancelOrder` is the gRPC call, which returns a result or an
error; `finishCancelIdempotency` closes the record and drops it after an error;
`Wake` is the receive from `record.done`; `Restart` loses the map. What
order-service does with the call is `OrderService`'s `CancelOrder`.

### Listing

One module for the three listings, which differ in two guards: only the catalog
deletes rows (`DeleteRow`), and only it refuses negative numbers
(`RefuseNegative`). A request passes the HTTP defaults (`HTTPPage`, `HTTPSize`) and
the conversion of its page to int32 (`Int32`, modulo 2 * (`MaxInt32` + 1)); the service counts
(`CountRows`), reads the window (`SelectRows`) with its own defaults (`Page`, `Limit`,
`Offset`) and echoes page and page_size (`Answered`). A row is its rank in the
sort order and may appear at any place in it, because `created_at` is taken
before the commit. The mongo driver takes skip and limit as int64; the clamp of
the Postgres repositories changes nothing while a table has fewer than 2^31 rows,
which is assumed. The client that walks a listing until a short page is external:
it is the way the API can be used without knowing its implementation.

### ServiceProcess

The module is one process of one service, chosen in `Init`. `Resources` lists
what `main` acquires in its order and `Needs` the settings each constructor
insists on; one setting may be missing or malformed (`flaw`). `Acquire` and
`AcquireFails` are the constructors (the failing path is `os.Exit`, which runs no
deferred close), `Launch` starts the goroutines, `Report` is how one of them ends
with an error: order-service sends it to `main` over a channel, the others call
`stop`. `StopServing`, `Drained`, `Close` and `Exit` are the rest of `main`. A
consumer fetches, handles, marks and commits; its calls fail at once when the
context is done and cannot succeed on a closed resource. `RunReturnsLate` is a call
that had its effect and failed. What handling an event does is in the other
modules: here it is counted. A message that can never be handled ("hopeless", or
for order-service a payload that does not decode) makes `Run` return each time.
`Start` is external: nothing in the repository restarts a process.

### Saga

`Saga` instantiates `OrderService` (each consumer is a caller, and so is a client
that cancels), `Inventory` and `Payment` and says which published event enables
which handler. Orders have been placed in `Init`. `mark` holds what each consumer
of order-service has done with its event; `RefetchEvent` stands for a second event
with the same content, an expired mark, or a stop before the commit, all of which
make the handler run again. `lost` is a history variable: an UPDATE replaced a
status its method had not read, the finding of `order_failed_lost`. Payments are
created by the consumer only, because no gateway route creates one. Any number of
calls (`PaymentCallers`) capture, fail and cancel payments at once. `revised` is a
history variable: the orders whose payment was decided when another call, which had
read PENDING before, wrote its own decision over it. One client at a time cancels
orders; what several calls do to one order is in `OrderService`.

### Checkout

The data path. Bodies carry blanks, small letters and currencies by either name;
`normalizeCurrency`, `normalizePaymentMethod` and the `map...` operators are the
conversions of the gateway, order-service, the two databases, the events and
payment-service, enum numbers of `order.v1` and `payment.v1` apart. Amounts wrap
above `MaxInt64` (2^63 - 1 in the code); the CHECK constraints of the schema refuse amounts
that are not positive (`Storable`). The five parts of an address are one text. An
attempt is one HTTP request; its handler in order-service is a caller of
`OrderService` and goes on after the gateway has answered 504 or 408 (`GiveUp`). `MakePayment`
is the outcome of the saga, of which `Saga` is the detail.

## 3. What the runs check

| Run | Instance | Shows |
|---|---|---|
| `order_concurrent` | 2 callers, 2 orders, 1 key, 2 requests | `CancelledHasEvent`, `AnsweredCancelHasEvent`: no cancellation goes unannounced although the deciding read takes no lock. `OutboxConsistent`: tables agree, no event twice. `KeyNamesOneOrder`, `CreateAnswersHold`: racing creations. `OrderIdentityKept`: a stale copy never changes key or request |
| `order_failed_lost` | 2 callers, 1 order | **violated:** a stale UPDATE overwrites the CANCELLED that `payment.failed` was answered |
| `outbox` | 2 dispatchers, 3 rows, batch 2, 1 rejected | `PublishedIsDelivered`, `PublishedStaysDone`, and refinement of `EventRelay` with its fairness (`RelayFair`): every acceptable event is delivered and confirmed |
| `listing` | 3 rows, pages of 1, 2 and 3, 4-bit page numbers, orders and catalog | `AnswerIsWindow`: the rows answered are those that the echoed page and size stand for. `WalkMissesNothing`, `WalkEnds`: a walk through the gateway ends and, unless a row is deleted meanwhile, has seen all |
| `inventory` | 2 orders competing for 2 products, 1 fault | see below |
| `inventory_replay` | the same | **violated:** `NoDoubleReservation`, a replayed `order.created` reserves again |
| `inventory_overtake` | the same | **violated:** `CancelReleasesStock`, stock reserved for a cancelled order stays reserved |
| `payment` | 1 order, 3 gRPC callers, 2 faults | `CreatedIsStored`, `AnnouncedIsClosed`, `ReservedIsAnswered`; without faults `CaptureIsAnnounced` |
| `gateway` | 3 equal requests, 1 conflicting, 1 without key | `SingleFlight`, `OneResultPerKey` (which also says that who shares a result asked the same), `ErrorIsRetried`, `WaiterIsAnswered` |
| `process` | each service, 24 backlogs of up to 3 messages, 1 request, 2 faults | `CommittedIsHandled`: no offset passes an event that was not handled. `HandledOnce`: copies are recognised while nothing fails. `ServedWithResources`: the order of the shutdown. `FailureStopsProcess`, `BacklogConsumed`: liveness |
| `saga` | 1 order of 2 lines, stock for 3, 2 payment callers, 1 fault | `ConfirmedHoldsStock`, `OrderSettles`, `CancelledGivesBack` |
| `checkout` | 3 attempts, 10 bodies, 3 order ids, 6-bit amounts | `CheckoutConverges`, `AnswerTellsTruth`, `ChargedAsAsked` |

`inventory` checks properties under exactly the conditions they need.
`StockConserved` holds always. `LedgerConsistent` and
`CancelEventuallyReleases` survive faults but not an overtaken cancellation: with
the condition removed TLC finds a stale list released twice, a `reserved` column
below the reservations, and a release that fails for ever, its consumer
stopping the service each time. `CreatedIsAnswered` allows for exactly that
(`ReleasesKeepFailing`). Without the exception TLC finds two ways in which an
`order.created` is never answered, both after an overtaken cancellation: the
release that fails after every restart stops the process before the other handler
has published, and a rollback and a release, each failing because the other one
was first, stop each other in turn. `CancelInOrderReleases` holds for every order
that was not itself overtaken. `AllOrNothing` needs fault-free handling, because a
replay reserves twice.

`HandledOnce` shows a limit of the design: it needs every event of every topic of
the service to be one that can be handled. One that cannot stops the process, and
with it another consumer between the effect of its event and the mark.

`OrderSettles` lets an order wait for its client while its payment is stored and no
result of it is announced. This is where a cancelled payment leaves it
(`CancelPayment` publishes nothing), and a capture whose publication failed.

`ConfirmedHoldsStock` says that the payment of a CONFIRMED order is CAPTURED unless the
order is in `revised`. Without that exception TLC finds a capture and a cancellation
that both read PENDING: the capture is written, announced and confirms the order, and
the cancellation is written over it. The order stays CONFIRMED with a CANCELLED
payment, although no update of the order was lost.

The properties of `saga` claim nothing of what follows a lost update, so the run
stops there (CONSTRAINT `NothingLost`). This hides no violation: `lost` never
becomes false again, and each property is true of every behaviour in which it
becomes true.

### Bounds

* Two callers: every property of `OrderService` relates one or two method
  instances, and its hazards need one stale writer and one other; the theorems
  hold for any number. One key and two requests give agreeing and conflicting
  uses of the key; two orders give id collisions and crossings.
* Two dispatchers and three rows: a late holder, the one that took over, and a
  row that the batch limit leaves behind. Batch 2 with 1 rejected row is the boundary of
  `RelayFair`, which needs fewer than `BatchSize` rejected rows: with as many,
  they are claimed first each time and younger events starve.
* Two orders that cannot both be served, one of two lines whose first is reserved
  and rolled back when the other order took the product of its second; one
  fault (`MaxFaults`) is enough for a replay, an expired mark, a lost COMMIT answer
  or a stop of both handlers at any point. Redeliveries are not bounded. Rows are
  followed up to `MaxRow`, twice what an order of two lines asks for (CONSTRAINT
  `RowsBounded`): releases that keep failing let the other handler reserve again after
  each restart, so that rows grow without bound.
* One order and three callers in `Payment`: a row is shared by one order's calls
  only, two callers race and a third observes. `MaxFaults` bounds faults only.
* Three equal requests in the gateway: a failed leader, its follower, a new
  leader.
* Three rows in a listing: a full page, a short one and one past the end, with
  room for an insert or a delete in between. Four bits stand for 32: the pages
  8 and 17 become -8 and 1, as 2^31 and 2^32 + 1 do. The walk's page is bounded by
  the pages that `Rows` can fill.
* Backlogs of two messages in one topic hold every kind of message before and
  after a good one, and two copies of an event; two topics at once show one
  consumer's failure in the middle of the other's message. Two faults give a
  failure during the recovery from another. One request in flight is enough to
  meet a closed resource.
* One order in `Saga`, since handlers of different orders meet only in the stock,
  which `inventory` checks with two; the stock of three lets a replay reserve one
  line of two and then roll it back under an order that may be confirmed by then.
  One fault is enough for any one replay, expired mark, crash, failed call or lost
  answer. Of two payment callers one captures and the other fails or cancels
  (`ClientsDisagree`), and their calls overlap in behaviours without a fault
  (`OneTrouble`); a copy of an event that meets its mark, which is only committed, is
  left to `inventory` (`CopiesMatter`). `ConfirmedIsWhole` is proved without these
  bounds. The ACTION_CONSTRAINT `LocalFirst` is a partial-order reduction: fetching,
  marking and committing an event read and write nothing that another step depends
  on, so that they are taken as soon as they can be, unless a fault comes first.
* Three attempts at a checkout: one that timed out, its retry, and another order
  under the same key. Six bits hold totals that fit, that wrap to a positive
  amount (93 to 29) and to a negative one (32 to -32).
* Symmetry is used in safety runs only, over sets that are interchangeable.

### Fairness

* `OutboxDispatcher`: the ticker fires and a dispatcher goes on with its loop
  (weak fairness of `Claim`, of trying a row, of `ReleaseEvent`), time passes
  (`ExpireLock`). Publishing an acceptable event and marking it may fail any number
  of times but not always (strong fairness): each is tried again for as long as
  the row is unpublished.
* `Inventory`, `Payment`: a handler that can go on does. A handler that returned
  an error stops the service; the process is restarted by its supervisor and
  the uncommitted message is fetched again. Faults are bounded, so no fairness is
  needed to leave them behind. No fairness is assumed of arrivals.
* `GatewayCancel`: `performCancelOrder` returns after `checkoutTimeout` at the
  latest, and runnable goroutines run. Requests need not arrive.
* `Listing`: a walking client goes on, and a listing call that is repeated fails
  (error or `readTimeout`) any number of times but not always. Inserts and deletes
  need not happen.
* `ServiceProcess`: `main` and the goroutines are scheduled, requests end (their
  clients set deadlines), and somebody starts a process that is down. Faults are
  bounded. The expiry of a mark is not fair.
* `Saga`: weak fairness per service: as long as one of its handlers can take a
  step, one of them does. Clients need not decide a payment or cancel an order,
  but a call that began goes on.
* Deadlock is checked everywhere but in `gateway`, `saga` and `checkout`, whose
  finite sets of one-shot requests may all be answered.

## 4. Findings

1. **Lost update of an order's status** (`order_failed_lost`):
   `repository/postgres.go` `UpdateOrder`.
2. **Replayed `order.created` reserves twice** (`inventory_replay`): the mark
   follows the effects, and the upsert adds.
3. **A cancellation that overtakes the creation leaks stock**
   (`inventory_overtake`).
`PROJECT.json` quotes the documentation each of them contradicts. Other limits
that the models show and the properties allow for:

* `CapturePayment` commits, then publishes, without an outbox. If the publication
  fails, the retry is answered CAPTURED and publishes nothing: the order stays
  AWAITING_PAYMENT.
* Capture, fail and cancel that all read PENDING overwrite each other's final
  status, after the order was confirmed too; `AnnouncedIsClosed` and the conditions of
  `ConfirmedHoldsStock` are what remains true.
* Marks expire (24 h by default). An `order.created` delivered again after that
  reserves again, on top of what the order holds or, after its cancellation was
  handled, for a cancelled order (`overtaken`).
* After an overtaken cancellation inventory-service may stop at a release again and
  again, and leave other orders of the partition unanswered (`ReleasesKeepFailing`).
* An event of order-service that can never be handled (an unknown order, a
  payload that does not decode, a cancellation whose outbox id is taken by one
  that was overwritten) keeps the service in a restart loop. Inventory-service and
  payment-service drop payloads that do not decode.
* A total that wraps to a positive amount is stored and charged.
* A key conflict and mixed currencies in a checkout are answered 502, not 409 or
  400: `wrapDownstreamError` knows neither AlreadyExists nor InvalidArgument.
* Event ids are `evt-<UnixNano>`: two orders of one nanosecond (two replicas)
  share one, and the second is skipped as a duplicate. In the models ids are
  distinct; `CommittedHandled` has this as its premise (`EventIdsUnique`).

## 5. What is proved

The theorems hold for every value of the constants that satisfies the named
assumptions, which TLC evaluates on every run:

* `OrderConstants`, `PaymentConstants`, `GatewayConstants`: the values that stand
  for "no row" or "no key" are no rows and no keys, and every request has a key
  or none;
* `OutboxConstants`: rows are naturals, `BatchSize` is positive, `Rejected` are rows;
* `InventoryConstants`: an order is a sequence of lines of positive quantity (the
  handlers refuse others), stock is not negative, and there are finitely many
  orders, because the reserved column is compared with a sum over them;
* `ProcessConstants`: services and topics are those of the repository, backlogs are
  sequences of messages;
* `ListingConstants`: finitely many rows, less than `MaxInt32`, and
  1 <= `DefaultSize` <= `MaxSize` <= `MaxInt32` (20, 100 and 2^31 - 1 in the code);
* `SagaConstants`: those of the three services it composes;
* `CheckoutConstants`: those of `OrderService`; bodies are records of texts and lines,
  a text is not "no key", and the names of the currencies, which the gateway
  normalises twice, have neither blanks nor small letters.

The bounds `MaxFaults` and `MaxRPCs` are any naturals. Each proof follows the same
plan: an inductive invariant, one lemma for each action or group of actions that
touch the same state, a lemma that the invariant is inductive, and the theorems.

`OrderServiceProofs`:

* `TypeCorrect`, `KeyUnique`: directly inductive.
* `CancelAnnounced`, `AnsweredCancelAnnounced`: `CancelledHasEvent` is not
  inductive. A transaction that read CANCELLED writes CANCELLED without an event,
  so one must know that the event existed when it read (`WriteKnowsEvent`) and
  that outbox rows are never deleted; a method that answers an order it found
  CANCELLED, and a row resurrected by a stale copy, need
  `AnsweredCancelHasEvent` and `RowIsCopy` (the copy targets a stored order).
  `CancelInv` is the conjunction of these with `TypeOK`; `CancelInductive` shows
  that each action preserves it, one step per action.
* `IdentityKept`: an action property, from `CancelInv` (`RowIsCopy` again).
* `OutboxAgrees`: with `CancelInv`, because an update must target a stored order;
  that no order is cancelled twice in the outbox is the primary key
  `outbox-cancelled-<id>`, the guard of `CommitUpdate`.
* `CreateAnswersTrue`: an answer must stay true of a table that changes after it.
  `AnswersInv` adds what a caller about to look up its key again knows (the key's
  order exists), and rests on `IdentityKept`'s step: key and request of a stored
  order never change.

`OutboxDispatcherProofs`:

* `NothingLost`: needs `CurrentRow`: a dispatcher about to mark a row has
  delivered it. `RelayInv` is `TypeOK`, `CurrentRow` and `PublishedIsDelivered`.
* `PublishedIsFinal`: an action property.
* `ImplementsRelay`: `Spec => SafeRelay`, the safety part of what the run checks as
  `RelayFair`; initial states map to initial states and each step to `Store`,
  `Deliver`, `Confirm` or a stutter.

`GatewayProofs` is about both modules of the gateway. It extends `Checkout`
and `GatewayCancel`, whose constants and variables are disjoint.

Cancellation: `SingleFlight` alone is not inductive, because nothing in it
says that the map knows the request that is calling. `GatewayInv` says that a
request with a key that is calling, and a closed record with a result, are what
the map holds under their key (`LeaderInMap`); that the map holds nothing else
(`MapNamesLeader`, which is `ErrorRetried`); that a record is closed only by a
request that is done; and that a waiting request has the print and key of the one
it waits for. `Restart`, which loses the map with every request, is why records
must be reset with it.

Checkout: `CheckoutInv` has three parts.

* `OrdersInv`: the invariants of order-service. Every step of `Checkout` is a step of
  `OrderService` or leaves its state alone (`CheckoutSteps`), so the lemmas of
  `OrderServiceProofs`, instantiated with the attempts as callers, show it (`OrdersStep`).
* `AttemptsInv`: for each attempt, what gateway, handler and table know of it
  (`AttemptOK`): a handler at work has the key and the order of the attempt's body, also
  when the gateway has already answered; a 201 names an order with that key and order;
  a 400 means that no handler runs and nothing was stored; what was stored passed the
  currency and CHECK tests. It survives the steps of others because a stored order keeps
  its key and request.
* `PaymentsInv`: a payment is the one made from the order's row.

`CheckoutOnce` follows with `KeyNamesOneOrder`. For `AnswersTrue`, a currency that the
gateway accepts comes back under its name (`CurrencyRoundTrip`), and the set of rows
with their positions, read in the order of these, is the sequence that was stored
(`RowsInOrder`: increasing numbers from 1 to n are 1 to n). For `ChargesTrue`, `FoldLeft`
is shown to satisfy the equation of a running sum (`FoldExists`, `FoldPrefix`,
`TotalIsFold`, `ExactIsFold`); as lines are positive, every running sum below one that
fits also fits, so that no addition wraps on the way to it (`TotalExact`). The amount is
positive in any case, because the CHECK constraint refused what was not. Induction over
the lines is stated for a set of numbers (`CountUp`), as in `InventoryProofs`.

`PaymentProofs`: `PaymentInv` adds what the consumer knows between the insert and
`payment.created` (`ConsumerHasPayment`) and what a gRPC handler knows between its
read, its write and its publication (`CallerHasPayment`). These survive the steps of
others because of `PaymentsKept`, the action property proved first: payments are
not deleted, keep their key and never return to PENDING, although one final status
may replace another.

`InventoryProofs`, in five layers, each resting on earlier ones:

* `StockInv`: `InventoryTypeCorrect` and `StockBalanced`. That no column becomes negative is
  the guard of the UPDATE statements; `ItemInRange` says that the handler's line
  exists.
* `OrderInv`: `InOrderReleased`. For an order that is not overtaken no handler of
  its creation is at work once the cancellation has come, expired marks included, so
  that nothing is reserved while the cancellation's handler holds its list or after
  it: the list is exact (`ReleaseExact`).
* `LedgerInv`: `LedgerAgrees`. Every step changes the reservation of one order by what it
  moves between the columns, or nothing (`LedgerMove`); a list that is exact
  releases what it deletes.
* `WholeInv`: `HandledWhole`. While a handler goes through its lines the order holds the
  demand of the lines so far (`Partial`), going up and coming back. A rollback or a
  release that fails would stop another order's handler half way; without faults and
  overtaken orders neither occurs, since what an order holds is reserved
  (`RollbackNeverFails`, `ReleaseNeverFails`, from `LedgerInv`).
* `HeldInv`: `ReservationKept`, with every fault. A handler that runs again reserves
  on top of what the order holds, and its rollback gives back no more than it took
  this time (`HeldOrder` follows the lines up and down); so what was promised by
  `inventory.reserved` stays until a cancellation arrives. `ReservedIsHeld` has no
  run of its own; it is what `SagaProofs` needs of this service.

The first section of the module, on sums, is what `LedgerInv` and the layers after it
rest on. `MapThenSumSet` is a recursion, and the
theorems on finite sets that would tell what it computes take an operator as a
parameter. Induction is therefore stated over a set of subsets (`SubsetInduction`), the
fold is shown to satisfy the equation of a sum (`SumExists`, `SumUnique`,
`SumOfIsSum`), and the rules follow: a sum is its part without one element plus
that element (`SumRemove`), and changes by what one element changes (`SumChange`).

`ServiceProcessProofs`:

* `ResourcesOpen`: `MainInv` ties the phases of `main` to the open resources: all are
  open until the requests are drained, and only what `main` told to stop survives
  into the closing.
* `CommittedHandled`: `StepKinds` sorts the actions into those that handle, mark,
  commit, move a consumer, or leave topics alone; `TopicInv` keeps a live consumer
  inside its log; `LeastInv` says that a consumer marks and commits only what was handled
  and that a mark in Redis tells the truth. The last needs that an id stands for
  one event of one topic. Ids are drawn from the clock, so this is the theorem's
  premise, `EventIdsUnique`, and not an assumption on the constants; the backlogs
  of the run satisfy it.
* `HandledAtMostOnce`: without faults and hopeless messages nothing stops the
  process (`CalmInv`), so that what was handled is marked, or is at the head of its
  consumer (`OnceInv`). It does not need the premise.

`ListingProofs`: the rows at positions 1 to n of a table of at least n rows are n
(`FirstAtMost`, `FirstAtLeast`), hence a page shorter than its size is the last one
(`ShortWindow`).

* `AnswersAreWindows`: `CallInv` says that a call which came to the SELECT counted
  more rows than its offset. The clamps and int32 conversions are followed through
  (`Int32Type`), for any `MaxInt32`.
* `WalkComplete`: `WalkInv` says that the rows stored at the beginning whose
  position is on the pages walked so far have been seen. An insert moves rows only
  to later positions (`PositionGrows`), which is why inserts do no harm and a
  deletion does.

`SagaProofs`: `ConfirmedIsWhole`, a fact about three databases that no service can
see. The proof modules of the services are instantiated as `Saga` instantiates the
services. Every step of `Saga` is a step of one of them that leaves the others alone
(`OneService`, `ServiceEffects`), so their inductive invariants hold of the composition
(`ServicesStep`) without being proved again. `JoinInv` is what the services know
of one another:

* `CapturedKnown`: a method about to write CONFIRMED handles a `payment.captured`;
* `StatusAgrees`: unless an update was lost, a CONFIRMED order was announced as paid, and
  an order whose cancellation was announced stays CANCELLED;
* `ReleaseCaused`, `PaymentCaused`: stock is released for an announced cancellation
  only, and a payment exists for reserved stock only;
* `DecisionCurrent`, `CapturedStored`: what a call publishes is the status of the row,
  unless another call wrote over it (`revised`), hence a `payment.captured` speaks of a
  payment that is stored, and CAPTURED under the same condition. A status that was
  published is not PENDING (`AnnouncedIsClosed`), so that whoever writes over it enters
  the order in `revised`.

An order that is CONFIRMED was announced as paid, so it has a payment, so its
stock was reserved; it is not CANCELLED, so no cancellation was announced, nothing was
released, and `HeldInv` says that the order holds its demand.

Model-checked only: every liveness property (`RelayFair`, `CreatedIsAnswered`,
`CancelEventuallyReleases`, `ReservedIsAnswered`, `CaptureIsAnnounced`,
`WaiterIsAnswered`, `WalkEnds`, `FailureStopsProcess`, `BacklogConsumed`,
`OrderSettles`, `CancelledGivesBack`), which the prover does not reach. Every invariant
and every safety action property that a passing run checks is stated by a theorem;
in `inventory` and `saga` theorems hold without the CONSTRAINTs.

## 6. What is not modelled

* Catalog: the contents of a product, changed in one document by one statement;
  only which products exist matters to `Listing`. Its Postgres repository is not
  wired.
* Gateway routes for the catalog and for reading stock: stateless translation.
* Logging, tracing of request ids, ports and addresses.
* JSON payloads: an event is its type, its order and what a decision or an amount
  needs. Messages whose envelope cannot be decoded are acknowledged and dropped
  (`Dropped`).
* Protobuf messages, descriptors and gRPC stubs in `gen/`: plumbing. Their enums
  are in `Checkout`.
* Direct gRPC `ReserveStock`/`ReleaseStock` of inventory-service, which no
  service calls.
* Partitions: each topic is read by one consumer in one order, and replicas of a
  service are modelled for the dispatcher only.

## 7. Plan

Done: all modules above with their runs, and a theorem for every safety property of a
passing run. Open:

1. Partitioned topics with several consumers of a group, once a service is deployed
   with replicas: `ServiceProcess` and `Saga` assume one consumer per topic.
2. `Saga` with two orders that compete for stock, beyond what a run explores in
   minutes; its theorem already covers any number of orders.
