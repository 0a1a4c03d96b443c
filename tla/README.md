# LogiX: order-to-delivery flow in TLA+

LogiX is a set of NestJS services with one PostgreSQL database each.  They share
no state: they call each other over HTTP and publish events through an outbox and
Kafka.  What has to be right is spread over several databases: goods promised to
an order are really there, a truck never leaves with goods of a canceled order,
every cancellation and every granted dispatch is carried through although any
call may be lost, late or repeated.  This directory models that flow.

## 1. Inventory of the system

| component | state it keeps | operations | talks to |
|---|---|---|---|
| inventory-service | balances (on hand, reserved), reservation groups and lines, stock movements | reserve, release, receipt, adjustment, issue, reconcile | answers order-service; asks order-service (reconciler); consumes order and shipment events; emits StockReceived, StockReleased |
| order-service | sales orders (status, version, cancellation intent, reservation group, dispatch grant), batch decisions, inboxes | create, update, confirm, cancel, completeCancellation, authorize, authorize batch, shipment events, stock events, cancellation recovery | calls inventory-service inside its transactions; answers fulfillment-service; emits Order* |
| fulfillment-service | shipments, dispatch intents, batches, trip receipts, order cursors, inbox of delivery results | order events, picking transitions, dispatch, batch dispatch, claim, release, delivery results, recovery | calls order-service for grants; answers transport-service; emits Shipment* |
| transport-service | trips, memberships (rows), stops, operations, route plans, trip dispatches, delivery attempts | add/remove shipment (a saga of claims and releases), cancel, plan and approve a route, dispatch, driver actions, recovery | calls fulfillment-service; emits DeliveryCompleted / DeliveryFailed |
| libs/messaging | outbox rows | relay, consumer | all of the above |
| identity, master-data, gateway, agent, forecast, route-optimizer, notification, audit | their own | CRUD, proxies, computations | not part of the flow modelled here |

What is hard in it:

* `confirm` and `update` call inventory-service while they hold a row lock; the
  call may time out and still be handled afterwards, so stock can be reserved for
  an order that does not know about it.
* cancellation and dispatch are two-phase over two services; each half may be
  lost, repeated or overtaken by the other.
* workers (reconciler, cancellation recovery, dispatch recovery, deferred
  delivery results) repeat work of request handlers that may still be running.
* one event handler (driver results) reads a row without the lock every other
  writer takes.
* the FIFO retry of pending orders reads a list and then works it off, one
  transaction per order, while users change the same orders.
* a handler that throws blocks all later events of its partition.
* transport-service changes a trip in its own database and the claims on its
  shipments in fulfillment's, by operations that a worker with a lease carries out
  and another one repeats; a claim may be granted after its caller has given up,
  been refused by a retry and been compensated.
* a trip leaves in two databases: fulfillment dispatches the batch, transport
  commits the trip later; there is no lease on that work at all.
* outbox relays publish inside a database transaction that may time out while a
  message is on its way.

The complete list, each at its line, with the properties that would notice, is
`hazards` in `PROJECT.json`.

## 2. Modules

| module | models | composed of |
|---|---|---|
| `Inventory` | inventory-service; one action per transaction | |
| `Order` | order-service; `confirm` and `update` are a Begin and a Commit or Abort step, with the row lock in between | |
| `OrderReservation` | order and inventory over an unreliable HTTP call: confirmation, cancellation, reconciler, recovery | Order, Inventory |
| `StockRetry` | the FIFO retry of PENDING_STOCK orders | Order, Inventory |
| `Fulfillment` | fulfillment-service: shipments, intents, batches, claims, delivery results | |
| `Dispatch` | order, fulfillment and inventory from confirmation to issued stock | Order, Inventory, Fulfillment |
| `Trip` | transport-service: commands on trips, the saga of claims and releases, approval and reopening, the ShipmentCanceled consumer, the dispatch of a trip, the driver's results | |
| `TripFulfillment` | transport and fulfillment: the answers to claims, releases and batches, calls handled late, events both ways | Trip, Fulfillment |
| `Custody` | abstract: which trip holds a shipment and where the shipment is; a trip leaves once and as a whole | implemented by TripFulfillment |
| `Outbox` | outbox table, relays, Kafka's log, consumer with inbox | |
| `Delivery` | abstract: events of an aggregate take effect once, in order, and in the end | implemented by Outbox |
| `InventoryProofs`, `OrderProofs`, `FulfillmentProofs`, `TripProofs`, `OutboxProofs` | theorems and proofs about one service | |
| `ReservationProofs`, `DispatchProofs`, `TripFulfillmentProofs` | theorems and proofs about services together | OrderProofs; FulfillmentProofs; TripProofs and FulfillmentProofs |
| `MC*` | instances for TLC | |

**State.**  A variable is a table or the part of it the properties tell apart
(`order` = `sales_orders`, `rsv` = `reservation_groups` with their lines, `ship` =
`shipments`, `intent` = `shipment_dispatch_intents`, `dispatch` =
`shipment_dispatch_batches`, `claims` = `shipment_trip_receipts`, `cursor` =
`shipment_order_cursors`, `result` = the inbox of delivery results).  Outboxes are
`orderLog` and `shipLog`; the inbox of a consumer is the set of events it has
handled.  Variables that stand for no table: `tx` (who holds the lock of an order
row), `applying` (a delivery handler between its read and its write),
`reserveNet`, `releaseNet`, `calls` (messages in flight), `answer`, `canceller`,
`plan`, `handler` (local state of a running request or worker), and `about` (the
products in the payload of an order's event: what was short, or what was edited).

In `Trip`, `trip` = `delivery_trips`, `op` = `trip_operations`, `member` =
`trip_shipments`, `stop` = `trip_stops`, `td` = `trip_dispatches`; `worker` and
`courier` are the processes that resume an operation or a dispatch, with the list
of calls they have read and the answer they hold; `late` are calls whose caller
has given up.  The row `<<i, s>>` is the membership that operation `i` made for
shipment `s` and stands for its claim request id too.  A release call carries the
request that was read, not the one in the table when it is handled.

**Data.**  Customers, addresses, prices and snapshots are left out.  A line is a
quantity per product; a reservation key `order:{id}:v{version}` is the pair
`<<o, v>>`; the id of a reservation group is the version in its key (key and
group are one to one).  Decimal quantities are small naturals: the code compares
and adds them exactly.

**Steps.**  A database transaction that locks its row first and makes no remote
call is one step.  Requests that answer with an error or replay a stored answer
change nothing and are no step, except in compositions, where the answer itself
matters.

**Messages.**  An HTTP request may be lost, delayed past its caller's timeout, or
handled and its answer lost.  Events: the outbox query of
`prisma-outbox.store.ts` takes the oldest unpublished row of an aggregate, Kafka
keeps the order of a key, and a handler that throws is called again.  So a
consumer sees the events of an aggregate in version order, at least once; its
inbox makes that once.  This is what module `Delivery` says and run `outbox`
shows for the relay and consumer code; the other modules rely on it.

## 3. Runs

| run | instance | shows |
|---|---|---|
| `inventory` | 2 orders, 2 versions, 2 products, 2 receipts, 1 adjustment | the stored `reserved` total is the sum of the active lines; never more than on hand; no unit lost or issued twice; ended groups stay ended |
| `order` | 2 orders, 2 requests, 1 batch, confirm/update up to version 2 | grants and cancellations exclude each other; grants are unique and irrevocable; batch decisions stay true; every status change is one the state machine allows |
| `reservation` | 1 order, 2 demands, 1 receipt, versions up to 2; requests lost or late | a confirmed order holds its goods; the next confirm's key is usable; cancellations complete; orphaned reservations are resolved |
| `stock_wakeup` | 2 orders competing for 1 unit, 1 failed pass, no manual retries | no order stays pending while its stock is there; no event decides about an order twice |
| `stock_lost` (violation) | 1 order, manual retries | the wake-up is lost, see section 6 |
| `fulfillment` | 2 shipments, 2 requests, 1 batch, 2 claims, 3 driver results of which one contradicts the others | a pending batch keeps hold of its shipments; what has left has a completed intent; rows and receipts agree about claims; results show |
| `delivery_race` (violation) | 1 shipment, manual results on a trip | a terminal shipment is overwritten, see section 6 |
| `dispatch` | 1 order, 2 requests, 1 batch, 1 claim; calls lost and repeated | goods leave only under a grant; a grant is held and completed; cancellations arrive; no event poisons a consumer |
| `trip_shipments` | 1 trip, 2 shipments, 2 planners, 2 operations, 2 dispatches, 1 worker, 1 courier; orders canceled at any time, calls lost or late | a submitted dispatch keeps hold of its trip (`SubmittedHolds`); what has left with a trip left under a dispatch transport still knows (`LeavesWithTrip`); every claim is on transport's books (`ClaimsAccounted`); the two services implement `Custody` |
| `trip_delayed` | 1 trip, 2 shipments of which one has to be compensated, 1 operation, 2 workers whose leases run out while they are busy, a direct dispatch | a shipment on a manifest is backed by the very claim of its row (`ManifestBacked`) |
| `trip_liveness` | 1 trip, 2 shipments of which one has to be compensated, 1 planner, 2 operations, no cancellations of orders | operations, dispatches and driver results are carried through although workers crash and calls are lost |
| `outbox` | 3 aggregates, 4 events of which two are refused by the broker, batches of 2, 2 relays, 1 fault | the relays and consumers implement `Delivery`, its fairness included |

**Bounds.**  `MaxVersion` bounds the versions at which confirm and update start;
two are enough for an order that was pending, edited or given up once and is
confirmed under a new key while the old key is still in flight.  `ManualVersion`
bounds what users do in `StockRetry`; `MaxVersion` there is large enough never to
stop a retry.  `MaxFailures` counts failed passes.  `MaxQty` bounds one line or movement.  Two orders are what conflicts
about stock, requests and batches need; three would repeat the pairs.
Quantities 1 and 2 against 1 to 3 units give both enough and too little.  The
runs of `StockRetry` have one product; two are out of reach.

`MaxTripVersion` bounds the version at which a command on a trip is accepted, and
`Operations`, `Batches` are the rows there can be; two of each are what one needs
to remove or cancel what was added and to dispatch again after a refusal.  Two
shipments make partly granted additions and partial batches possible.  The
handover of one shipment between two trips (2 trips, 1 shipment, 3 operations, 2
planners) was checked for `ClaimsAccounted` as well (378,474 states); it is no run
of its own.  `MaxFaults` bounds the crashes, timeouts and failed sends in
`Outbox`; one is enough for a relay that goes on sending without its locks while
another one sends the same row and the next.  With one aggregate less, two faults
were checked too.  `MaxEvents` bounds the events of an aggregate.

`CHECK_DEADLOCK FALSE` everywhere: a behaviour in which all orders are finished
and nobody does anything is legal.

**Environment choices.**  `ManualOnTrip` says whether users also call
mark-delivered and mark-failed for shipments on a trip.  The code allows it;
`fulfillment` and `dispatch` leave it out to see everything else, `delivery_race`
shows what it does.  `ManualRetry` does the same for retries of pending orders.
In `TripFulfillment`, `BadPlaces` and `Unreadable` are the shipments whose snapshot
has unusable coordinates or does not parse, `OrdersCancel` says whether orders are
canceled, `DirectRequests` are dispatch requests for single shipments, and
`LeaseExpires` says whether a lease may run out under a worker that is alive.
Section 6 says which of them are off in a run because the code does not survive
them.

## 4. Fairness

Weak fairness for what a process does by itself and nobody can prevent: a
transaction in progress ends, a consumer handles or repeats its next event,
a worker wakes up again (`setTimeout` loops of the reconciler and the recovery
services, which re-arm in `finally`).  Strong fairness for calls over the
network: any finite number may be lost, but a call that is repeated for ever by a
worker is answered in time in the end.  Nothing is assumed of users, receipts or
drivers.  The workers take a limited batch of the oldest rows; that every row has
its turn is part of the assumption and is listed as a hazard.

`FairBothSpec` of `TripFulfillment` says that crashes, lost answers and failed
transactions cease in the end (`<>[][~Disturbance]`), that a worker or courier
proceeds (weak fairness), and that the recovery worker, which looks for due
operations again and again, takes up each of them (strong fairness: while another
operation keeps the worker busy, `Resume` is not enabled).  The ShipmentCanceled
consumer throws while the trip is busy and is called again, so it is strongly
fair too.  `OutboxSpec` gives every row that is due again and again its turn
(strong fairness).  This is where `outboxRetryDelay` matters: a refused row rests
for up to 30 s while the relay flushes every second.  With weak fairness TLC shows
the starvation of all other rows by a batch full of refused ones.

## 5. Proofs

`InventoryProofs` proves, for every finite set of orders and movements and every
set of products, that `LedgerInv` is an invariant: the type invariant,
`ReservedIsActiveLines`, `ReservedOnHand`, `StockConserved` and `OneActiveGroup`
together.  None of the ledger facts is inductive alone: a release keeps
`ReservedOnHand` only because the reserved total is the sum of the active lines;
an issue moves a group from the active to the issued sum, so both sums have to
be followed at once.  The lemmas `TotalAdd`, `TotalUnion`, `TotalSame` say how
`Total` changes when a member joins, when disjoint sets are united and when the
quantities agree.  `EndedForGood` proves the action property `EndedGroupsStay`
from the type invariant.

`OrderProofs` proves for every set of orders, requests and batches that
`OrderInv` is an invariant: types, `OrderRows` (what the columns of a row and the
holder of its lock say about each other), `RequestGrantedOnce` and `BatchStands`.
`OrderRows` is needed because "a granted order is not canceled" is broken by an
order that is granted while a confirm or a cancellation is under way: one has to
know that a lock holder works on an editable order, and that an intent pins the
status before dispatch.  `GrantsAreFinal` proves `GrantIrrevocable`,
and `StatusMovesAsAllowed` proves `StatusFollowsStateMachine`: the
confirmation after the reserve call and the second half of a cancellation write the
status without asking the state machine, and it is again `OrderRows` that says from
which status they do so.

`FulfillmentProofs` proves for every set of shipments, requests, batches, trips,
claims and results that `FulInv` is an invariant: `FulfillmentTypeOK`,
`LeftByIntent`, `PendingBatchBound`, `ClaimsAgree`, and two facts none of these
can do without.  `ClaimIds` (a claim request leaves one receipt) is what makes the
release of one claim leave the others alone; `ReadResults` says that a delivery
result which has read its shipment still finds it on the same trip and gone, for
the write that follows looks at nothing.  `ResultInv` adds `ReadStands` (the
shipment a result has read is still on the road) and gives `AppliedResultShows`
and the action property `TerminalStays`.  Both theorems have the hypothesis
`~ManualOnTrip`; without it they are false, which is what run `delivery_race`
shows (section 6).

`ReservationProofs` proves `ConfirmedHoldsStock` and `NextKeyUsable` for every set
of orders, every stock, and whatever calls are lost, late or repeated.  The
inductive invariant `ResInv` follows the idempotency key `<<order, version>>` through
all the places it can be: a group's key is never ahead of its order (`KeysFit`), a
request in flight has the key and the lines the row had when it was sent
(`RequestsFit`), an answer that says RESERVED is backed by the group (`AnswersHold`),
and a release under way, by recovery, by a cancellation or by a decision of the
reconciler, is about an order that is being canceled or a key that was given up
(`ReleasesMeant`).  Each is broken without the others by a call that is handled
after its caller has moved on.

`DispatchProofs` proves `LeavesUnderGrant`, `GrantHeld` and `NoPoisonedEvent` for
the three services together.  `DisInv` contains `OrderInv` and, through the instance
`FulP == INSTANCE FulfillmentProofs`, `FulInv`: the lemmas about one service are
reused, step by step, for its steps in the composition.  What is added is the
knowledge of the services about each other: a quoted version stands until the
order is granted or canceled (`QuoteFits`), an intent and the grant for it name
the same request (`IntentFits`, `GrantFits`), no request serves two shipments
(`IntentIds`), a call in flight is about the present intent (`CallFits`,
`BatchFits`), a group is issued only for goods that have left (`IssueFits`,
`StockFits`, `ShipFits`), and the events in the two outboxes speak of the order and the
shipment as they are.  TLC has checked `DisInv` on the instance of run `dispatch`
and in simulation with two orders.

`OutboxProofs` proves that every step of `Outbox` is a step of `Delivery` or
changes nothing there (`DeliversInOrder`), for any number of aggregates, events,
relays and faults and any batch size.  The consumer does not look at the order of
events; it only knows what it has had before.  So the order has to be carried
along every way of a message: the rows of an aggregate have no gaps (`Numbered`);
what is marked is in the log (`MarksTrue`); what is in a batch, even of a relay
that lost its locks, or was given up and may still arrive, has all predecessors
published (`InFlight`); hence a message in the log comes after a copy of each
predecessor, although old copies may come later again (`LogOrdered`); hence the
message at the offset is a copy of what took effect or the next event
(`Consumed`).

`TripProofs` proves for every set of trips, planners, operations, dispatches,
workers and couriers, every finite set of shipments and whatever the
fulfillment-service answers (`TripSpec`), that `TripInv` is an invariant as long
as no lease runs out under a busy worker, and from it `TripTypeOK` and
`SubmittedHolds`.  "A submitted dispatch keeps hold of its trip" is not inductive:
finalize, persistClaim, persistRelease and beginCompensation write the trip and
its rows without looking at the dispatches.  What keeps them away is spread over
three tables, and `TripInv` says it: an operation holds the lock of its trip
exactly until it is finalized (`OpRows`); a row is handled by operations of its own
trip only, and so are the rows a worker carries in memory (`RowsAtHome`, `AtHome`);
a busy worker holds the lease of its active operation alone (`LeasesHeld`); a trip
has at most one lock, and none unless all its dispatches are rejected, and at most
one dispatch that is not (`OneWriter`); a trip whose dispatch is completed has left
(`Departed`), so that a draft has rejected dispatches only.  The steps fall into
five kinds, with a lemma each: a command that writes the trip alone (`TripOnly`), one
that leaves an operation (`NewOperation`), the step of a worker (`WorkerStep`), of
a courier (`DispatchStep`), and the two that begin and commit a dispatch; they
share `OthersBound`, which says that the owner of one trip cannot disturb the
dispatch of another.  The hypothesis `~LeaseExpires` is what the code takes for
granted: `finalize` does not look whether the operation is still to be finalized,
and the lease is the only thing that keeps a second worker away (section 6).

`TripFulfillmentProofs` proves the properties of transport and fulfillment together
(`BothSpec`), for every set of trips, dispatches, claims, batches and processes and
every finite set of shipments.  It has the lemmas of `TripProofs` and, through the
instance `FulP == INSTANCE FulfillmentProofs`, those about fulfillment.  The
invariants were first checked by TLC on the instance of `trip_shipments`.

* `ManifestIsBacked` has no hypothesis: a load that a dispatch may take along is
  held by the trip even if leases run out and claims cannot be read.  `SafeInv`
  says why (`Books`): a row that was ever active has a receipt with fulfillment
  (`RowFits`), a receipt names the trip, shipment and user of the row that asked for
  it and is closed only for a row that is given up (`ReceiptFits`), and calls late or
  in the hands of a worker are about rows as they are (`LateFits`, `WorkerFits`).
  So an ACTIVE row has an open receipt, and `ClaimsAgree` of fulfillment does the rest.
* `WhatLeavesIsKnown` (`LeavesWithTrip`) has the hypothesis `OneCourier`.
  `DispatchInv` follows a batch from the row of the dispatch to fulfillment: a
  batch that fulfillment knows, and a call in flight that may still create it, belong
  to a dispatch that is submitted or completed; `GoneInv` adds that what has left
  with a trip left with such a batch.  With two couriers the error path rejects a
  dispatch that the other one has submitted (section 6, "Two resumes").
* `SubmittedKeepsTripHere` is `SubmittedHolds` for the composition, with the
  hypothesis of `TripProofs`: what fulfillment really answers is among the answers
  that module allows.
* `ClaimsAreAccounted` (`ClaimsAccounted`) needs that no lease runs out, that no
  claim is unreadable and that no direct dispatch is asked for (section 6,
  "Stalled worker", "Unreadable claim", "Late claim").  The difficulty is a claim
  that is handled after its row was dropped.  `AccountInv` says that a row is
  dropped only when its claim was never sent, refused or released, and that where
  it was sent, the shipment has left the version the claim asks for (`AskedFits`,
  `WaitFits`, `RemovedFits`), so that no late call can be granted; `InOrder` and
  `ListFits` say the same of the rows a worker still has on its list.
* `TripsKeepCustody` proves the whole of `ImplementsCustody`, under the hypotheses
  of the others together: a granted claim is `Take`, a release `GiveBack`, the commit of a
  batch `Depart`, the cancellation of an order `Withdraw`, the write of a delivery
  result `Arrive`, and every other step of either service changes nothing there.
  The step that needs most is the departure.  `Custody` lets a trip leave only as a
  whole; fulfillment knows only the batch.  `ManifestInv` (the rows of a trip with a
  pending dispatch are all ACTIVE, and an active row has a version) and
  `ClaimsAccounted` together say that the batch is everything the trip holds.

Assumptions: `MaxQtyAssumption`, `InventoryAssumption`, `OrderAssumption`,
`StockAssumption`, `FulfillmentAssumption`, `ShipmentAssumption`, `TripAssumption`,
`TripFulfillmentAssumption`, `OutboxAssumption`: the constants have the types the
tables give them and the bounds are numbers. TLC evaluates them in the runs
`inventory`, `order`, `reservation`, `fulfillment`, `dispatch`, `trip_shipments` and
`outbox`.

Only model-checked:

* liveness, and with it the second half of `ImplementsDelivery` (the fairness of
  `DeliverySpec`): the prover knows neither fairness nor ENABLED;
* `StockRetry` with `DecidedOnce`: no proof has been written for this module.

## 6. Where the code and its documentation disagree

* **Lost wake-up** (`stock_lost`).  A user retries an order that is already
  PENDING_STOCK; inventory answers "insufficient"; a receipt arrives and its pass
  reads the order at its old version; the retry commits, which raises the version
  and emits no event; the pass gets ORDER_VERSION_CONFLICT, skips the order
  (`order-stock-events.service.ts:125`) and marks the event processed.  The order
  stays pending although its stock is there, until some other stock event or user
  touches it.  The service's README (lines 108-110) says that the pending events
  cover receipts that arrive before the pending state commits.
* **Overwritten terminal shipment** (`delivery_race`).  The handler of driver
  results reads the shipment at `shipment-delivery-events.service.ts:217` without
  the row lock and updates it by id at line 258.  A mark-delivered or mark-failed
  that commits in between is overwritten by the opposite result.
  `docs/architecture/event-architecture.md:103-105` says that conflicting results
  never overwrite a terminal shipment.

The model of the transport-service showed more.  Each of these is a change of
constants away from a passing run, and TLC then finds the property violated:

* **Release by another planner** (two `Users` in `trip_liveness`:
  `OperationsFinish`).  fulfillment compares the actor of a release with the actor
  of the claim (`shipment-trip-claim.service.ts:320`); removal and cancellation
  send the user of the command (`trip-membership.service.ts:273`,
  `trip-cancellation.service.ts:248`).  When another user of the tenant cancels the
  trip, the release is refused for ever and the trip stays locked.
  `docs/architecture/database-design.md:1081` asks for the original
  claim/trip/shipment binding only.
* **Release against a cancellation** (`OrdersCancel = TRUE` in `trip_liveness`:
  `OperationsFinish`).  A release that was prepared before the order's
  cancellation quotes the old version and is refused
  (`shipment-trip-claim.service.ts:329`), while the ShipmentCanceled consumer,
  which knows the new one, throws because the row is RELEASE_PENDING
  (`shipment-canceled.consumer.ts:83`).  `database-design.md:1085-1086` says that a
  canceled shipment "can complete release cleanup".
* **Unreadable claim** (`Unreadable = {1}` in `trip_shipments`:
  `ClaimsAccounted`).  A granted claim whose snapshot does not parse is
  compensated without its receipt (`trip-membership.service.ts:382`), so no
  release is sent and fulfillment holds the claim for ever.
  `apps/transport-service/README.md:328-329` says that "any successful upstream
  claim is durably released before clearing membership".
* **Late claim** (`DirectRequests = {q1}` in `trip_shipments`:
  `ClaimsAccounted`).  A claim times out, its retry is refused because of a direct
  dispatch, the dispatch is refused too, and then the first request is handled.
* **Two resumes of a dispatch** (two `Couriers` in `trip_shipments`:
  `LeavesWithTrip`).  The error path reads the stage and rejects the row later by
  id and status only (`trip-dispatch.service.ts:153-156`); another resume submits
  in between.  The goods leave and the trip may be reopened, although the comment
  at line 110 says that the stage "proves no cross-service mutation has been
  attempted".
* **Stalled worker** (two `Workers` and `LeaseExpires = TRUE` in `trip_shipments`:
  `SubmittedHolds`).  `finalize` (`trip-membership.service.ts:730`) does not look
  whether the operation is still to be finalized; a worker whose lease ran out
  raises the trip's version a second time, and a dispatch that was submitted
  meanwhile can never be committed.

## 7. Not modelled, and the plan

Not modelled: identity, master data, gateway, agents, forecast, route optimizer,
notification, audit (no part in the flow, or computation without shared state),
query services (read-only), authentication, payload validation and hashing, and
the making of route proposals (`approve` takes any order of the stops).  Most of
the repository's lines are clients that Prisma generates from the schemas; they
hold no logic of their own, and the tables they give access to are the variables
of the modules.

Next: `RoutePlan`, with proposals, previews and their expiry.
