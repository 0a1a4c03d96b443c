-------------------------------- MODULE Order --------------------------------
(***************************************************************************)
(* The order-service: the sales order row and the commands, dispatch       *)
(* authorisations and event handlers that write it.  Each of them locks    *)
(* the row (lockOrder, SELECT ... FOR UPDATE) for its whole transaction.   *)
(*                                                                         *)
(* confirm and update call inventory-service while they hold the lock:     *)
(* they are a Begin step, after which tx[o] holds the lock, and a Commit   *)
(* or Abort step (error answer, timeout or crash: rolled back).  Every     *)
(* other transaction is one step and waits for the lock.  Handlers that    *)
(* answer with an error or a replay leave the row alone and are no step.   *)
(*                                                                         *)
(* A reservation group is named by the order version of its idempotency    *)
(* key order:{id}:v{version}; 0 is "no group".                             *)
(***************************************************************************)
EXTENDS Integers, FiniteSets

CONSTANTS
    Orders,        \* order ids
    Demands,       \* what an order's lines (and warehouse) may ask for
    Requests,      \* dispatch request ids
    Batches,       \* request ids of batch dispatch authorisations
    MaxVersion,    \* bound: confirm and update start at this version at most
    NoRequest      \* no dispatch request

ASSUME OrderAssumption ==
    /\ Demands # {}
    /\ MaxVersion \in Nat
    /\ NoRequest \notin Requests

VARIABLES
    order,      \* sales_orders rows
    tx,         \* the reservation or update transaction holding the row lock
    clock,      \* the service's clock, as far as pendingSince observes it
    orderLog,   \* outbox_events of the service
    batch       \* order_dispatch_batches: the payload and decision of a batch

orderVars == <<order, tx, clock, orderLog, batch>>

Status == {"NONE", "DRAFT", "PENDING_STOCK", "CONFIRMED", "PICKING",
           "READY_TO_SHIP", "IN_DELIVERY", "COMPLETED", "DELIVERY_FAILED",
           "CANCELED"}

EDITABLE == {"DRAFT", "PENDING_STOCK"}
CANCELABLE == {"DRAFT", "PENDING_STOCK", "CONFIRMED", "PICKING", "READY_TO_SHIP"}

ALLOWED_TRANSITIONS ==
    [s \in Status |->
       CASE s = "DRAFT"           -> {"PENDING_STOCK", "CONFIRMED", "CANCELED"}
         [] s = "PENDING_STOCK"   -> {"CONFIRMED", "CANCELED"}
         [] s = "CONFIRMED"       -> {"PICKING", "CANCELED"}
         [] s = "PICKING"         -> {"READY_TO_SHIP", "CANCELED"}
         [] s = "READY_TO_SHIP"   -> {"IN_DELIVERY", "CANCELED"}
         [] s = "IN_DELIVERY"     -> {"COMPLETED", "DELIVERY_FAILED"}
         [] s = "DELIVERY_FAILED" -> {"IN_DELIVERY"}
         [] OTHER                 -> {}]

canTransition(from, to) == to \in ALLOWED_TRANSITIONS[from]

Row == [status     : Status,
        version    : Nat,
        lines      : Demands,
        cancelling : BOOLEAN,                    \* cancellationRequestedAt
        group      : Nat,                        \* reservationGroupId
        grant      : Requests \cup {NoRequest},  \* dispatchRequestId, granted
        since      : Nat,                        \* pendingSince, 0 for null
        seen       : Nat]                        \* last APPLIED shipment version

Transaction == [kind : {"none", "confirm", "update"}, lines : Demands]

Event == [type    : {"OrderCreated", "OrderUpdated", "OrderConfirmed",
                     "OrderPendingStock", "OrderCanceled"},
          order   : Orders,
          version : Nat,
          status  : Status,
          group   : Nat]

\* child[o] is the dispatch request of order o in the batch, if o is in it.
Children == [Orders -> Requests \cup {NoRequest}]
NoChildren == [o \in Orders |-> NoRequest]

BatchRow == [decision : {"NONE", "GRANTED", "REJECTED"}, child : Children]

OrderTypeOK ==
    /\ order \in [Orders -> Row]
    /\ tx \in [Orders -> Transaction]
    /\ clock \in Nat
    /\ orderLog \subseteq Event
    /\ batch \in [Batches -> BatchRow]

AnyLines == CHOOSE lines \in Demands : TRUE

OrderInit ==
    /\ order = [o \in Orders |->
                  [status |-> "NONE", version |-> 0, lines |-> AnyLines,
                   cancelling |-> FALSE, group |-> 0, grant |-> NoRequest,
                   since |-> 0, seen |-> 0]]
    /\ tx = [o \in Orders |-> [kind |-> "none", lines |-> AnyLines]]
    /\ clock = 0
    /\ orderLog = {}
    /\ batch = [b \in Batches |-> [decision |-> "NONE", child |-> NoChildren]]

-----------------------------------------------------------------------------
Unlocked(o) == tx[o].kind = "none"
Exists(o) == order[o].status # "NONE"
Granted(o) == order[o].grant # NoRequest

\* Every write of a row also increments its version.
Bumped(row) == [row EXCEPT !.version = @ + 1]

Write(o, row) == order' = [order EXCEPT ![o] = Bumped(row)]

Emit(type, o, row) ==
    orderLog' = orderLog \cup {[type |-> type, order |-> o,
                                version |-> order[o].version + 1,
                                status |-> row.status, group |-> row.group]}

Unlock(o) == tx' = [tx EXCEPT ![o].kind = "none"]

assertWritable(o, statuses) ==
    /\ ~Granted(o)
    /\ ~order[o].cancelling
    /\ order[o].status \in statuses

assertConfirmable(o, retryOnly) ==
    /\ ~order[o].cancelling
    /\ \/ order[o].status = "PENDING_STOCK"
       \/ ~retryOnly /\ order[o].status = "DRAFT"

(***************************************************************************)
(* create: a new DRAFT at version 1.  The idempotency key is the order id  *)
(* here: a second create with the key replays the first.                   *)
(***************************************************************************)
Create(o, lines) ==
    LET row == [order[o] EXCEPT !.status = "DRAFT", !.lines = lines] IN
    /\ ~Exists(o)
    /\ Write(o, row)
    /\ Emit("OrderCreated", o, row)
    /\ UNCHANGED <<tx, clock, batch>>

(***************************************************************************)
(* confirm with the caller's expected version v: the checks, then the      *)
(* reserve call of inventory-service, whose answer is the outcome.         *)
(* retryOnly is set when a stock event retries a PENDING_STOCK order.      *)
(***************************************************************************)
BeginConfirm(o, v, retryOnly) ==
    /\ Unlocked(o)
    /\ assertConfirmable(o, retryOnly)
    /\ order[o].version = v
    /\ v <= MaxVersion
    /\ tx' = [tx EXCEPT ![o] = [kind |-> "confirm", lines |-> order[o].lines]]
    /\ UNCHANGED <<order, clock, orderLog, batch>>

CommitReserved(o) ==
    LET row == [order[o] EXCEPT !.status = "CONFIRMED", !.group = order[o].version] IN
    /\ tx[o].kind = "confirm"
    /\ Write(o, row)
    /\ Emit("OrderConfirmed", o, row)
    /\ Unlock(o)
    /\ UNCHANGED <<clock, batch>>

\* The first pendingSince is kept; OrderPendingStock only on entering the state.
CommitInsufficient(o) ==
    LET first == order[o].since = 0
        row == [order[o] EXCEPT !.status = "PENDING_STOCK",
                                !.since = IF first THEN clock + 1 ELSE @] IN
    /\ tx[o].kind = "confirm"
    /\ Write(o, row)
    /\ clock' = IF first THEN clock + 1 ELSE clock
    /\ IF order[o].status = "PENDING_STOCK" THEN UNCHANGED orderLog
       ELSE Emit("OrderPendingStock", o, row)
    /\ Unlock(o)
    /\ UNCHANGED batch

(***************************************************************************)
(* update: inventory-service must answer, under the lock, that the order   *)
(* has no ACTIVE group.  An update that carries content (lines, warehouse) *)
(* restarts the pendingSince of a PENDING_STOCK order.                     *)
(***************************************************************************)
BeginUpdate(o, lines) ==
    /\ Unlocked(o)
    /\ assertWritable(o, EDITABLE)
    /\ order[o].version <= MaxVersion
    /\ tx' = [tx EXCEPT ![o] = [kind |-> "update", lines |-> lines]]
    /\ UNCHANGED <<order, clock, orderLog, batch>>

CommitUpdate(o, content) ==
    LET restart == content /\ order[o].status = "PENDING_STOCK"
        row == [order[o] EXCEPT !.lines = IF content THEN tx[o].lines ELSE @,
                                !.since = IF restart THEN clock + 1 ELSE @] IN
    /\ tx[o].kind = "update"
    /\ Write(o, row)
    /\ clock' = IF restart THEN clock + 1 ELSE clock
    /\ Emit("OrderUpdated", o, row)
    /\ Unlock(o)
    /\ UNCHANGED batch

\* The transaction of a confirm or an update is rolled back.
Abort(o) ==
    /\ ~Unlocked(o)
    /\ Unlock(o)
    /\ UNCHANGED <<order, clock, orderLog, batch>>

(***************************************************************************)
(* cancel persists the intent; completeCancellation, after the release     *)
(* call, makes the order CANCELED unless it was granted or finished first. *)
(***************************************************************************)
\* Mutant: the intent is a status of its own instead of a column.
CancelAsStatus(o) ==
    /\ Unlocked(o)
    /\ assertWritable(o, CANCELABLE)
    /\ Write(o, [order[o] EXCEPT !.status = "CANCELING"])
    /\ UNCHANGED <<tx, clock, orderLog, batch>>

RequestCancel(o) ==
    /\ Unlocked(o)
    /\ assertWritable(o, CANCELABLE)
    /\ canTransition(order[o].status, "CANCELED")
    /\ Write(o, [order[o] EXCEPT !.cancelling = TRUE])
    /\ UNCHANGED <<tx, clock, orderLog, batch>>

\* Mutant: the intent is not checked again under the lock.
FinishesUnchecked(o) == Exists(o) /\ order[o].status # "CANCELED"

CanFinishCancel(o) ==
    /\ ~Granted(o)
    /\ order[o].status # "CANCELED"
    /\ order[o].cancelling

FinishCancel(o) ==
    LET row == [order[o] EXCEPT !.status = "CANCELED", !.cancelling = FALSE] IN
    /\ Unlocked(o)
    /\ CanFinishCancel(o)
    /\ Write(o, row)
    /\ Emit("OrderCanceled", o, row)
    /\ UNCHANGED <<tx, clock, batch>>

(***************************************************************************)
(* authorize, one order: a new grant for request r made for version v and  *)
(* group g.  The dispatch request id is unique over orders.                *)
(***************************************************************************)
\* Mutants: a cancellation intent, or an earlier grant, is overlooked.
DispatchableCancelling(o, v, g) ==
    /\ ~Granted(o)
    /\ order[o].status = "READY_TO_SHIP"
    /\ order[o].version = v
    /\ order[o].group # 0 /\ order[o].group = g

DispatchableAgain(o, v, g) ==
    /\ ~order[o].cancelling
    /\ order[o].status = "READY_TO_SHIP"
    /\ order[o].version = v
    /\ order[o].group # 0 /\ order[o].group = g

Dispatchable(o, v, g) ==
    /\ Exists(o)
    /\ ~Granted(o)
    /\ ~order[o].cancelling
    /\ order[o].status = "READY_TO_SHIP"
    /\ order[o].version = v
    /\ order[o].group # 0 /\ order[o].group = g

RequestUsed(r) == \E o \in Orders : order[o].grant = r

Authorize(o, r, v, g) ==
    /\ Unlocked(o)
    /\ Dispatchable(o, v, g)
    /\ ~RequestUsed(r)
    /\ Write(o, [order[o] EXCEPT !.grant = r])
    /\ UNCHANGED <<tx, clock, orderLog, batch>>

(***************************************************************************)
(* authorize, a batch: the child request, the version and the group that   *)
(* the caller gives for each order.  Either every order of the batch is    *)
(* granted or none is; payload and decision are stored, and a later call   *)
(* with the batch's request id replays them.                               *)
(***************************************************************************)
Members(child) == {o \in Orders : child[o] # NoRequest}

\* Mutant: the child requests are not compared with earlier grants.
BatchReusesRequests(child, ver, grp) ==
    \A o \in Members(child) : Dispatchable(o, ver[o], grp[o])

BatchDispatchable(child, ver, grp) ==
    \A o \in Members(child) : /\ Dispatchable(o, ver[o], grp[o])
                             /\ ~RequestUsed(child[o])

\* Mutant: the batch is granted, but only for the orders that can leave.
PartialBatch(b, child, ver, grp) ==
    /\ batch[b].decision = "NONE"
    /\ batch' = [batch EXCEPT ![b] = [decision |-> "GRANTED", child |-> child]]
    /\ order' = [o \in Orders |->
                   IF o \in Members(child) /\ Dispatchable(o, ver[o], grp[o])
                   THEN Bumped([order[o] EXCEPT !.grant = child[o]])
                   ELSE order[o]]
    /\ UNCHANGED <<tx, clock, orderLog>>

AuthorizeBatch(b, child, ver, grp) ==
    LET granted == BatchDispatchable(child, ver, grp) IN
    /\ batch[b].decision = "NONE"
    /\ \A o \in Members(child) : Unlocked(o)
    /\ batch' = [batch EXCEPT ![b] =
                   [decision |-> IF granted THEN "GRANTED" ELSE "REJECTED",
                    child |-> child]]
    /\ order' = [o \in Orders |->
                   IF granted /\ o \in Members(child)
                   THEN Bumped([order[o] EXCEPT !.grant = child[o]])
                   ELSE order[o]]
    /\ UNCHANGED <<tx, clock, orderLog>>

(***************************************************************************)
(* Shipment lifecycle events: sv is the shipment's aggregate version, g    *)
(* the reservation group and r the dispatch request of the payload.        *)
(* THROW leaves the event unconsumed, STALE consumes it without effect.    *)
(***************************************************************************)
TARGETS == {"PICKING", "READY_TO_SHIP", "IN_DELIVERY", "COMPLETED", "DELIVERY_FAILED"}

\* Mutant: a dispatched shipment moves the order without a grant.
VerdictWithoutGrant(o, target, sv, g, r) ==
    IF ~Exists(o) \/ order[o].group # g THEN "THROW"
    ELSE IF \/ sv <= order[o].seen
            \/ order[o].cancelling
            \/ ~canTransition(order[o].status, target)
         THEN "STALE"
    ELSE "APPLY"

ShipmentVerdict(o, target, sv, g, r) ==
    IF ~Exists(o) \/ order[o].group # g THEN "THROW"
    ELSE IF \/ sv <= order[o].seen
            \/ order[o].cancelling
            \/ ~canTransition(order[o].status, target)
            \/ target = "IN_DELIVERY" /\ order[o].status # "READY_TO_SHIP"
         THEN "STALE"
    ELSE IF target = "IN_DELIVERY" /\ (~Granted(o) \/ order[o].grant # r)
         THEN "THROW"
    ELSE "APPLY"

ApplyShipment(o, target, sv, g, r) ==
    /\ Unlocked(o)
    /\ ShipmentVerdict(o, target, sv, g, r) = "APPLY"
    /\ Write(o, [order[o] EXCEPT !.status = target, !.seen = sv])
    /\ UNCHANGED <<tx, clock, orderLog, batch>>

-----------------------------------------------------------------------------
\* The children of a batch are distinct (batchDispatchGrantRequestSchema).
DistinctChildren(child) ==
    /\ Members(child) # {}
    /\ \A a, b \in Members(child) : child[a] = child[b] => a = b

\* The version a caller gives for each order: current or stale.
CallerVersions(stale) ==
    [o \in Orders |-> IF o \in stale THEN order[o].version - 1 ELSE order[o].version]

OrderNext ==
    \/ \E o \in Orders :
          \/ \E lines \in Demands : Create(o, lines) \/ BeginUpdate(o, lines)
          \/ \E retryOnly \in BOOLEAN : BeginConfirm(o, order[o].version, retryOnly)
          \/ CommitReserved(o)
          \/ CommitInsufficient(o)
          \/ \E content \in BOOLEAN : CommitUpdate(o, content)
          \/ Abort(o)
          \/ RequestCancel(o)
          \/ FinishCancel(o)
          \/ \E r \in Requests : Authorize(o, r, order[o].version, order[o].group)
          \/ \E target \in TARGETS, sv \in 1 .. (order[o].seen + 1), r \in Requests :
                ApplyShipment(o, target, sv, order[o].group, r)
    \/ \E b \in Batches, child \in Children, stale \in SUBSET Orders :
          /\ DistinctChildren(child)
          /\ AuthorizeBatch(b, child, CallerVersions(stale),
                            [o \in Orders |-> order[o].group])

OrderSpec == OrderInit /\ [][OrderNext]_orderVars

-----------------------------------------------------------------------------
(***************************************************************************)
(* A dispatch grant and a cancellation exclude each other: a granted order *)
(* has no cancellation intent and is never CANCELED.                       *)
(***************************************************************************)
GrantExcludesCancellation ==
    \A o \in Orders : Granted(o) => /\ ~order[o].cancelling
                                    /\ order[o].status # "CANCELED"

(***************************************************************************)
(* Goods leave only under a grant, and a grant is only given for reserved  *)
(* goods.                                                                  *)
(***************************************************************************)
DeliveryUnderGrant ==
    \A o \in Orders :
        /\ order[o].status \in {"IN_DELIVERY", "COMPLETED", "DELIVERY_FAILED"} => Granted(o)
        /\ Granted(o) => order[o].group # 0

\* A dispatch request authorises at most one order.
RequestGrantedOnce ==
    \A a, b \in Orders : Granted(a) /\ order[a].grant = order[b].grant => a = b

\* A grant is irrevocable, and so is the reservation group it was given for.
GrantIrrevocable ==
    [][\A o \in Orders : Granted(o) => /\ order'[o].grant = order[o].grant
                                       /\ order'[o].group = order[o].group]_orderVars

(***************************************************************************)
(* The promise of a granted batch stands: each of its orders keeps the     *)
(* child request it was granted with, whatever is authorised later.        *)
(***************************************************************************)
BatchStands ==
    \A b \in Batches : batch[b].decision = "GRANTED"
        => \A o \in Members(batch[b].child) : order[o].grant = batch[b].child[o]

(***************************************************************************)
(* Every change of status is one the state machine allows, also where the  *)
(* writer does not ask it: the confirmation after the reserve call and the *)
(* second half of a cancellation.                                          *)
(***************************************************************************)
StatusFollowsStateMachine ==
    [][\A o \in Orders : order'[o].status # order[o].status
          => \/ order[o].status = "NONE" /\ order'[o].status = "DRAFT"
             \/ canTransition(order[o].status, order'[o].status)]_orderVars
=============================================================================
