------------------------------ MODULE Dispatch ------------------------------
(***************************************************************************)
(* From a confirmed order to goods on the road: order-service,             *)
(* fulfillment-service and inventory-service together.                     *)
(*                                                                         *)
(* Order events create and cancel the shipment; its lifecycle events move  *)
(* the order and, once it is dispatched, issue the reserved stock.  The    *)
(* shipment leaves only under a grant of order-service, which fulfillment  *)
(* asks for over HTTP after it has stored the intent.  Calls and answers   *)
(* may be lost, delayed and repeated, and the recovery worker asks again;  *)
(* an event is delivered in the order of its aggregate until its handler   *)
(* succeeds, and an inbox stops repeated deliveries.                       *)
(*                                                                         *)
(* confirm reserves and commits in one step here: what happens in between  *)
(* is the subject of module OrderReservation.                              *)
(***************************************************************************)
EXTENDS Order

CONSTANTS
    MaxQty, Products, Movements, Delta,                          \* Inventory
    Trips, Claims, Actors, Results, ResultOf, OrderVersions, Quotes,  \* Fulfillment
    ManualOnTrip, NoBatch, NoTrip, NoClaim

\* What the fulfillment-service assumes about its identifiers.
ASSUME ShipmentAssumption ==
    /\ NoRequest \notin Requests
    /\ NoBatch \notin Batches
    /\ NoTrip \notin Trips
    /\ NoClaim \notin Claims
    /\ OrderVersions \subseteq Nat \ {0}
    /\ Quotes \subseteq Nat
    /\ ResultOf \in [Results -> [order : Orders, trip : Trips,
                                outcome : {"DELIVERED", "FAILED"}]]
    /\ ManualOnTrip \in BOOLEAN

VARIABLES
    onHand, reserved, rsv, applied,                              \* inventory-service
    ship, intent, dispatch, claims, cursor, result, applying, shipLog,  \* fulfillment
    quote,         \* quote[o]: the order version a dispatcher was shown, or 0
    calls,         \* authorize calls in flight and their answers
    shipInbox,     \* order events handled by fulfillment-service
    orderInbox,    \* shipment events handled by order-service
    stockInbox     \* shipment events handled by inventory-service

Inv == INSTANCE Inventory
Ful == INSTANCE Fulfillment

stockVars == <<onHand, reserved, rsv, applied>>
shipVars == <<ship, intent, dispatch, claims, cursor, result, applying, shipLog>>
linkVars == <<quote, calls, shipInbox, orderInbox, stockInbox>>
dispatchVars == <<orderVars, stockVars, shipVars, linkVars>>

DispatchInit ==
    /\ OrderInit
    /\ Inv!InventoryInit
    /\ Ful!FulfillmentInit
    /\ quote = [o \in Orders |-> 0]
    /\ calls = {}
    /\ shipInbox = {} /\ orderInbox = {} /\ stockInbox = {}

-----------------------------------------------------------------------------
(* The order until it is confirmed or canceled *)

NewOrder(o) ==
    /\ \E lines \in Demands : Create(o, lines)
    /\ UNCHANGED <<stockVars, shipVars, linkVars>>

Confirm(o) ==
    /\ BeginConfirm(o, order[o].version, FALSE)
    /\ UNCHANGED <<stockVars, shipVars, linkVars>>

Confirmed(o) ==
    /\ CommitReserved(o)
    /\ Inv!CreateGroup(o, order[o].version, order[o].lines)
    /\ UNCHANGED <<shipVars, linkVars>>

\* The stock is not there, or the call failed.
GiveUp(o) ==
    /\ Abort(o)
    /\ UNCHANGED <<stockVars, shipVars, linkVars>>

Cancel(o) ==
    /\ RequestCancel(o)
    /\ UNCHANGED <<stockVars, shipVars, linkVars>>

\* Mutant: the stock is released without looking for the intent to cancel.
ReleaseUnasked(o) ==
    /\ Exists(o) /\ ~Granted(o)
    /\ Inv!Active(o) # {}
    /\ Inv!ReleaseOrder(o)
    /\ UNCHANGED <<orderVars, shipVars, linkVars>>

\* completeCancellation: the release call ...
ReleaseCanceled(o) ==
    /\ CanFinishCancel(o)
    /\ Inv!Active(o) # {}
    /\ Inv!ReleaseOrder(o)
    /\ UNCHANGED <<orderVars, shipVars, linkVars>>

\* ... and the end of the cancellation.
Canceled(o) ==
    /\ Inv!Active(o) = {}
    /\ FinishCancel(o)
    /\ UNCHANGED <<stockVars, shipVars, linkVars>>

Movement(m) ==
    /\ Inv!ApplyMovement(m)
    /\ UNCHANGED <<orderVars, shipVars, linkVars>>

-----------------------------------------------------------------------------
(* Events.  The first event of an order that is not handled yet is next. *)

First(e, Waiting) ==
    e \in Waiting /\ \A f \in Waiting : f.order = e.order => e.version <= f.version

ForShipment == {e \in orderLog \ shipInbox : e.type \in {"OrderConfirmed", "OrderCanceled"}}

\* Mutant: a cancellation is consumed without effect on the shipment.
ToShipmentConfirmed(e) ==
    /\ First(e, ForShipment)
    /\ IF e.type = "OrderConfirmed"
       THEN Ful!OrderConfirmed(e.order, e.version, e.group) ELSE UNCHANGED shipVars
    /\ shipInbox' = shipInbox \cup {e}
    /\ UNCHANGED <<orderVars, stockVars, quote, calls, orderInbox, stockInbox>>

ToShipment(e) ==
    /\ First(e, ForShipment)
    /\ \/ e.type = "OrderConfirmed" /\ Ful!OrderConfirmed(e.order, e.version, e.group)
       \/ e.type = "OrderCanceled" /\ Ful!OrderCanceled(e.order, e.version)
       \/ Ful!Stale(e.order, e.version) /\ UNCHANGED shipVars
    /\ shipInbox' = shipInbox \cup {e}
    /\ UNCHANGED <<orderVars, stockVars, quote, calls, orderInbox, stockInbox>>

TargetOf(type) == CASE type = "ShipmentPicking"    -> "PICKING"
                    [] type = "ShipmentReady"      -> "READY_TO_SHIP"
                    [] type = "ShipmentDispatched" -> "IN_DELIVERY"
                    [] type = "ShipmentDelivered"  -> "COMPLETED"
                    [] type = "ShipmentFailed"     -> "DELIVERY_FAILED"
                    [] OTHER                       -> "NONE"

ForOrder == {e \in shipLog \ orderInbox : TargetOf(e.type) # "NONE"}

Verdict(e) == ShipmentVerdict(e.order, TargetOf(e.type), e.version, e.group, e.request)

ToOrder(e) ==
    /\ First(e, ForOrder)
    /\ Unlocked(e.order)
    /\ \/ ApplyShipment(e.order, TargetOf(e.type), e.version, e.group, e.request)
       \/ Verdict(e) = "STALE" /\ UNCHANGED orderVars
    /\ orderInbox' = orderInbox \cup {e}
    /\ UNCHANGED <<stockVars, shipVars, quote, calls, shipInbox, stockInbox>>

ForStock == {e \in shipLog \ stockInbox : e.type = "ShipmentDispatched"}

\* The group was issued by this very dispatch.
Issued(e) == LET g == rsv[<<e.order, e.group>>] IN
             g.status = "ISSUED" /\ g.issue = e.request

ToStock(e) ==
    /\ First(e, ForStock)
    /\ \/ Inv!Issue(e.order, e.group, e.request)
       \/ Issued(e) /\ UNCHANGED stockVars
    /\ stockInbox' = stockInbox \cup {e}
    /\ UNCHANGED <<orderVars, shipVars, quote, calls, shipInbox, orderInbox>>

-----------------------------------------------------------------------------
(* Work on the shipment *)

Pick(o) ==
    /\ \E to \in {"PICKING", "READY_TO_SHIP"} \cup Ful!Outcomes : Ful!Transition(o, to)
    /\ UNCHANGED <<orderVars, stockVars, linkVars>>

TripClaims(o) ==
    /\ \E c \in Claims, t \in Trips, a \in Actors :
          Ful!Claim(c, o, t, a, ship[o].version)
    /\ UNCHANGED <<orderVars, stockVars, linkVars>>

TripReleases(o) ==
    /\ \E c \in Claims, t \in Trips, a \in Actors :
          Ful!Release(c, o, t, a, ship[o].version, 1)
    /\ UNCHANGED <<orderVars, stockVars, linkVars>>

DeliveryResult(e) ==
    /\ Ful!HandleResult(e)
    /\ UNCHANGED <<orderVars, stockVars, linkVars>>

\* preview, readiness and the check before the intent: the order is ready.
Quote(o) ==
    /\ Ful!canMove(o, "DISPATCHED")
    /\ Ful!IntentFree(o)
    /\ order[o].status = "READY_TO_SHIP" /\ ~order[o].cancelling
    /\ order[o].group = ship[o].group
    /\ quote' = [quote EXCEPT ![o] = order[o].version]
    /\ UNCHANGED <<orderVars, stockVars, shipVars, calls, shipInbox, orderInbox, stockInbox>>

Dispatching(o, r) ==
    /\ quote[o] # 0
    /\ Ful!StartDispatch(o, r, quote[o])
    /\ quote' = [quote EXCEPT ![o] = 0]
    /\ UNCHANGED <<orderVars, stockVars, calls, shipInbox, orderInbox, stockInbox>>

DispatchingBatch(b, t, child) ==
    /\ DistinctChildren(child)
    /\ \A o \in Members(child) : quote[o] # 0
    /\ Ful!StartBatch(b, t, child, quote, {})
    /\ quote' = [o \in Orders |-> IF o \in Members(child) THEN 0 ELSE quote[o]]
    /\ UNCHANGED <<orderVars, stockVars, calls, shipInbox, orderInbox, stockInbox>>

-----------------------------------------------------------------------------
(* The grant of order-service *)

\* complete, by the caller of dispatch or by the recovery worker.
Ask(o) ==
    /\ Ful!AsksOrder(o)
    /\ calls' = calls \cup {[kind |-> "order", order |-> o, request |-> intent[o].id,
                            version |-> intent[o].quoted, group |-> ship[o].group,
                            answer |-> "none"]}
    /\ UNCHANGED <<orderVars, stockVars, shipVars, quote, shipInbox, orderInbox, stockInbox>>

AskBatch(b) ==
    /\ dispatch[b].status = "PENDING" /\ dispatch[b].decision = "NONE"
    /\ calls' = calls \cup {[kind |-> "batch", batch |-> b, answer |-> "none"]}
    /\ UNCHANGED <<orderVars, stockVars, shipVars, quote, shipInbox, orderInbox, stockInbox>>

Answers(q, a) == calls' = (calls \ {q}) \cup {[q EXCEPT !.answer = a]}

\* A new grant, the replay of an earlier one, or a refusal.
AnswerOrder(q) ==
    /\ q \in calls /\ q.kind = "order" /\ q.answer = "none"
    /\ \/ /\ Authorize(q.order, q.request, q.version, q.group)
          /\ Answers(q, "GRANTED")
       \/ /\ order[q.order].grant = q.request
          /\ Answers(q, "GRANTED")
          /\ UNCHANGED orderVars
       \/ /\ Unlocked(q.order)
          /\ order[q.order].grant # q.request
          /\ ~(Dispatchable(q.order, q.version, q.group) /\ ~RequestUsed(q.request))
          /\ Answers(q, "CONFLICT")
          /\ UNCHANGED orderVars
    /\ UNCHANGED <<stockVars, shipVars, quote, shipInbox, orderInbox, stockInbox>>

AnswerBatch(q) ==
    /\ q \in calls /\ q.kind = "batch" /\ q.answer = "none"
    /\ \/ AuthorizeBatch(q.batch, dispatch[q.batch].child,
                         [o \in Orders |-> intent[o].quoted],
                         [o \in Orders |-> ship[o].group])
       \/ batch[q.batch].decision # "NONE" /\ UNCHANGED orderVars
    /\ Answers(q, batch'[q.batch].decision)
    /\ UNCHANGED <<stockVars, shipVars, quote, shipInbox, orderInbox, stockInbox>>

\* Mutant: an unknown outcome is taken for a refusal.
LoseRejects(q) ==
    /\ q \in calls /\ q.kind = "order"
    /\ Ful!RejectDispatch(q.order, q.request)
    /\ calls' = calls \ {q}
    /\ UNCHANGED <<orderVars, stockVars, quote, shipInbox, orderInbox, stockInbox>>

\* A call or an answer is lost, or its caller is gone.
Lose(q) ==
    /\ q \in calls
    /\ calls' = calls \ {q}
    /\ UNCHANGED <<orderVars, stockVars, shipVars, quote, shipInbox, orderInbox, stockInbox>>

\* Mutant: the shipment leaves without waiting for the answer.
ResumeEarly(q) ==
    /\ q \in calls /\ q.kind = "order"
    /\ Ful!CommitDispatch(q.order, q.request)
    /\ calls' = calls \ {q}
    /\ UNCHANGED <<orderVars, stockVars, quote, shipInbox, orderInbox, stockInbox>>

\* The caller gets its answer; it may find the intent dealt with by another.
Resume(q) ==
    /\ q \in calls
    /\ \/ q.answer = "GRANTED" /\ q.kind = "order"
             /\ Ful!CommitDispatch(q.order, q.request)
       \/ q.answer = "CONFLICT" /\ Ful!RejectDispatch(q.order, q.request)
       \/ /\ q.kind = "batch" /\ q.answer # "none"
          /\ Ful!StoreDecision(q.batch, q.answer)
    /\ calls' = calls \ {q}
    /\ UNCHANGED <<orderVars, stockVars, quote, shipInbox, orderInbox, stockInbox>>

\* Mutant: recovery does not take up a batch that was granted.
EndRejectedBatch(b) ==
    /\ Ful!RejectBatch(b)
    /\ UNCHANGED <<orderVars, stockVars, linkVars>>

EndBatch(b) ==
    /\ Ful!CommitBatch(b) \/ Ful!RejectBatch(b)
    /\ UNCHANGED <<orderVars, stockVars, linkVars>>

DispatchNext ==
    \/ \E o \in Orders :
          \/ NewOrder(o) \/ Confirm(o) \/ Confirmed(o) \/ GiveUp(o)
          \/ Cancel(o) \/ ReleaseCanceled(o) \/ Canceled(o)
          \/ Pick(o) \/ TripClaims(o) \/ TripReleases(o)
          \/ Quote(o) \/ Ask(o)
          \/ \E r \in Requests : Dispatching(o, r)
    \/ \E b \in Batches :
          \/ \E t \in Trips, child \in Children : DispatchingBatch(b, t, child)
          \/ AskBatch(b) \/ EndBatch(b)
    \/ \E q \in calls : AnswerOrder(q) \/ AnswerBatch(q) \/ Lose(q) \/ Resume(q)
    \/ \E e \in orderLog : ToShipment(e)
    \/ \E e \in shipLog : ToOrder(e) \/ ToStock(e)
    \/ \E e \in Results : DeliveryResult(e)
    \/ \E m \in Movements : Movement(m)

(***************************************************************************)
(* Fairness.  Consumers, the recovery workers and transactions go on: weak *)
(* fairness.  Calls may be lost any number of times, but one that is asked *)
(* again and again is answered and its answer arrives in the end: strong   *)
(* fairness.  Users need not do anything.                                  *)
(***************************************************************************)
DispatchFairness ==
    /\ \A o \in Orders :
          /\ WF_dispatchVars(ReleaseCanceled(o) \/ Canceled(o))
          /\ WF_dispatchVars(Ask(o))
          /\ WF_dispatchVars(\E e \in orderLog : e.order = o /\ ToShipment(e))
          /\ WF_dispatchVars(\E e \in shipLog : e.order = o /\ ToOrder(e))
          /\ WF_dispatchVars(\E e \in shipLog : e.order = o /\ ToStock(e))
    /\ \A b \in Batches :
          WF_dispatchVars(AskBatch(b)) /\ WF_dispatchVars(EndBatch(b))
    /\ SF_dispatchVars(\E q \in calls : AnswerOrder(q) \/ AnswerBatch(q))
    /\ SF_dispatchVars(\E q \in calls : Resume(q))

DispatchSpec == DispatchInit /\ [][DispatchNext]_dispatchVars /\ DispatchFairness

-----------------------------------------------------------------------------
(***************************************************************************)
(* Goods leave the warehouse only under a grant for exactly the request of *)
(* the shipment, and stock is issued only for a shipment that has left.    *)
(***************************************************************************)
LeavesUnderGrant ==
    \A o \in Orders :
        /\ ship[o].status \in Ful!Gone => order[o].grant = intent[o].id
        /\ \A g \in Inv!With("ISSUED") :
              g[1] = o => ship[o].status \in Ful!Gone /\ rsv[g].issue = intent[o].id

(***************************************************************************)
(* A grant is never dropped: while a granted order waits for its shipment, *)
(* the intent of that request is still the shipment's intent and is not    *)
(* rejected, the shipment can still leave, and its goods stay reserved.    *)
(***************************************************************************)
GrantHeld ==
    \A o \in Orders : Granted(o)
        => /\ intent[o].id = order[o].grant
           /\ intent[o].status \in {"PENDING", "COMPLETED"}
           /\ ship[o].status \in {"READY_TO_SHIP"} \cup Ful!Gone
           /\ rsv[<<o, order[o].group>>].status \in {"ACTIVE", "ISSUED"}

(***************************************************************************)
(* No consumer is blocked by an event its handler can never accept: the    *)
(* next shipment event does not make order-service throw, and inventory    *)
(* can issue the group of the next dispatched shipment.                    *)
(***************************************************************************)
NoPoisonedEvent ==
    /\ \A e \in ForOrder : First(e, ForOrder) => Verdict(e) # "THROW"
    /\ \A e \in ForStock :
          First(e, ForStock) => Issued(e) \/ rsv[<<e.order, e.group>>].status = "ACTIVE"

(***************************************************************************)
(* A granted order gets under way: the shipment leaves, the order follows  *)
(* and the stock is issued, whatever calls and answers are lost.           *)
(***************************************************************************)
GrantCompletes ==
    \A o \in Orders : Granted(o) ~>
        /\ order[o].status \in {"IN_DELIVERY", "COMPLETED", "DELIVERY_FAILED"}
        /\ rsv[<<o, order[o].group>>].status = "ISSUED"

\* The cancellation of an order reaches its shipment, also past a pending batch.
CancellationReaches ==
    \A o \in Orders : order[o].status = "CANCELED" ~>
        /\ cursor[o].canceled
        /\ ship[o].status \in {"NONE", "CANCELED"}

=============================================================================
