----------------------------- MODULE Fulfillment -----------------------------
(***************************************************************************)
(* The fulfillment-service: the shipment of each confirmed order, its      *)
(* dispatch (alone or in the batch of a trip), the claim a trip has on it, *)
(* and the delivery results that come back from the driver.  An order has  *)
(* at most one shipment, so a shipment is named by its order.              *)
(*                                                                         *)
(* Every transaction locks the shipment row and is one step, except the    *)
(* handler of delivery results: it takes an advisory lock on the stop but  *)
(* not the row, reads the row first and overwrites it later.               *)
(*                                                                         *)
(* The answers of order-service are inputs here: module Dispatch composes  *)
(* this module with the one that gives them.                               *)
(***************************************************************************)
EXTENDS Integers, FiniteSets

CONSTANTS
    Orders,        \* order ids, and so shipment ids
    Requests,      \* dispatch request ids
    Batches,       \* request ids of batch dispatches
    Trips,         \* trip ids
    Claims,        \* claim ids; a claim request makes one claim
    Actors,        \* users on whose behalf trips are planned
    Results,       \* event ids of DeliveryCompleted and DeliveryFailed
    ResultOf,      \* ResultOf[e]: the content of event e
    OrderVersions, \* versions of the order events
    Quotes,        \* order versions a dispatcher may quote
    ManualOnTrip,  \* do users also call mark-delivered and mark-failed for a
                   \* shipment whose result the driver of a trip reports?
    NoRequest, NoBatch, NoTrip, NoClaim

Outcomes == {"DELIVERED", "FAILED"}
ResultContent == [order : Orders, trip : Trips, outcome : Outcomes]

ASSUME FulfillmentAssumption ==
    /\ NoRequest \notin Requests
    /\ NoBatch \notin Batches
    /\ NoTrip \notin Trips
    /\ NoClaim \notin Claims
    /\ OrderVersions \subseteq Nat \ {0}
    /\ Quotes \subseteq Nat
    /\ ResultOf \in [Results -> ResultContent]
    /\ ManualOnTrip \in BOOLEAN

VARIABLES
    ship,        \* shipments
    intent,      \* shipment_dispatch_intents, at most one per shipment
    dispatch,    \* shipment_dispatch_batches
    claims,      \* shipment_trip_receipts: claims, and which were released
    cursor,      \* shipment_order_cursors
    result,      \* inbox_events of fulfillment-delivery-results
    applying,    \* delivery results whose handler has read the shipment
    shipLog      \* outbox_events of the service

fulfillmentVars ==
    <<ship, intent, dispatch, claims, cursor, result, applying, shipLog>>

Terminal == {"DELIVERED", "FAILED", "CANCELED"}
Gone == {"DISPATCHED", "DELIVERED", "FAILED"}

ShipRow == [status  : {"NONE", "PENDING_PICK", "PICKING", "READY_TO_SHIP"} \cup Gone
                      \cup Terminal,
            version : Nat,
            group   : Nat,                       \* reservationGroupId
            trip    : Trips \cup {NoTrip},       \* assignedTripId
            claim   : Claims \cup {NoClaim}]     \* tripClaimId

IntentRow == [id      : Requests \cup {NoRequest},
              status  : {"NONE", "PENDING", "COMPLETED", "REJECTED"},
              quoted  : Nat,                     \* orderVersion
              batch   : Batches \cup {NoBatch},  \* batchId
              receipt : BOOLEAN]                 \* grantReceipt

\* child[o] is the dispatch request of shipment o in a batch, if o is in it.
Children == [Orders -> Requests \cup {NoRequest}]
Members(child) == {o \in Orders : child[o] # NoRequest}

BatchDispatch == [status   : {"NONE", "PENDING", "COMPLETED", "REJECTED"},
                  decision : {"NONE", "GRANTED", "REJECTED"},
                  trip     : Trips \cup {NoTrip},
                  child    : Children]

ClaimRow == [id : Claims, order : Orders, trip : Trips, actor : Actors,
             released : Nat]   \* number of the request that released it, or 0

ShipEvent == [type : {"ShipmentCreated", "ShipmentPicking", "ShipmentReady",
                      "ShipmentDispatched", "ShipmentDelivered", "ShipmentFailed",
                      "ShipmentCanceled", "ShipmentCancelRejected"},
              order : Orders, version : Nat, group : Nat,
              request : Requests \cup {NoRequest}]

FulfillmentTypeOK ==
    /\ ship \in [Orders -> ShipRow]
    /\ intent \in [Orders -> IntentRow]
    /\ dispatch \in [Batches -> BatchDispatch]
    /\ claims \subseteq ClaimRow
    /\ cursor \in [Orders -> [version : Nat, canceled : BOOLEAN]]
    /\ result \in [Results -> {"NONE", "DEFERRED", "APPLIED", "DUPLICATE", "CONFLICT"}]
    /\ applying \subseteq Results
    /\ shipLog \subseteq ShipEvent

NoIntent == [id |-> NoRequest, status |-> "NONE", quoted |-> 0, batch |-> NoBatch,
             receipt |-> FALSE]

FulfillmentInit ==
    /\ ship = [o \in Orders |-> [status |-> "NONE", version |-> 0, group |-> 0,
                                 trip |-> NoTrip, claim |-> NoClaim]]
    /\ intent = [o \in Orders |-> NoIntent]
    /\ dispatch = [b \in Batches |-> [status |-> "NONE", decision |-> "NONE",
                                      trip |-> NoTrip,
                                      child |-> [o \in Orders |-> NoRequest]]]
    /\ claims = {}
    /\ cursor = [o \in Orders |-> [version |-> 0, canceled |-> FALSE]]
    /\ result = [e \in Results |-> "NONE"]
    /\ applying = {}
    /\ shipLog = {}

-----------------------------------------------------------------------------
Bumped(row) == [row EXCEPT !.version = @ + 1]

Write(o, row) == ship' = [ship EXCEPT ![o] = Bumped(row)]

\* recordShipment: the outbox event of the row just written.
Event(type, o, r) == [type |-> type, order |-> o, version |-> ship[o].version + 1,
                      group |-> ship[o].group, request |-> r]

Record(type, o, r) == shipLog' = shipLog \cup {Event(type, o, r)}

(***************************************************************************)
(* OrderConfirmed and OrderCanceled of order o at version v.  The cursor   *)
(* drops an event that is not newer than the last one handled, and every   *)
(* event after a cancellation.                                             *)
(***************************************************************************)
Stale(o, v) == cursor[o].canceled \/ cursor[o].version >= v

Advance(o, v, canceled) ==
    cursor' = [cursor EXCEPT ![o] = [version |-> v, canceled |-> canceled]]

OrderConfirmed(o, v, g) ==
    /\ ~Stale(o, v)
    /\ IF ship[o].status = "NONE"
       THEN /\ ship' = [ship EXCEPT ![o].status = "PENDING_PICK", ![o].group = g,
                                    ![o].version = 1]
            /\ shipLog' = shipLog \cup {[type |-> "ShipmentCreated", order |-> o,
                                         version |-> 1, group |-> g,
                                         request |-> NoRequest]}
       ELSE ship[o].group = g /\ UNCHANGED <<ship, shipLog>>
    /\ Advance(o, v, FALSE)
    /\ UNCHANGED <<intent, dispatch, claims, result, applying>>

\* A pending batch dispatch makes the handler throw: the event comes again.
\* Mutant: a cancellation does not wait for a pending batch.
NeverPending(o) == FALSE

BatchPending(o) == intent[o].status = "PENDING" /\ intent[o].batch # NoBatch

OrderCanceled(o, v) ==
    /\ ~Stale(o, v)
    /\ ~BatchPending(o)
    /\ CASE ship[o].status \in {"NONE", "CANCELED"} ->
              UNCHANGED <<ship, intent, shipLog>>
         [] ship[o].status \in Gone ->
              /\ Write(o, ship[o])
              /\ Record("ShipmentCancelRejected", o, NoRequest)
              /\ UNCHANGED intent
         [] OTHER ->
              /\ Write(o, [ship[o] EXCEPT !.status = "CANCELED"])
              /\ intent' = [intent EXCEPT ![o].status =
                              IF @ = "PENDING" THEN "REJECTED" ELSE @]
              /\ Record("ShipmentCanceled", o, NoRequest)
    /\ Advance(o, v, TRUE)
    /\ UNCHANGED <<dispatch, claims, result, applying>>

-----------------------------------------------------------------------------
(* transition: start-picking, mark-ready, mark-delivered, mark-failed *)

TRANSITIONS == [to \in {"PICKING", "READY_TO_SHIP", "DISPATCHED"} \cup Outcomes |->
                  CASE to = "PICKING"       -> "PENDING_PICK"
                    [] to = "READY_TO_SHIP" -> "PICKING"
                    [] to = "DISPATCHED"    -> "READY_TO_SHIP"
                    [] OTHER                -> "DISPATCHED"]

EventOf(to) == CASE to = "PICKING"       -> "ShipmentPicking"
                 [] to = "READY_TO_SHIP" -> "ShipmentReady"
                 [] to = "DISPATCHED"    -> "ShipmentDispatched"
                 [] to = "DELIVERED"     -> "ShipmentDelivered"
                 [] OTHER                -> "ShipmentFailed"

canMove(o, to) == ship[o].status = TRANSITIONS[to]

Transition(o, to) ==
    /\ to \in Outcomes => ship[o].trip = NoTrip \/ ManualOnTrip
    /\ intent[o].status # "PENDING"
    /\ canMove(o, to)
    /\ Write(o, [ship[o] EXCEPT !.status = to])
    /\ Record(EventOf(to), o, NoRequest)
    /\ UNCHANGED <<intent, dispatch, claims, cursor, result, applying>>

-----------------------------------------------------------------------------
(* Direct dispatch of one shipment *)

\* No intent, or one that order-service turned down and that is replaced.
IntentFree(o) == intent[o].status \in {"NONE", "REJECTED"}

\* The request id is the key of the intent.  Callers make a fresh one (a UUID)
\* for every attempt, so the id of a replaced intent does not come back either.
RequestUnused(r) == \A o \in Orders : intent[o].id # r

StartDispatch(o, r, quoted) ==
    /\ ship[o].trip = NoTrip /\ ship[o].claim = NoClaim
    /\ IntentFree(o)
    /\ canMove(o, "DISPATCHED")
    /\ RequestUnused(r)
    /\ intent' = [intent EXCEPT ![o] = [id |-> r, status |-> "PENDING", quoted |-> quoted,
                                        batch |-> NoBatch, receipt |-> FALSE]]
    /\ UNCHANGED <<ship, dispatch, claims, cursor, result, applying, shipLog>>

\* complete: whether it asks order-service, and what it does with the answer.
AsksOrder(o) == intent[o].status = "PENDING" /\ intent[o].batch = NoBatch

\* Mutant: a refused intent gets a status of its own.
RejectAsFailed(o, r) ==
    /\ intent[o].id = r /\ intent[o].status = "PENDING"
    /\ intent' = [intent EXCEPT ![o].status = "FAILED"]
    /\ UNCHANGED <<ship, dispatch, claims, cursor, result, applying, shipLog>>

RejectDispatch(o, r) ==
    /\ intent[o].id = r /\ intent[o].status = "PENDING"
    /\ intent' = [intent EXCEPT ![o].status = "REJECTED"]
    /\ UNCHANGED <<ship, dispatch, claims, cursor, result, applying, shipLog>>

\* Mutant: the shipment leaves, its intent is not completed.
CommitWithoutIntent(o, r) ==
    /\ intent[o].id = r /\ intent[o].status # "COMPLETED"
    /\ canMove(o, "DISPATCHED")
    /\ Write(o, [ship[o] EXCEPT !.status = "DISPATCHED"])
    /\ Record("ShipmentDispatched", o, r)
    /\ UNCHANGED <<intent, dispatch, claims, cursor, result, applying>>

CommitDispatch(o, r) ==
    /\ intent[o].id = r /\ intent[o].status # "COMPLETED"
    /\ canMove(o, "DISPATCHED")
    /\ Write(o, [ship[o] EXCEPT !.status = "DISPATCHED"])
    /\ intent' = [intent EXCEPT ![o].status = "COMPLETED"]
    /\ Record("ShipmentDispatched", o, r)
    /\ UNCHANGED <<dispatch, claims, cursor, result, applying>>

-----------------------------------------------------------------------------
(* Batch dispatch of the shipments of a trip *)

InBatchOf(o, t) == /\ ship[o].trip = t /\ ship[o].claim # NoClaim
                   /\ ship[o].status = "READY_TO_SHIP"
                   /\ IntentFree(o)

\* stale: the shipments for which the caller gives an old version or binding.
StartBatch(b, t, child, quoted, stale) ==
    /\ dispatch[b].status = "NONE"
    /\ LET ok == \A o \in Members(child) : InBatchOf(o, t) /\ o \notin stale IN
       /\ ok => \A o \in Members(child) : RequestUnused(child[o])
       /\ dispatch' = [dispatch EXCEPT ![b] =
                         [status |-> IF ok THEN "PENDING" ELSE "REJECTED",
                          decision |-> "NONE", trip |-> t, child |-> child]]
       /\ intent' = [o \in Orders |->
                       IF ok /\ o \in Members(child)
                       THEN [id |-> child[o], status |-> "PENDING", quoted |-> quoted[o],
                             batch |-> b, receipt |-> FALSE]
                       ELSE intent[o]]
    /\ UNCHANGED <<ship, claims, cursor, result, applying, shipLog>>

\* complete: the decision of order-service is stored before it is applied.
StoreDecision(b, decision) ==
    /\ dispatch[b].status = "PENDING"
    /\ decision = "GRANTED" => \A o \in Members(dispatch[b].child) :
                                  intent[o].id = dispatch[b].child[o]
    /\ dispatch' = [dispatch EXCEPT ![b].decision = decision]
    /\ intent' = [o \in Orders |->
                    IF decision = "GRANTED" /\ o \in Members(dispatch[b].child)
                    THEN [intent[o] EXCEPT !.receipt = TRUE] ELSE intent[o]]
    /\ UNCHANGED <<ship, claims, cursor, result, applying, shipLog>>

\* What commit checks of a shipment before it leaves with a granted batch.
Bound(b, o) == /\ ship[o].status = "READY_TO_SHIP"
               /\ ship[o].trip = dispatch[b].trip
               /\ intent[o].id = dispatch[b].child[o]

CommitBatch(b) ==
    /\ dispatch[b].status = "PENDING"
    /\ dispatch[b].decision = "GRANTED"
    /\ \A o \in Members(dispatch[b].child) : Bound(b, o) /\ intent[o].receipt
    /\ LET S == Members(dispatch[b].child) IN
       /\ ship' = [o \in Orders |->
                     IF o \in S THEN Bumped([ship[o] EXCEPT !.status = "DISPATCHED"])
                     ELSE ship[o]]
       /\ intent' = [o \in Orders |->
                       IF o \in S THEN [intent[o] EXCEPT !.status = "COMPLETED"]
                       ELSE intent[o]]
       /\ shipLog' = shipLog \cup
                       {Event("ShipmentDispatched", o, dispatch[b].child[o]) : o \in S}
    /\ dispatch' = [dispatch EXCEPT ![b].status = "COMPLETED"]
    /\ UNCHANGED <<claims, cursor, result, applying>>

RejectBatch(b) ==
    /\ dispatch[b].status = "PENDING"
    /\ dispatch[b].decision = "REJECTED"
    /\ intent' = [o \in Orders |->
                    IF /\ o \in Members(dispatch[b].child)
                       /\ intent[o].id = dispatch[b].child[o]
                       /\ intent[o].status = "PENDING"
                    THEN [intent[o] EXCEPT !.status = "REJECTED"] ELSE intent[o]]
    /\ dispatch' = [dispatch EXCEPT ![b].status = "REJECTED"]
    /\ UNCHANGED <<ship, claims, cursor, result, applying, shipLog>>

-----------------------------------------------------------------------------
(* The claim of a trip.  A request that was answered before is replayed. *)

Receipted(c, o, t, a) ==
    [id |-> c, order |-> o, trip |-> t, actor |-> a, released |-> 0]

\* v: expectedShipmentVersion of the request.
Claimable(c, o, v) ==
    /\ \A k \in claims : k.id # c
    /\ ship[o].version = v
    /\ ship[o].status = "READY_TO_SHIP"
    /\ ship[o].trip = NoTrip /\ ship[o].claim = NoClaim
    /\ IntentFree(o)

Claim(c, o, t, a, v) ==
    /\ Claimable(c, o, v)
    /\ Write(o, [ship[o] EXCEPT !.trip = t, !.claim = c])
    /\ claims' = claims \cup {Receipted(c, o, t, a)}
    /\ UNCHANGED <<intent, dispatch, cursor, result, applying, shipLog>>

\* Only for the claim as it was made: same shipment, trip and user.
Releasable(c, o, t, a, v) ==
    /\ Receipted(c, o, t, a) \in claims
    /\ ship[o].version = v
    /\ ship[o].claim = c /\ ship[o].trip = t
    /\ IntentFree(o)
    /\ ship[o].status \in {"READY_TO_SHIP", "CANCELED"}

ReleasedBy(k, n) == claims' = (claims \ {k}) \cup {[k EXCEPT !.released = n]}

\* Mutant: the release leaves the shipment assigned to the trip.
ReleaseKeepsTrip(c, o, t, a, v, n) ==
    /\ Releasable(c, o, t, a, v)
    /\ Write(o, [ship[o] EXCEPT !.claim = NoClaim])
    /\ ReleasedBy(Receipted(c, o, t, a), n)
    /\ UNCHANGED <<intent, dispatch, cursor, result, applying, shipLog>>

\* n numbers the release requests for the claim.
Release(c, o, t, a, v, n) ==
    /\ Releasable(c, o, t, a, v)
    /\ Write(o, [ship[o] EXCEPT !.trip = NoTrip, !.claim = NoClaim])
    /\ ReleasedBy(Receipted(c, o, t, a), n)
    /\ UNCHANGED <<intent, dispatch, cursor, result, applying, shipLog>>

-----------------------------------------------------------------------------
(***************************************************************************)
(* Delivery results, from the consumer or from the retry timer.  The stop  *)
(* (trip and shipment) is the semantic key and holds the advisory lock.    *)
(* An earlier receipt of the stop with another content is a conflict, one  *)
(* with the same content that was applied makes this one a duplicate.      *)
(***************************************************************************)
Stop(e) == <<ResultOf[e].trip, ResultOf[e].order>>

Rivals(e) == {f \in Results \ {e} : /\ Stop(f) = Stop(e)
                                    /\ result[f] \in {"APPLIED", "DUPLICATE", "DEFERRED"}}

\* Mutant: the handler does not take the lock of the stop.
OpenUnlocked(e) == result[e] \in {"NONE", "DEFERRED"}

Open(e) == /\ result[e] \in {"NONE", "DEFERRED"}
           /\ \A f \in applying : Stop(f) # Stop(e)

\* No rival, or one that says the same and is not applied yet either.
Unrivalled(e) ==
    \/ Rivals(e) = {}
    \/ \E f \in Rivals(e) : ResultOf[f] = ResultOf[e] /\ result[f] = "DEFERRED"

Receipt(e, outcome) ==
    /\ result' = [result EXCEPT ![e] = outcome]
    /\ UNCHANGED <<ship, intent, dispatch, claims, cursor, applying, shipLog>>

ResultDuplicate(e) ==
    /\ Open(e)
    /\ \E f \in Rivals(e) : ResultOf[f] = ResultOf[e] /\ result[f] # "DEFERRED"
    /\ Receipt(e, "DUPLICATE")

ResultConflict(e) ==
    /\ Open(e)
    /\ \E f \in Rivals(e) :
          /\ ResultOf[f] # ResultOf[e]
          /\ result' = [result EXCEPT ![e] = "CONFLICT",
                                      ![f] = IF @ = "DEFERRED" THEN "CONFLICT" ELSE @]
    /\ UNCHANGED <<ship, intent, dispatch, claims, cursor, applying, shipLog>>

ResultMisplaced(e) ==
    LET row == ship[ResultOf[e].order] IN
    /\ Open(e) /\ Unrivalled(e)
    /\ row.status # "NONE"
    /\ row.trip # ResultOf[e].trip \/ row.status \in Terminal
    /\ Receipt(e, "CONFLICT")

ResultDefer(e) ==
    LET row == ship[ResultOf[e].order] IN
    /\ Open(e) /\ Unrivalled(e)
    /\ \/ row.status = "NONE"
       \/ /\ row.trip = ResultOf[e].trip
          /\ row.status \notin Terminal \cup {"DISPATCHED"}
    /\ Receipt(e, "DEFERRED")

\* The row is read as DISPATCHED ...
ResultRead(e) ==
    /\ Open(e) /\ Unrivalled(e)
    /\ ship[ResultOf[e].order].trip = ResultOf[e].trip
    /\ canMove(ResultOf[e].order, ResultOf[e].outcome)
    /\ applying' = applying \cup {e}
    /\ UNCHANGED <<ship, intent, dispatch, claims, cursor, result, shipLog>>

\* ... and written, by its id alone, in whatever state it is by then.
ResultWrite(e) ==
    LET o == ResultOf[e].order IN
    /\ e \in applying
    /\ Write(o, [ship[o] EXCEPT !.status = ResultOf[e].outcome])
    /\ Record(EventOf(ResultOf[e].outcome), o, NoRequest)
    /\ result' = [result EXCEPT ![e] = "APPLIED"]
    /\ applying' = applying \ {e}
    /\ UNCHANGED <<intent, dispatch, claims, cursor>>

ResultAbort(e) ==
    /\ e \in applying
    /\ applying' = applying \ {e}
    /\ UNCHANGED <<ship, intent, dispatch, claims, cursor, result, shipLog>>

HandleResult(e) ==
    \/ ResultDuplicate(e) \/ ResultConflict(e) \/ ResultMisplaced(e) \/ ResultDefer(e)
    \/ ResultRead(e) \/ ResultWrite(e) \/ ResultAbort(e)

-----------------------------------------------------------------------------
DistinctChildren(child) ==
    /\ Members(child) # {}
    /\ \A a, b \in Members(child) : child[a] = child[b] => a = b

(***************************************************************************)
(* The service under any calls, events and answers: order-service may      *)
(* confirm, cancel, grant and refuse as it likes, but does not take an     *)
(* answer back; a trip may claim and release for any user.  A request that *)
(* quotes another version than the shipment's is refused without effect.   *)
(***************************************************************************)
FulfillmentNext ==
    \/ \E o \in Orders :
          \/ \E v \in OrderVersions : OrderConfirmed(o, v, v - 1) \/ OrderCanceled(o, v)
          \/ \E to \in {"PICKING", "READY_TO_SHIP"} \cup Outcomes : Transition(o, to)
          \/ \E r \in Requests :
                \/ \E quoted \in Quotes : StartDispatch(o, r, quoted)
                \/ AsksOrder(o) /\ (RejectDispatch(o, r) \/ CommitDispatch(o, r))
          \/ \E c \in Claims, t \in Trips, a \in Actors :
                \/ Claim(c, o, t, a, ship[o].version)
                \/ Release(c, o, t, a, ship[o].version, 1)
    \/ \E b \in Batches :
          \/ \E t \in Trips, child \in Children, stale \in SUBSET Orders,
                quoted \in [Orders -> Quotes] :
                /\ DistinctChildren(child)
                /\ stale \subseteq Members(child)
                /\ StartBatch(b, t, child, quoted, stale)
          \/ \E d \in {"GRANTED", "REJECTED"} :
                dispatch[b].decision \in {"NONE", d} /\ StoreDecision(b, d)
          \/ CommitBatch(b) \/ RejectBatch(b)
    \/ \E e \in Results : HandleResult(e)

FulfillmentSpec == FulfillmentInit /\ [][FulfillmentNext]_fulfillmentVars

-----------------------------------------------------------------------------
\* A shipment has left exactly when its dispatch intent is completed.
LeftByIntent ==
    \A o \in Orders : ship[o].status \in Gone <=> intent[o].status = "COMPLETED"

(***************************************************************************)
(* A batch that waits for its decision keeps hold of all its shipments:    *)
(* whatever cancellations, releases, direct dispatches and results arrive, *)
(* each is still READY_TO_SHIP on the trip with the intent of the batch.   *)
(* So a granted batch can always be committed as a whole and the error     *)
(* BATCH_GRANTED_SHIPMENT_BINDING_CHANGED is never raised.                 *)
(***************************************************************************)
PendingBatchBound ==
    \A b \in Batches : dispatch[b].status = "PENDING"
        => \A o \in Members(dispatch[b].child) :
              /\ Bound(b, o)
              /\ intent[o].status = "PENDING" /\ intent[o].batch = b
              /\ dispatch[b].decision = "GRANTED" => intent[o].receipt

(***************************************************************************)
(* Shipment and receipt agree on who holds a shipment: the claim on the    *)
(* row is the one open claim for it, and it is for the assigned trip.      *)
(***************************************************************************)
ClaimsAgree ==
    /\ \A o \in Orders :
          \/ ship[o].trip = NoTrip /\ ship[o].claim = NoClaim
          \/ \E a \in Actors : Receipted(ship[o].claim, o, ship[o].trip, a) \in claims
    /\ \A k \in claims : k.released = 0 => ship[k.order].claim = k.id

\* An applied delivery result is the one the shipment shows.
AppliedResultShows ==
    \A e \in Results : result[e] = "APPLIED"
        => ship[ResultOf[e].order].status = ResultOf[e].outcome

(***************************************************************************)
(* A terminal shipment stays as it is: a conflicting result does not       *)
(* overwrite it.                                                           *)
(***************************************************************************)
TerminalStays ==
    [][\A o \in Orders : ship[o].status \in Terminal
          => ship'[o].status = ship[o].status]_fulfillmentVars
=============================================================================
