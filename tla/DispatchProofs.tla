--------------------------- MODULE DispatchProofs ---------------------------
(***************************************************************************)
(* Proofs about the way from a confirmed order to goods on the road, for   *)
(* any number of orders, requests, batches, trips and calls in flight.     *)
(*                                                                         *)
(* The three services share no state: what each of them knows about the    *)
(* others has to follow from the calls, answers and events it has seen.    *)
(* The inductive invariant says what that knowledge is worth: a quoted     *)
(* version stands until the order is granted or canceled, a call in flight *)
(* is about the shipment's present intent, an answer is final, and the     *)
(* events in the outboxes speak of the present shipment and order.         *)
(*                                                                         *)
(* The facts about one service are those of OrderProofs and                *)
(* FulfillmentProofs, the latter through the instance FulP.                *)
(***************************************************************************)
EXTENDS Dispatch, OrderProofs

FulP == INSTANCE FulfillmentProofs

OrderCall == [kind : {"order"}, order : Orders, request : Requests, version : Nat,
              group : Nat, answer : {"none", "GRANTED", "CONFLICT"}]
BatchCall == [kind : {"batch"}, batch : Batches, answer : {"none", "GRANTED", "REJECTED"}]

GroupType == [status : Inv!GroupStatus, lines : Demands \cup {Inv!NoLines},
              ack : BOOLEAN, issue : Requests \cup {NoRequest}]

LinkTypeOK ==
    /\ rsv \in [Inv!Groups -> GroupType]
    /\ quote \in [Orders -> Nat]
    /\ calls \subseteq OrderCall \cup BatchCall

Early == {"NONE", "DRAFT", "PENDING_STOCK"}
Ending(o) == order[o].cancelling \/ order[o].status = "CANCELED"

(***************************************************************************)
(* The order and its stock: the group of a confirm has the order's version *)
(* as its key, is the only one the order ever had, and goes out of hand    *)
(* only by a cancellation or by the shipment that left.                    *)
(***************************************************************************)
StockFits(o) ==
    /\ tx[o].kind = "confirm" => order[o].version \in Inv!Versions
    /\ order[o].status \in Early => order[o].group = 0
    /\ order[o].status \notin Early /\ ~Ending(o)
          => /\ order[o].group \in Inv!Versions
             /\ rsv[<<o, order[o].group>>].status \in {"ACTIVE", "ISSUED"}
    /\ \A v \in Inv!Versions : rsv[<<o, v>>].status # "NONE" => v = order[o].group

IssueFits(o) ==
    \A v \in Inv!Versions : rsv[<<o, v>>].status = "ISSUED"
        => ship[o].status \in Ful!Gone /\ rsv[<<o, v>>].issue = intent[o].id

\* The order and its shipment.
ShipFits(o) ==
    ship[o].status # "NONE" => /\ order[o].status \notin Early
                               /\ ship[o].group = order[o].group

(***************************************************************************)
(* A version at which the order was seen ready is still its version, until *)
(* the order is granted or its cancellation begins.                        *)
(***************************************************************************)
Stands(o, v) ==
    \/ Ending(o)
    \/ Granted(o)
    \/ order[o].status = "READY_TO_SHIP" /\ order[o].version = v

QuoteFits(o) ==
    quote[o] # 0 => Ful!IntentFree(o) /\ Stands(o, quote[o])

\* The dispatch intent and the order: a direct intent is refused only for an
\* order that ends, and is never replaced then.
IntentFits(o) ==
    /\ intent[o].status # "NONE" => intent[o].id # NoRequest
    /\ intent[o].status = "PENDING" => /\ ship[o].status = "READY_TO_SHIP"
                                       /\ Stands(o, intent[o].quoted)
    /\ intent[o].status = "REJECTED" /\ intent[o].batch = NoBatch
          => Ending(o) /\ quote[o] = 0
    /\ ship[o].status \in Ful!Gone => order[o].grant = intent[o].id

GrantFits(o) ==
    Granted(o) => /\ intent[o].id = order[o].grant
                  /\ intent[o].status \in {"PENDING", "COMPLETED"}
                  /\ intent[o].batch # NoBatch => batch[intent[o].batch].decision = "GRANTED"

\* A dispatch request is the id of one intent.
IntentIds ==
    \A a, b \in Orders : intent[a].id = intent[b].id /\ intent[a].id # NoRequest => a = b

(***************************************************************************)
(* A call in flight is about the intent the shipment still has, and its    *)
(* answer is still what order-service would answer.                        *)
(***************************************************************************)
CallFits(q) ==
    IF q.kind = "order"
    THEN /\ intent[q.order].id = q.request
         /\ intent[q.order].batch = NoBatch
         /\ intent[q.order].status # "NONE"
         /\ intent[q.order].quoted = q.version
         /\ ship[q.order].status # "NONE" /\ ship[q.order].group = q.group
         /\ q.answer = "GRANTED" => order[q.order].grant = q.request
         /\ q.answer = "CONFLICT" => Ending(q.order)
    ELSE /\ dispatch[q.batch].status = "PENDING" \/ batch[q.batch].decision # "NONE"
         /\ q.answer # "none" => batch[q.batch].decision = q.answer

\* The two services agree on a batch: what was asked, and what was decided.
BatchFits(b) ==
    /\ dispatch[b].status # "NONE" => DistinctChildren(dispatch[b].child)
    /\ batch[b].decision # "NONE" => /\ dispatch[b].status # "NONE"
                                     /\ batch[b].child = dispatch[b].child
    /\ dispatch[b].decision # "NONE" => batch[b].decision = dispatch[b].decision

\* The events in the outboxes speak of the present order and shipment.
OrderEventFits(e) ==
    /\ e.type = "OrderConfirmed" => /\ order[e.order].status \notin Early
                                    /\ e.group = order[e.order].group
    /\ e.type = "OrderCanceled" => order[e.order].status = "CANCELED"

ShipEventFits(e) ==
    TargetOf(e.type) # "NONE" =>
        /\ ship[e.order].status # "NONE"
        /\ e.group = ship[e.order].group
        /\ e.type = "ShipmentDispatched" => /\ ship[e.order].status \in Ful!Gone
                                            /\ e.request = intent[e.order].id

DisInv ==
    /\ OrderInv
    /\ FulP!FulInv
    /\ LinkTypeOK
    /\ \A o \in Orders : /\ StockFits(o) /\ IssueFits(o) /\ ShipFits(o)
                         /\ QuoteFits(o) /\ IntentFits(o) /\ GrantFits(o)
    /\ IntentIds
    /\ \A q \in calls : CallFits(q)
    /\ \A b \in Batches : BatchFits(b)
    /\ \A e \in orderLog : OrderEventFits(e)
    /\ \A e \in shipLog : ShipEventFits(e)

-----------------------------------------------------------------------------
(* The facts about the fulfillment-service *)

\* The assumption of FulfillmentProofs, in its own words.
LEMMA FulFacts ==
    /\ NoRequest \notin Requests
    /\ NoBatch \notin Batches
    /\ NoTrip \notin Trips
    /\ NoClaim \notin Claims
    /\ OrderVersions \subseteq Nat \ {0}
    /\ Quotes \subseteq Nat
    /\ ResultOf \in [Results -> FulP!ResultContent]
    /\ ManualOnTrip \in BOOLEAN
  BY ShipmentAssumption DEF FulP!ResultContent, FulP!Outcomes

\* A shipment is gone once it is dispatched, delivered or failed.
LEMMA GoneSet == Ful!Gone = {"DISPATCHED", "DELIVERED", "FAILED"} /\ FulP!Gone = Ful!Gone
  BY DEF Ful!Gone, FulP!Gone

\* The columns of an order, of its shipment and of its intent, and what the
\* invariant says of them.
LEMMA Columns ==
    ASSUME DisInv, NEW o \in Orders
    PROVE  /\ order \in [Orders -> Row] /\ order[o] \in Row
           /\ ship \in [Orders -> FulP!ShipRow] /\ ship[o] \in FulP!ShipRow
           /\ intent \in [Orders -> FulP!IntentRow] /\ intent[o] \in FulP!IntentRow
           /\ ship[o].status \in Ful!Gone <=> intent[o].status = "COMPLETED"
           /\ StockFits(o) /\ IssueFits(o) /\ ShipFits(o)
           /\ QuoteFits(o) /\ IntentFits(o) /\ GrantFits(o)
  <1>1. FulP!FulInv /\ OrderInv
    BY DEF DisInv
  <1>2. /\ ship \in [Orders -> FulP!ShipRow]
        /\ intent \in [Orders -> FulP!IntentRow]
        /\ ship[o].status \in FulP!Gone <=> intent[o].status = "COMPLETED"
    BY <1>1 DEF FulP!FulInv, FulP!FulfillmentTypeOK, FulP!LeftByIntent
  <1>3. order \in [Orders -> Row]
    BY <1>1 DEF OrderInv, OrderTypeOK
  <1>4. QED
    BY <1>2, <1>3, GoneSet DEF DisInv

\* What OrderProofs knows of a row.
LEMMA OrderFacts ==
    ASSUME DisInv, NEW o \in Orders
    PROVE  /\ Exists(o) => order[o].version > 0
           /\ order[o].cancelling => order[o].status \in CANCELABLE /\ ~Granted(o)
           /\ ~Unlocked(o) => order[o].status \in EDITABLE /\ ~order[o].cancelling
           /\ Granted(o) => /\ order[o].group # 0
                            /\ order[o].status \in {"READY_TO_SHIP", "IN_DELIVERY",
                                                    "COMPLETED", "DELIVERY_FAILED"}
           /\ Granted(o) => ~Ending(o)
           /\ order[o].version \in Nat /\ order[o].group \in Nat /\ order[o].lines \in Demands
           /\ order[o].cancelling \in BOOLEAN /\ order[o].status \in Status
           /\ order[o].grant \in Requests \cup {NoRequest} /\ order[o].seen \in Nat
  <1>1. OrderRows /\ order[o] \in Row
    BY Columns DEF DisInv, OrderInv
  <1>2. QED
    BY <1>1 DEF OrderRows, Row, Ending

\* The groups of one order are its keys.
LEMMA GroupKeys ==
    ASSUME NEW o \in Orders, NEW v \in Inv!Versions
    PROVE  /\ <<o, v>> \in Inv!Groups
           /\ \A g \in Inv!Groups : /\ g[1] \in Orders /\ g[2] \in Inv!Versions
                                    /\ g = <<g[1], g[2]>>
                                    /\ g # <<o, v>> => g[1] # o \/ g[2] # v
           /\ v \in Nat /\ v # 0
  BY OrderAssumption DEF Inv!Groups, Inv!Versions

\* The actions of module Fulfillment, through either instance.
LEMMA SameOrderEvents ==
    ASSUME NEW o, NEW v, NEW g
    PROVE  /\ Ful!OrderConfirmed(o, v, g) => FulP!OrderConfirmed(o, v, g)
           /\ Ful!OrderCanceled(o, v) => FulP!OrderCanceled(o, v)
  <1>1. Ful!OrderConfirmed(o, v, g) => FulP!OrderConfirmed(o, v, g)
    BY DEF Ful!OrderConfirmed, FulP!OrderConfirmed, Ful!Stale, FulP!Stale,
           Ful!Advance, FulP!Advance
  <1>2. Ful!OrderCanceled(o, v) => FulP!OrderCanceled(o, v)
    BY DEF Ful!OrderCanceled, FulP!OrderCanceled, Ful!Stale, FulP!Stale,
           Ful!BatchPending, FulP!BatchPending, Ful!Write, FulP!Write, Ful!Bumped,
           FulP!Bumped, Ful!Record, FulP!Record, Ful!Event, FulP!Event,
           Ful!Advance, FulP!Advance, Ful!Gone, FulP!Gone
  <1>3. QED
    BY <1>1, <1>2

\* The intent of one shipment: started, refused, committed.
LEMMA SameDispatch ==
    ASSUME NEW o, NEW r, NEW v
    PROVE  /\ Ful!StartDispatch(o, r, v) => FulP!StartDispatch(o, r, v)
           /\ Ful!RejectDispatch(o, r) => FulP!RejectDispatch(o, r)
           /\ Ful!CommitDispatch(o, r) => FulP!CommitDispatch(o, r)
  <1>1. Ful!StartDispatch(o, r, v) => FulP!StartDispatch(o, r, v)
    BY DEF Ful!StartDispatch, FulP!StartDispatch, Ful!IntentFree, FulP!IntentFree,
           Ful!canMove, FulP!canMove, Ful!TRANSITIONS, FulP!TRANSITIONS, Ful!Outcomes,
           FulP!Outcomes, Ful!RequestUnused, FulP!RequestUnused
  <1>2. Ful!RejectDispatch(o, r) => FulP!RejectDispatch(o, r)
    BY DEF Ful!RejectDispatch, FulP!RejectDispatch
  <1>3. Ful!CommitDispatch(o, r) => FulP!CommitDispatch(o, r)
    BY DEF Ful!CommitDispatch, FulP!CommitDispatch, Ful!canMove, FulP!canMove,
           Ful!TRANSITIONS, FulP!TRANSITIONS, Ful!Outcomes, FulP!Outcomes,
           Ful!Write, FulP!Write, Ful!Bumped, FulP!Bumped, Ful!Record, FulP!Record,
           Ful!Event, FulP!Event
  <1>4. QED
    BY <1>1, <1>2, <1>3

\* The intent of a batch: started, decided, committed, refused.
LEMMA SameBatch ==
    ASSUME NEW b, NEW t, NEW child, NEW quoted, NEW stale, NEW d
    PROVE  /\ Ful!StartBatch(b, t, child, quoted, stale)
                 => FulP!StartBatch(b, t, child, quoted, stale)
           /\ Ful!StoreDecision(b, d) => FulP!StoreDecision(b, d)
           /\ Ful!CommitBatch(b) => FulP!CommitBatch(b)
           /\ Ful!RejectBatch(b) => FulP!RejectBatch(b)
  <1>1. Ful!StartBatch(b, t, child, quoted, stale)
           => FulP!StartBatch(b, t, child, quoted, stale)
    BY DEF Ful!StartBatch, FulP!StartBatch, Ful!Members, FulP!Members, Ful!InBatchOf,
           FulP!InBatchOf, Ful!IntentFree, FulP!IntentFree, Ful!RequestUnused,
           FulP!RequestUnused
  <1>2. Ful!StoreDecision(b, d) => FulP!StoreDecision(b, d)
    BY DEF Ful!StoreDecision, FulP!StoreDecision, Ful!Members, FulP!Members
  <1>3. Ful!CommitBatch(b) => FulP!CommitBatch(b)
    BY DEF Ful!CommitBatch, FulP!CommitBatch, Ful!Members, FulP!Members, Ful!Bound,
           FulP!Bound, Ful!Bumped, FulP!Bumped, Ful!Event, FulP!Event
  <1>4. Ful!RejectBatch(b) => FulP!RejectBatch(b)
    BY DEF Ful!RejectBatch, FulP!RejectBatch, Ful!Members, FulP!Members
  <1>5. QED
    BY <1>1, <1>2, <1>3, <1>4

\* Warehouse work and the claims of trips.
LEMMA SameMoves ==
    ASSUME NEW c, NEW o, NEW t, NEW a, NEW v, NEW to
    PROVE  /\ Ful!Transition(o, to) => FulP!Transition(o, to)
           /\ Ful!Claim(c, o, t, a, v) => FulP!Claim(c, o, t, a, v)
           /\ Ful!Release(c, o, t, a, v, 1) => FulP!Release(c, o, t, a, v, 1)
  <1>1. Ful!Transition(o, to) => FulP!Transition(o, to)
    BY DEF Ful!Transition, FulP!Transition, Ful!canMove, FulP!canMove,
           Ful!TRANSITIONS, FulP!TRANSITIONS, Ful!Outcomes, FulP!Outcomes,
           Ful!Write, FulP!Write, Ful!Bumped, FulP!Bumped, Ful!Record, FulP!Record,
           Ful!Event, FulP!Event, Ful!EventOf, FulP!EventOf
  <1>2. Ful!Claim(c, o, t, a, v) => FulP!Claim(c, o, t, a, v)
    BY DEF Ful!Claim, FulP!Claim, Ful!Claimable, FulP!Claimable, Ful!IntentFree,
           FulP!IntentFree, Ful!Write, FulP!Write, Ful!Bumped, FulP!Bumped,
           Ful!Receipted, FulP!Receipted
  <1>3. Ful!Release(c, o, t, a, v, 1) => FulP!Release(c, o, t, a, v, 1)
    BY DEF Ful!Release, FulP!Release, Ful!Releasable, FulP!Releasable, Ful!IntentFree,
           FulP!IntentFree, Ful!Write, FulP!Write, Ful!Bumped, FulP!Bumped,
           Ful!Receipted, FulP!Receipted, Ful!ReleasedBy, FulP!ReleasedBy
  <1>4. QED
    BY <1>1, <1>2, <1>3

\* Delivery results: each outcome of the handler.
LEMMA SameResults ==
    ASSUME NEW e
    PROVE  Ful!HandleResult(e) => FulP!HandleResult(e)
  <1>1. Ful!Open(e) => FulP!Open(e)
    BY DEF Ful!Open, FulP!Open, Ful!Stop, FulP!Stop
  <1>2. Ful!Rivals(e) = FulP!Rivals(e)
    BY DEF Ful!Rivals, FulP!Rivals, Ful!Stop, FulP!Stop
  <1>3. Ful!Unrivalled(e) => FulP!Unrivalled(e)
    BY <1>2 DEF Ful!Unrivalled, FulP!Unrivalled
  <1>4. ASSUME NEW outcome
        PROVE  Ful!Receipt(e, outcome) => FulP!Receipt(e, outcome)
    BY DEF Ful!Receipt, FulP!Receipt
  <1>5. Ful!ResultDuplicate(e) => FulP!ResultDuplicate(e)
    BY <1>1, <1>2, <1>4 DEF Ful!ResultDuplicate, FulP!ResultDuplicate
  <1>6. Ful!ResultConflict(e) => FulP!ResultConflict(e)
    BY <1>1, <1>2 DEF Ful!ResultConflict, FulP!ResultConflict
  <1>7. Ful!ResultMisplaced(e) => FulP!ResultMisplaced(e)
    BY <1>1, <1>3, <1>4 DEF Ful!ResultMisplaced, FulP!ResultMisplaced, Ful!Terminal,
                            FulP!Terminal
  <1>8. Ful!ResultDefer(e) => FulP!ResultDefer(e)
    BY <1>1, <1>3, <1>4 DEF Ful!ResultDefer, FulP!ResultDefer, Ful!Terminal, FulP!Terminal
  <1>9. Ful!ResultRead(e) => FulP!ResultRead(e)
    BY <1>1, <1>3 DEF Ful!ResultRead, FulP!ResultRead, Ful!canMove, FulP!canMove,
                      Ful!TRANSITIONS, FulP!TRANSITIONS, Ful!Outcomes, FulP!Outcomes
  <1>10. Ful!ResultWrite(e) => FulP!ResultWrite(e)
    BY DEF Ful!ResultWrite, FulP!ResultWrite, Ful!Write, FulP!Write, Ful!Bumped,
           FulP!Bumped, Ful!Record, FulP!Record, Ful!Event, FulP!Event, Ful!EventOf,
           FulP!EventOf
  <1>11. Ful!ResultAbort(e) => FulP!ResultAbort(e)
    BY DEF Ful!ResultAbort, FulP!ResultAbort
  <1>12. QED
    BY <1>5, <1>6, <1>7, <1>8, <1>9, <1>10, <1>11 DEF Ful!HandleResult, FulP!HandleResult

-----------------------------------------------------------------------------
(* Steps of one service, as the others see them *)

\* The fulfillment-service stands still.
LEMMA ShipStill ==
    ASSUME DisInv, UNCHANGED shipVars
    PROVE  FulP!FulInv'
  <1>1. FulP!FulInv
    BY DEF DisInv
  <1>2. [FulP!FulfillmentNext]_FulP!fulfillmentVars
    BY DEF shipVars, FulP!fulfillmentVars
  <1>3. QED
    BY <1>1, <1>2, FulFacts, FulP!FulStep

\* The order-service stands still.
LEMMA OrderStill ==
    ASSUME DisInv, UNCHANGED orderVars
    PROVE  OrderInv'
  BY OrderStep DEF DisInv, orderVars

(***************************************************************************)
(* A write of one order, with or without stock: it keeps the grant and the *)
(* cancellation, and what was seen of the order still stands.              *)
(***************************************************************************)
LEMMA OrderKeeps ==
    ASSUME DisInv, OrderInv', NEW o \in Orders,
           UNCHANGED <<shipVars, quote, calls, batch>>,
           rsv' \in [Inv!Groups -> GroupType],
           \A x \in Orders \ {o} :
              /\ order'[x] = order[x] /\ tx'[x].kind = tx[x].kind
              /\ \A v \in Inv!Versions : rsv'[<<x, v>>] = rsv[<<x, v>>],
           StockFits(o)', IssueFits(o)',
           order'[o].grant = order[o].grant,
           Ending(o) => Ending(o)',
           \A v \in Nat : Stands(o, v) => Stands(o, v)',
           order[o].status \notin Early => /\ order'[o].status \notin Early
                                           /\ order'[o].group = order[o].group,
           order[o].status = "CANCELED" => order'[o].status = "CANCELED",
           \A e \in orderLog' \ orderLog : OrderEventFits(e)'
    PROVE  DisInv'
  <1>1. FulP!FulInv'
    BY ShipStill
  <1>2. LinkTypeOK'
    BY DEF DisInv, LinkTypeOK
  <1>3. UNCHANGED <<ship, intent, dispatch, shipLog>>
    BY DEF shipVars
  <1>4. ASSUME NEW x \in Orders
        PROVE  /\ order'[x].grant = order[x].grant
               /\ Ending(x) => Ending(x)'
               /\ \A v \in Nat : Stands(x, v) => Stands(x, v)'
               /\ order[x].status \notin Early => /\ order'[x].status \notin Early
                                                  /\ order'[x].group = order[x].group
               /\ order[x].status = "CANCELED" => order'[x].status = "CANCELED"
               /\ StockFits(x)' /\ IssueFits(x)'
    <2>1. CASE x = o
      BY <2>1
    <2>2. CASE x # o
      <3>1. /\ order'[x] = order[x] /\ tx'[x].kind = tx[x].kind
            /\ \A v \in Inv!Versions : rsv'[<<x, v>>] = rsv[<<x, v>>]
        BY <2>2
      <3>2. StockFits(x) /\ IssueFits(x)
        BY Columns
      <3>3. (Ending(x) => Ending(x)') /\ \A v \in Nat : Stands(x, v) => Stands(x, v)'
        BY <3>1 DEF Ending, Stands, Granted
      <3>4. StockFits(x)'
        BY <3>1, <3>2 DEF StockFits, Ending
      <3>5. IssueFits(x)'
        BY <1>3, <3>1, <3>2 DEF IssueFits
      <3>6. QED
        BY <3>1, <3>3, <3>4, <3>5
    <2>3. QED
      BY <2>1, <2>2
  <1>5. ASSUME NEW x \in Orders
        PROVE  ShipFits(x)' /\ QuoteFits(x)' /\ IntentFits(x)' /\ GrantFits(x)'
    <2>1. ShipFits(x) /\ QuoteFits(x) /\ IntentFits(x) /\ GrantFits(x)
      BY Columns
    <2>2. quote[x] \in Nat /\ intent[x].quoted \in Nat
      BY Columns DEF DisInv, LinkTypeOK, FulP!IntentRow
    <2>3. ShipFits(x)'
      BY <1>3, <1>4, <2>1 DEF ShipFits
    <2>4. QuoteFits(x)'
      BY <1>3, <1>4, <2>1, <2>2 DEF QuoteFits, Ful!IntentFree
    <2>5. IntentFits(x)'
      BY <1>3, <1>4, <2>1, <2>2 DEF IntentFits
    <2>6. GrantFits(x)'
      BY <1>3, <1>4, <2>1 DEF GrantFits, Granted
    <2>7. QED
      BY <2>3, <2>4, <2>5, <2>6
  <1>6. IntentIds'
    BY <1>3 DEF DisInv, IntentIds
  <1>7. ASSUME NEW q \in calls
        PROVE  CallFits(q)'
    <2>1. CallFits(q) /\ q \in OrderCall \cup BatchCall
      BY DEF DisInv, LinkTypeOK
    <2>2. CASE q.kind = "order"
      <3>1. q.order \in Orders
        BY <2>1, <2>2 DEF OrderCall, BatchCall
      <3>2. QED
        BY <1>3, <1>4, <2>1, <2>2, <3>1 DEF CallFits
    <2>3. CASE q.kind # "order"
      BY <1>3, <2>1, <2>3 DEF CallFits
    <2>4. QED
      BY <2>2, <2>3
  <1>8. \A b \in Batches : BatchFits(b)'
    BY <1>3 DEF DisInv, BatchFits, DistinctChildren, Members
  <1>9. ASSUME NEW e \in orderLog'
        PROVE  OrderEventFits(e)'
    <2>1. CASE e \in orderLog
      <3>1. OrderEventFits(e) /\ e.order \in Orders
        BY <2>1 DEF DisInv, OrderInv, OrderTypeOK, Event
      <3>2. QED
        BY <1>4, <3>1 DEF OrderEventFits
    <2>2. QED
      BY <2>1
  <1>10. \A e \in shipLog' : ShipEventFits(e)'
    BY <1>3 DEF DisInv, ShipEventFits
  <1>11. QED
    BY <1>1, <1>2, <1>4, <1>5, <1>6, <1>7, <1>8, <1>9, <1>10 DEF DisInv

\* A step of the inventory-service.
LEMMA StockKeeps ==
    ASSUME DisInv, UNCHANGED <<orderVars, shipVars, quote, calls>>,
           rsv' \in [Inv!Groups -> GroupType],
           \A o \in Orders : StockFits(o)' /\ IssueFits(o)'
    PROVE  DisInv'
  <1>1. FulP!FulInv' /\ OrderInv'
    BY ShipStill, OrderStill
  <1>2. UNCHANGED <<order, tx, orderLog, batch, ship, intent, dispatch, shipLog>>
    BY DEF orderVars, shipVars
  <1>3. LinkTypeOK'
    BY DEF DisInv, LinkTypeOK
  <1>4. ASSUME NEW o \in Orders
        PROVE  ShipFits(o)' /\ QuoteFits(o)' /\ IntentFits(o)' /\ GrantFits(o)'
    <2>1. ShipFits(o) /\ QuoteFits(o) /\ IntentFits(o) /\ GrantFits(o)
      BY Columns
    <2>2. QED
      BY <1>2, <2>1 DEF ShipFits, QuoteFits, IntentFits, GrantFits, Stands, Ending, Granted,
                        Ful!IntentFree
  <1>5. IntentIds' /\ \A q \in calls' : CallFits(q)'
    BY <1>2 DEF DisInv, IntentIds, CallFits, Ending
  <1>6. \A b \in Batches : BatchFits(b)'
    BY <1>2 DEF DisInv, BatchFits, DistinctChildren, Members
  <1>7. /\ \A e \in orderLog' : OrderEventFits(e)'
        /\ \A e \in shipLog' : ShipEventFits(e)'
    BY <1>2 DEF DisInv, OrderEventFits, ShipEventFits
  <1>8. QED
    BY <1>1, <1>3, <1>4, <1>5, <1>6, <1>7 DEF DisInv

\* A step of the fulfillment-service that dispatches nothing.
LEMMA MoveKeeps ==
    ASSUME DisInv, FulP!FulInv', FulP!Moved, UNCHANGED <<orderVars, rsv, quote, calls>>
    PROVE  DisInv'
  <1>1. OrderInv'
    BY OrderStill
  <1>2. UNCHANGED <<order, tx, orderLog, batch>>
    BY DEF orderVars
  <1>3. /\ UNCHANGED <<intent, dispatch>>
        /\ \A o \in Orders :
              /\ ship'[o].group = ship[o].group
              /\ ship'[o].status = "NONE" <=> ship[o].status = "NONE"
              /\ intent[o].status = "PENDING" /\ ship[o].status = "READY_TO_SHIP"
                    => ship'[o].status = "READY_TO_SHIP"
        /\ \A e \in shipLog' \ shipLog :
              /\ e.type # "ShipmentDispatched"
              /\ ship[e.order].status # "NONE"
              /\ e.group = ship[e.order].group
    BY DEF FulP!Moved
  <1>4. \A o \in Orders : ship'[o].status \in Ful!Gone <=> ship[o].status \in Ful!Gone
    <2> SUFFICES ASSUME NEW o \in Orders
                 PROVE  ship'[o].status \in Ful!Gone <=> ship[o].status \in Ful!Gone
      OBVIOUS
    <2>1. ship'[o].status \in FulP!Gone <=> intent'[o].status = "COMPLETED"
      BY DEF FulP!FulInv, FulP!LeftByIntent, FulP!Gone
    <2>2. QED
      BY <1>3, <2>1, Columns, GoneSet
  <1>5. LinkTypeOK'
    BY DEF DisInv, LinkTypeOK
  <1>6. ASSUME NEW o \in Orders
        PROVE  /\ StockFits(o)' /\ IssueFits(o)' /\ ShipFits(o)'
               /\ QuoteFits(o)' /\ IntentFits(o)' /\ GrantFits(o)'
    <2>1. /\ StockFits(o) /\ IssueFits(o) /\ ShipFits(o)
          /\ QuoteFits(o) /\ IntentFits(o) /\ GrantFits(o)
      BY Columns
    <2>2. StockFits(o)' /\ ShipFits(o)' /\ QuoteFits(o)' /\ GrantFits(o)'
      BY <1>2, <1>3, <2>1 DEF StockFits, ShipFits, QuoteFits, GrantFits, Stands, Ending,
                              Granted, Ful!IntentFree
    <2>3. IssueFits(o)'
      <3>1. \A v \in Inv!Versions : rsv'[<<o, v>>] = rsv[<<o, v>>]
        OBVIOUS
      <3> HIDE DEF Ful!Gone
      <3>2. QED
        BY <1>3, <1>4, <2>1, <3>1 DEF IssueFits
    <2>4. IntentFits(o)'
      BY <1>2, <1>3, <1>4, <2>1 DEF IntentFits, Stands, Ending, Granted
    <2>5. QED
      BY <2>2, <2>3, <2>4
  <1>7. IntentIds'
    BY <1>3 DEF DisInv, IntentIds
  <1>8. ASSUME NEW q \in calls
        PROVE  CallFits(q)'
    <2>1. CallFits(q) /\ q \in OrderCall \cup BatchCall
      BY DEF DisInv, LinkTypeOK
    <2>2. CASE q.kind = "order"
      <3>1. q.order \in Orders
        BY <2>1, <2>2 DEF OrderCall, BatchCall
      <3>2. QED
        BY <1>2, <1>3, <2>1, <2>2, <3>1 DEF CallFits, Ending
    <2>3. CASE q.kind # "order"
      BY <1>2, <1>3, <2>1, <2>3 DEF CallFits
    <2>4. QED
      BY <2>2, <2>3
  <1>9. \A b \in Batches : BatchFits(b)'
    BY <1>2, <1>3 DEF DisInv, BatchFits, DistinctChildren, Members
  <1>10. \A e \in orderLog' : OrderEventFits(e)'
    BY <1>2 DEF DisInv, OrderEventFits
  <1>11. ASSUME NEW e \in shipLog'
         PROVE  ShipEventFits(e)'
    <2>1. e.order \in Orders
      BY DEF FulP!FulInv, FulP!FulfillmentTypeOK, FulP!ShipEvent
    <2>2. CASE e \in shipLog
      <3>1. ShipEventFits(e)
        BY <2>2 DEF DisInv
      <3>2. QED
        BY <1>3, <1>4, <2>1, <3>1 DEF ShipEventFits
    <2>3. CASE e \notin shipLog
      BY <1>3, <2>1, <2>3 DEF ShipEventFits
    <2>4. QED
      BY <2>2, <2>3
  <1>12. QED
    BY <1>1, <1>5, <1>6, <1>7, <1>8, <1>9, <1>10, <1>11 DEF DisInv

-----------------------------------------------------------------------------
(* The steps of the order-service *)

(***************************************************************************)
(* A write of the row of an order that neither confirms nor grants it:     *)
(* whoever saw the order ready can rely on it unless it ends now.          *)
(***************************************************************************)
LEMMA RowKeeps ==
    ASSUME DisInv, OrderInv', NEW o \in Orders, NEW row \in Row, Write(o, row),
           UNCHANGED <<shipVars, rsv, quote, calls, batch>>,
           \A x \in Orders \ {o} : tx'[x].kind = tx[x].kind,
           tx'[o].kind = "none",
           row.group = order[o].group /\ row.grant = order[o].grant,
           order[o].status \notin Early => row.status \notin Early,
           order[o].status \in Early => row.status \in Early \cup {"CANCELED"},
           Ending(o) => row.cancelling \/ row.status = "CANCELED",
           order[o].status = "CANCELED" => row.status = "CANCELED",
           order[o].status = "READY_TO_SHIP" /\ ~Granted(o)
              => row.cancelling \/ row.status = "CANCELED",
           \A e \in orderLog' \ orderLog : OrderEventFits(e)'
    PROVE  DisInv'
  <1>1. OrderTypeOK
    BY DEF DisInv, OrderInv
  <1>2. /\ \A x \in Orders : x # o => order'[x] = order[x]
        /\ order'[o].status = row.status
        /\ order'[o].cancelling = row.cancelling
        /\ order'[o].group = row.group
        /\ order'[o].grant = row.grant
    BY <1>1, WriteRow
  <1>3. \A x \in Orders \ {o} :
            /\ order'[x] = order[x] /\ tx'[x].kind = tx[x].kind
            /\ \A v \in Inv!Versions : rsv'[<<x, v>>] = rsv[<<x, v>>]
    BY <1>2
  <1>4. StockFits(o) /\ IssueFits(o)
    BY Columns
  <1>5. StockFits(o)'
    BY <1>2, <1>4 DEF StockFits, Ending
  <1>6. IssueFits(o)'
    BY <1>4 DEF IssueFits, shipVars
  <1>7. rsv' \in [Inv!Groups -> GroupType]
    BY DEF DisInv, LinkTypeOK
  <1>8. Ending(o) => Ending(o)'
    BY <1>2 DEF Ending
  <1>9. \A v \in Nat : Stands(o, v) => Stands(o, v)'
    BY <1>2, <1>8 DEF Stands, Granted, Ending
  <1>10. QED
    BY <1>2, <1>3, <1>5, <1>6, <1>7, <1>8, <1>9, OrderKeeps

\* A step that only takes or frees the lock of an order.
LEMMA LockKeeps ==
    ASSUME DisInv, OrderInv', NEW o \in Orders,
           UNCHANGED <<order, orderLog, batch, shipVars, rsv, quote, calls>>,
           \A x \in Orders \ {o} : tx'[x].kind = tx[x].kind,
           tx'[o].kind = "confirm" => order[o].version \in Inv!Versions
    PROVE  DisInv'
  <1>1. \A x \in Orders \ {o} :
            /\ order'[x] = order[x] /\ tx'[x].kind = tx[x].kind
            /\ \A v \in Inv!Versions : rsv'[<<x, v>>] = rsv[<<x, v>>]
    OBVIOUS
  <1>2. StockFits(o) /\ IssueFits(o)
    BY Columns
  <1>3. StockFits(o)' /\ IssueFits(o)'
    BY <1>2 DEF StockFits, Ending, IssueFits, shipVars
  <1>4. rsv' \in [Inv!Groups -> GroupType]
    BY DEF DisInv, LinkTypeOK
  <1>5. (Ending(o) => Ending(o)') /\ \A v \in Nat : Stands(o, v) => Stands(o, v)'
    BY DEF Ending, Stands, Granted
  <1>6. QED
    BY <1>1, <1>3, <1>4, <1>5, OrderKeeps

\* A new order has no shipment, no grant and no stock.
LEMMA NewOrderStep ==
    ASSUME DisInv, NEW o \in Orders, NewOrder(o)
    PROVE  DisInv'
  <1>1. PICK lines \in Demands : Create(o, lines)
    BY DEF NewOrder
  <1> DEFINE row == [order[o] EXCEPT !.status = "DRAFT", !.lines = lines]
  <1>2. OrderInv'
    BY <1>1, CreateStep DEF DisInv
  <1>3. order[o] \in Row /\ order[o].status = "NONE" /\ Unlocked(o) /\ ~order[o].cancelling
    BY <1>1, Columns, OrderFacts DEF Create, Exists, EDITABLE, CANCELABLE
  <1>4. /\ row \in Row /\ row.status = "DRAFT" /\ row.group = order[o].group
        /\ row.grant = order[o].grant
    BY <1>3 DEF Row, Status
  <1>5. Write(o, row) /\ Emit("OrderCreated", o, row) /\ UNCHANGED <<tx, batch>>
    BY <1>1 DEF Create
  <1>6. \A e \in orderLog' \ orderLog : OrderEventFits(e)'
    BY <1>5 DEF Emit, OrderEventFits
  <1>7. UNCHANGED <<shipVars, rsv, quote, calls>>
    BY DEF NewOrder, stockVars, linkVars
  <1>8. ~Ending(o) /\ order[o].status \in Early /\ row.status \in Early
        /\ order[o].status # "READY_TO_SHIP" /\ order[o].status # "CANCELED"
    BY <1>3, <1>4 DEF Ending, Early
  <1>9. tx'[o].kind = "none" /\ \A x \in Orders \ {o} : tx'[x].kind = tx[x].kind
    BY <1>3, <1>5 DEF Unlocked
  <1> HIDE DEF row
  <1>10. QED
    BY <1>2, <1>4, <1>5, <1>6, <1>7, <1>8, <1>9, RowKeeps

\* confirm takes the lock; the version is the key of the group to come.
LEMMA ConfirmStep ==
    ASSUME DisInv, NEW o \in Orders, Confirm(o)
    PROVE  DisInv'
  <1>1. BeginConfirm(o, order[o].version, FALSE)
        /\ UNCHANGED <<shipVars, rsv, quote, calls>>
    BY DEF Confirm, stockVars, linkVars
  <1>2. OrderInv'
    BY <1>1, BeginConfirmStep DEF DisInv
  <1>3. order[o].version \in Inv!Versions
    <2>1. order[o].version \in Nat /\ order[o].version > 0
      BY <1>1, OrderFacts DEF BeginConfirm, assertConfirmable, Exists
    <2>2. QED
      BY <1>1, <2>1, OrderAssumption DEF BeginConfirm, Inv!Versions
  <1>4. /\ UNCHANGED <<order, orderLog, batch>>
        /\ \A x \in Orders \ {o} : tx'[x].kind = tx[x].kind
    BY <1>1 DEF BeginConfirm, DisInv, OrderInv, OrderTypeOK
  <1>5. QED
    BY <1>1, <1>2, <1>3, <1>4, LockKeeps

\* The lock is given back and nothing else happens.
LEMMA GiveUpStep ==
    ASSUME DisInv, NEW o \in Orders, GiveUp(o)
    PROVE  DisInv'
  <1>1. Abort(o) /\ UNCHANGED <<shipVars, rsv, quote, calls>>
    BY DEF GiveUp, stockVars, linkVars
  <1>2. OrderInv'
    BY <1>1, AbortStep DEF DisInv
  <1>3. /\ UNCHANGED <<order, orderLog, batch>>
        /\ \A x \in Orders : tx'[x].kind = IF x = o THEN "none" ELSE tx[x].kind
    BY <1>1, UnlockType DEF Abort, DisInv, OrderInv
  <1>4. QED
    BY <1>1, <1>2, <1>3, LockKeeps

\* The stock is reserved under the order's version, for which no group exists.
LEMMA ConfirmedStep ==
    ASSUME DisInv, NEW o \in Orders, Confirmed(o)
    PROVE  DisInv'
  <1> DEFINE n == order[o].version
             g == <<o, n>>
             row == [order[o] EXCEPT !.status = "CONFIRMED", !.group = n]
             new == [rsv[g] EXCEPT !.status = "ACTIVE", !.lines = order[o].lines]
  <1>1. /\ CommitReserved(o) /\ UNCHANGED <<shipVars, quote, calls>>
        /\ Inv!CreateGroup(o, order[o].version, order[o].lines)
    BY DEF Confirmed, linkVars
  <1>2. OrderInv'
    BY <1>1, CommitReservedStep DEF DisInv
  <1>3. tx[o].kind = "confirm"
    BY <1>1 DEF CommitReserved
  <1>4. /\ order[o].status \in EDITABLE /\ ~order[o].cancelling
        /\ order[o].lines \in Demands /\ order[o] \in Row
    BY <1>3, OrderFacts, Columns DEF Unlocked
  <1>5. n \in Inv!Versions /\ order[o].group = 0
    BY <1>3, <1>4, Columns DEF StockFits, Early, EDITABLE
  <1>6. \A v \in Inv!Versions : rsv[<<o, v>>].status = "NONE"
    <2>1. StockFits(o) /\ \A v \in Inv!Versions : v # 0
      BY Columns, GroupKeys
    <2>2. QED
      BY <1>5, <2>1 DEF StockFits
  <1>7. /\ row \in Row /\ row.status = "CONFIRMED" /\ row.group = n
        /\ row.grant = order[o].grant
    BY <1>4 DEF Row, Status
  <1>8. Write(o, row) /\ Emit("OrderConfirmed", o, row) /\ Unlock(o) /\ UNCHANGED batch
    BY <1>1 DEF CommitReserved
  <1>9. g \in Inv!Groups /\ rsv[g] \in GroupType /\ rsv \in [Inv!Groups -> GroupType]
    BY <1>5, GroupKeys DEF DisInv, LinkTypeOK
  <1>10. rsv' = [rsv EXCEPT ![g] = new]
    BY <1>1, <1>9 DEF Inv!CreateGroup, GroupType
  <1>11. new \in GroupType /\ new.status = "ACTIVE"
    BY <1>4, <1>9 DEF GroupType, Inv!GroupStatus
  <1> HIDE DEF new, row
  <1>12. /\ rsv' \in [Inv!Groups -> GroupType]
         /\ \A h \in Inv!Groups : rsv'[h] = IF h = g THEN new ELSE rsv[h]
    BY <1>9, <1>10, <1>11
  <1>13. /\ \A x \in Orders : x # o => order'[x] = order[x]
         /\ order'[o].status = "CONFIRMED" /\ order'[o].group = n
         /\ order'[o].grant = order[o].grant
    BY <1>7, <1>8, WriteRow DEF DisInv, OrderInv
  <1>14. \A x \in Orders : tx'[x].kind = IF x = o THEN "none" ELSE tx[x].kind
    BY <1>8, UnlockType DEF DisInv, OrderInv
  <1>15. ASSUME NEW x \in Orders \ {o}
         PROVE  /\ order'[x] = order[x] /\ tx'[x].kind = tx[x].kind
                /\ \A v \in Inv!Versions : rsv'[<<x, v>>] = rsv[<<x, v>>]
    BY <1>12, <1>13, <1>14, GroupKeys
  <1>16. /\ rsv'[<<o, n>>].status = "ACTIVE"
         /\ \A v \in Inv!Versions : v # n => rsv'[<<o, v>>].status = "NONE"
    BY <1>5, <1>6, <1>9, <1>11, <1>12, GroupKeys
  <1>17. StockFits(o)' /\ IssueFits(o)'
    <2>1. StockFits(o)'
      BY <1>5, <1>13, <1>14, <1>16 DEF StockFits, Early
    <2>2. \A v \in Inv!Versions : rsv'[<<o, v>>].status # "ISSUED"
      BY <1>5, <1>16
    <2>3. QED
      BY <2>1, <2>2 DEF IssueFits
  <1>18. ~Ending(o) /\ order[o].status \in Early /\ order[o].status # "READY_TO_SHIP"
         /\ order[o].status # "CANCELED" /\ ~Granted(o)
    BY <1>4, OrderFacts DEF Ending, EDITABLE, Early
  <1>19. \A v \in Nat : Stands(o, v) => Stands(o, v)'
    BY <1>18 DEF Stands
  <1>20. \A e \in orderLog' \ orderLog : OrderEventFits(e)'
    BY <1>7, <1>8, <1>13 DEF Emit, OrderEventFits, Early
  <1>21. QED
    BY <1>1, <1>2, <1>8, <1>12, <1>13, <1>15, <1>17, <1>18, <1>19, <1>20, OrderKeeps

\* An order whose cancellation begins ends: what was quoted is void.
LEMMA CancelStep ==
    ASSUME DisInv, NEW o \in Orders, Cancel(o)
    PROVE  DisInv'
  <1> DEFINE row == [order[o] EXCEPT !.cancelling = TRUE]
  <1>1. RequestCancel(o) /\ UNCHANGED <<shipVars, rsv, quote, calls>>
    BY DEF Cancel, stockVars, linkVars
  <1>2. OrderInv'
    BY <1>1, RequestCancelStep DEF DisInv
  <1>3. /\ row \in Row /\ row.status = order[o].status /\ row.group = order[o].group
        /\ row.grant = order[o].grant /\ row.cancelling
    BY Columns DEF Row
  <1>4. Write(o, row) /\ tx[o].kind = "none" /\ UNCHANGED <<tx, batch, orderLog>>
    BY <1>1 DEF RequestCancel, Unlocked
  <1> HIDE DEF row
  <1>5. QED
    BY <1>1, <1>2, <1>3, <1>4, RowKeeps

\* The end of a cancellation; its event says that the order is canceled.
LEMMA CanceledStep ==
    ASSUME DisInv, NEW o \in Orders, Canceled(o)
    PROVE  DisInv'
  <1> DEFINE row == [order[o] EXCEPT !.status = "CANCELED", !.cancelling = FALSE]
  <1>1. FinishCancel(o) /\ UNCHANGED <<shipVars, rsv, quote, calls>>
    BY DEF Canceled, stockVars, linkVars
  <1>2. OrderInv'
    BY <1>1, FinishCancelStep DEF DisInv
  <1>3. /\ row \in Row /\ row.status = "CANCELED" /\ row.group = order[o].group
        /\ row.grant = order[o].grant
    BY Columns DEF Row, Status
  <1>4. /\ Write(o, row) /\ tx[o].kind = "none" /\ UNCHANGED <<tx, batch>>
        /\ Emit("OrderCanceled", o, row)
    BY <1>1 DEF FinishCancel, Unlocked
  <1>5. order'[o].status = "CANCELED"
    BY <1>3, <1>4, WriteRow DEF DisInv, OrderInv
  <1>6. \A e \in orderLog' \ orderLog : OrderEventFits(e)'
    BY <1>4, <1>5 DEF Emit, OrderEventFits
  <1>7. row.status \notin Early
    BY <1>3 DEF Early
  <1> HIDE DEF row
  <1>8. QED
    BY <1>1, <1>2, <1>3, <1>4, <1>6, <1>7, RowKeeps

\* A shipment event moves the order of the shipment.
LEMMA ToOrderStep ==
    ASSUME DisInv, NEW e \in shipLog, ToOrder(e)
    PROVE  DisInv'
  <1> DEFINE o == e.order
             target == TargetOf(e.type)
             row == [order[o] EXCEPT !.status = target, !.seen = e.version]
  <1>1. o \in Orders /\ e.version \in Nat
    BY DEF DisInv, FulP!FulInv, FulP!FulfillmentTypeOK, FulP!ShipEvent
  <1>2. /\ UNCHANGED <<shipVars, rsv, quote, calls>> /\ Unlocked(o)
        /\ \/ ApplyShipment(o, target, e.version, e.group, e.request)
           \/ UNCHANGED orderVars
    BY DEF ToOrder, stockVars
  <1>3. target \in TARGETS
    BY DEF ToOrder, First, ForOrder, TargetOf, TARGETS
  <1>4. CASE UNCHANGED orderVars
    <2>1. OrderInv' /\ UNCHANGED <<order, orderLog, batch, tx>>
      BY <1>4, OrderStill DEF orderVars
    <2>2. tx'[o].kind = "none"
      BY <1>2, <2>1 DEF Unlocked
    <2>3. QED
      BY <1>1, <1>2, <2>1, <2>2, LockKeeps
  <1>5. CASE ApplyShipment(o, target, e.version, e.group, e.request)
    <2> HIDE DEF o, target
    <2>1. OrderInv'
      BY <1>1, <1>3, <1>5, ApplyShipmentStep DEF DisInv
    <2>2. /\ row \in Row /\ row.status = target /\ row.group = order[o].group
          /\ row.grant = order[o].grant
      BY <1>1, <1>3, Columns DEF Row, Status, TARGETS
    <2>3. Write(o, row) /\ tx[o].kind = "none" /\ UNCHANGED <<tx, batch, orderLog>>
      BY <1>5 DEF ApplyShipment, Unlocked
    <2>4. /\ order[o].status \in Status /\ ~order[o].cancelling
          /\ canTransition(order[o].status, target)
          /\ target = "IN_DELIVERY" => Granted(o)
      BY <1>1, <1>5, OrderFacts DEF ApplyShipment, ShipmentVerdict
    <2>5. /\ order[o].status \notin Early \cup {"CANCELED"}
          /\ order[o].status = "READY_TO_SHIP" => target = "IN_DELIVERY"
      BY <1>3, <2>4 DEF canTransition, ALLOWED_TRANSITIONS, TARGETS, Early, Status
    <2>6. target \notin Early
      BY <1>3 DEF TARGETS, Early
    <2>7. ~Ending(o)
      BY <2>4, <2>5 DEF Ending
    <2> HIDE DEF row
    <2>8. QED
      BY <1>1, <1>2, <2>1, <2>2, <2>3, <2>4, <2>5, <2>6, <2>7, RowKeeps
  <1>6. QED
    BY <1>2, <1>4, <1>5

-----------------------------------------------------------------------------
(* The steps of the inventory-service *)

\* Stock is given back only for an order whose cancellation has begun.
LEMMA ReleaseCanceledStep ==
    ASSUME DisInv, NEW o \in Orders, ReleaseCanceled(o)
    PROVE  DisInv'
  <1>1. UNCHANGED <<orderVars, shipVars, quote, calls>> /\ Ending(o)
    BY DEF ReleaseCanceled, linkVars, CanFinishCancel, Ending
  <1>2. UNCHANGED <<order, tx, ship, intent>>
    BY <1>1 DEF orderVars, shipVars
  <1>3. rsv' = [g \in Inv!Groups |->
                  IF g \in Inv!Active(o) THEN [rsv[g] EXCEPT !.status = "RELEASED"]
                  ELSE rsv[g]]
    BY DEF ReleaseCanceled, Inv!ReleaseOrder, Inv!ReleaseGroups
  <1>4. rsv \in [Inv!Groups -> GroupType]
    BY DEF DisInv, LinkTypeOK
  <1>5. rsv' \in [Inv!Groups -> GroupType]
    BY <1>3, <1>4 DEF GroupType, Inv!GroupStatus
  <1>6. \A g \in Inv!Groups :
            \/ rsv'[g] = rsv[g]
            \/ /\ g[1] = o /\ rsv[g].status = "ACTIVE"
               /\ rsv'[g].status = "RELEASED"
    BY <1>3, <1>4 DEF Inv!Active, Inv!With, GroupType
  <1>7. ASSUME NEW x \in Orders
        PROVE  StockFits(x)' /\ IssueFits(x)'
    <2>1. StockFits(x) /\ IssueFits(x)
      BY Columns
    <2>2. ASSUME NEW v \in Inv!Versions
          PROVE  \/ rsv'[<<x, v>>] = rsv[<<x, v>>]
                 \/ x = o /\ rsv[<<x, v>>].status = "ACTIVE"
                          /\ rsv'[<<x, v>>].status = "RELEASED"
      BY <1>6, GroupKeys
    <2>3. IssueFits(x)'
      BY <1>2, <2>1, <2>2 DEF IssueFits
    <2>4. \A v \in Inv!Versions : rsv'[<<x, v>>].status # "NONE" => v = order[x].group
      BY <2>1, <2>2 DEF StockFits
    <2>5. CASE x = o
      BY <1>1, <1>2, <2>1, <2>3, <2>4, <2>5 DEF StockFits, Ending
    <2>6. CASE x # o
      BY <1>2, <2>1, <2>2, <2>3, <2>4, <2>6 DEF StockFits, Ending
    <2>7. QED
      BY <2>5, <2>6
  <1>8. QED
    BY <1>1, <1>5, <1>7, StockKeeps

\* Receipts and adjustments touch no reservation group.
LEMMA MovementStep ==
    ASSUME DisInv, NEW m, Movement(m)
    PROVE  DisInv'
  <1>1. UNCHANGED <<orderVars, shipVars, quote, calls, rsv>>
    BY DEF Movement, Inv!ApplyMovement, linkVars
  <1>2. UNCHANGED <<order, tx, ship, intent>>
    BY <1>1 DEF orderVars, shipVars
  <1>3. \A o \in Orders : StockFits(o)' /\ IssueFits(o)'
    <2> SUFFICES ASSUME NEW o \in Orders
                 PROVE  StockFits(o)' /\ IssueFits(o)'
      OBVIOUS
    <2>1. StockFits(o) /\ IssueFits(o)
      BY Columns
    <2>2. QED
      BY <1>1, <1>2, <2>1 DEF StockFits, IssueFits, Ending
  <1>4. rsv' \in [Inv!Groups -> GroupType]
    BY <1>1 DEF DisInv, LinkTypeOK
  <1>5. QED
    BY <1>1, <1>3, <1>4, StockKeeps

\* What the event of a dispatched shipment says.
LEMMA DispatchedEvent ==
    ASSUME DisInv, NEW e \in shipLog, e.type = "ShipmentDispatched"
    PROVE  /\ e.order \in Orders /\ e.request \in Requests \cup {NoRequest}
           /\ ship[e.order].status \in Ful!Gone
           /\ e.request = intent[e.order].id /\ e.request # NoRequest
           /\ order[e.order].grant = e.request /\ Granted(e.order)
           /\ e.group = order[e.order].group /\ e.group \in Inv!Versions
           /\ order[e.order].status \notin Early /\ ~Ending(e.order)
           /\ rsv[<<e.order, e.group>>].status \in {"ACTIVE", "ISSUED"}
  <1>1. e.order \in Orders /\ e.request \in Requests \cup {NoRequest}
    BY DEF DisInv, FulP!FulInv, FulP!FulfillmentTypeOK, FulP!ShipEvent
  <1>2. /\ ship[e.order].status \in Ful!Gone /\ e.request = intent[e.order].id
        /\ ship[e.order].status # "NONE" /\ e.group = ship[e.order].group
    <2>1. TargetOf(e.type) # "NONE"
      BY DEF TargetOf
    <2>2. QED
      BY <2>1 DEF DisInv, ShipEventFits
  <1>3. intent[e.order].status = "COMPLETED"
    BY <1>1, <1>2, Columns
  <1>4. e.request # NoRequest /\ order[e.order].grant = e.request
    BY <1>1, <1>2, <1>3, Columns DEF IntentFits
  <1>5. Granted(e.order)
    BY <1>4 DEF Granted
  <1>6. order[e.order].status \notin Early /\ ~Ending(e.order)
    BY <1>1, <1>5, OrderFacts DEF Early
  <1>7. e.group = order[e.order].group
    BY <1>1, <1>2, Columns DEF ShipFits
  <1>8. /\ order[e.order].group \in Inv!Versions
        /\ rsv[<<e.order, order[e.order].group>>].status \in {"ACTIVE", "ISSUED"}
    BY <1>1, <1>6, Columns DEF StockFits
  <1>9. QED
    BY <1>1, <1>2, <1>4, <1>5, <1>6, <1>7, <1>8

\* Stock is issued for the shipment that left, under its request.
LEMMA ToStockStep ==
    ASSUME DisInv, NEW e \in shipLog, ToStock(e)
    PROVE  DisInv'
  <1> DEFINE o == e.order
             g == <<e.order, e.group>>
             new == [rsv[g] EXCEPT !.status = "ISSUED", !.issue = e.request]
  <1>1. UNCHANGED <<orderVars, shipVars, quote, calls>> /\ e.type = "ShipmentDispatched"
    BY DEF ToStock, First, ForStock
  <1>2. UNCHANGED <<order, tx, ship, intent>>
    BY <1>1 DEF orderVars, shipVars
  <1>3. /\ o \in Orders /\ e.request \in Requests \cup {NoRequest}
        /\ ship[o].status \in Ful!Gone /\ e.request = intent[o].id
        /\ e.group = order[o].group /\ e.group \in Inv!Versions
    BY <1>1, DispatchedEvent
  <1>4. g \in Inv!Groups /\ rsv \in [Inv!Groups -> GroupType] /\ rsv[g] \in GroupType
    BY <1>3, GroupKeys DEF DisInv, LinkTypeOK
  <1>5. new \in GroupType /\ new.status = "ISSUED" /\ new.issue = e.request
    BY <1>3, <1>4 DEF GroupType, Inv!GroupStatus
  <1>6. rsv' = rsv \/ rsv' = [rsv EXCEPT ![g] = new]
    BY <1>4 DEF ToStock, Inv!Issue, stockVars, GroupType
  <1> HIDE DEF new, g
  <1>7. /\ rsv' \in [Inv!Groups -> GroupType]
        /\ \A h \in Inv!Groups : \/ rsv'[h] = rsv[h]
                                 \/ h = g /\ rsv'[h] = new
    BY <1>4, <1>5, <1>6
  <1>8. ASSUME NEW x \in Orders
        PROVE  StockFits(x)' /\ IssueFits(x)'
    <2>1. StockFits(x) /\ IssueFits(x)
      BY Columns
    <2>2. ASSUME NEW v \in Inv!Versions
          PROVE  \/ rsv'[<<x, v>>] = rsv[<<x, v>>]
                 \/ /\ x = o /\ v = e.group
                    /\ rsv'[<<x, v>>].status = "ISSUED"
                    /\ rsv'[<<x, v>>].issue = e.request
      BY <1>5, <1>7, GroupKeys DEF g
    <2>3. IssueFits(x)'
      BY <1>2, <1>3, <2>1, <2>2 DEF IssueFits
    <2>4. \A v \in Inv!Versions : rsv'[<<x, v>>].status # "NONE" => v = order[x].group
      BY <1>3, <2>1, <2>2 DEF StockFits
    <2>5. \A v \in Inv!Versions : rsv[<<x, v>>].status \in {"ACTIVE", "ISSUED"}
              => rsv'[<<x, v>>].status \in {"ACTIVE", "ISSUED"}
      BY <2>2
    <2>6. StockFits(x)'
      BY <1>2, <2>1, <2>4, <2>5 DEF StockFits, Ending
    <2>7. QED
      BY <2>3, <2>6
  <1>9. QED
    BY <1>1, <1>7, <1>8, StockKeeps

-----------------------------------------------------------------------------
(* The steps of the fulfillment-service that dispatch nothing *)

\* Transition: picking, and a delivery outcome reported by hand.
LEMMA PickStep ==
    ASSUME DisInv, NEW o \in Orders, Pick(o)
    PROVE  DisInv'
  <1>1. UNCHANGED <<orderVars, rsv, quote, calls>> /\ FulP!FulInv
    BY DEF Pick, stockVars, linkVars, DisInv
  <1>2. PICK to \in {"PICKING", "READY_TO_SHIP"} \cup FulP!Outcomes : FulP!Transition(o, to)
    <2>1. Ful!Outcomes = FulP!Outcomes
      BY DEF Ful!Outcomes, FulP!Outcomes
    <2>2. QED
      BY <2>1, SameMoves DEF Pick
  <1>3. FulP!FulInv'
    BY <1>1, <1>2, FulFacts, FulP!TransitionStep
  <1>4. FulP!Moved
    BY <1>1, <1>2, FulFacts, FulP!TransitionMoved
  <1>5. QED
    BY <1>1, <1>3, <1>4, MoveKeeps

\* A trip claims a shipment.
LEMMA TripClaimsStep ==
    ASSUME DisInv, NEW o \in Orders, TripClaims(o)
    PROVE  DisInv'
  <1>1. UNCHANGED <<orderVars, rsv, quote, calls>> /\ FulP!FulInv
    BY DEF TripClaims, stockVars, linkVars, DisInv
  <1>2. PICK c \in Claims, t \in Trips, a \in Actors :
           FulP!Claim(c, o, t, a, ship[o].version)
    BY SameMoves DEF TripClaims
  <1>3. FulP!FulInv'
    BY <1>1, <1>2, FulFacts, FulP!ClaimStep
  <1>4. FulP!Moved
    BY <1>1, <1>2, FulFacts, FulP!ClaimMoved
  <1>5. QED
    BY <1>1, <1>3, <1>4, MoveKeeps

\* A trip releases a shipment.
LEMMA TripReleasesStep ==
    ASSUME DisInv, NEW o \in Orders, TripReleases(o)
    PROVE  DisInv'
  <1>1. UNCHANGED <<orderVars, rsv, quote, calls>> /\ FulP!FulInv
    BY DEF TripReleases, stockVars, linkVars, DisInv
  <1>2. PICK c \in Claims, t \in Trips, a \in Actors :
           FulP!Release(c, o, t, a, ship[o].version, 1)
    BY SameMoves DEF TripReleases
  <1>3. 1 \in Nat \ {0}
    OBVIOUS
  <1>4. FulP!FulInv'
    BY <1>1, <1>2, <1>3, FulFacts, FulP!ReleaseStep
  <1>5. FulP!Moved
    BY <1>1, <1>2, FulFacts, FulP!ReleaseMoved
  <1>6. QED
    BY <1>1, <1>4, <1>5, MoveKeeps

\* A delivery result is applied, deferred or refused.
LEMMA DeliveryResultStep ==
    ASSUME DisInv, NEW e \in Results, DeliveryResult(e)
    PROVE  DisInv'
  <1>1. UNCHANGED <<orderVars, rsv, quote, calls>> /\ FulP!FulInv
    BY DEF DeliveryResult, stockVars, linkVars, DisInv
  <1>2. FulP!HandleResult(e)
    BY SameResults DEF DeliveryResult
  <1>3. FulP!FulInv'
    BY <1>1, <1>2, FulFacts, FulP!HandleResultStep
  <1>4. FulP!Moved
    BY <1>1, <1>2, FulFacts, FulP!ResultMoved
  <1>5. QED
    BY <1>1, <1>3, <1>4, MoveKeeps

-----------------------------------------------------------------------------
(* Quotes and calls *)

\* A step that only shows a version to a dispatcher, or sends or loses a call.
LEMMA LinkKeeps ==
    ASSUME DisInv, UNCHANGED <<orderVars, shipVars, rsv>>,
           quote' \in [Orders -> Nat], calls' \subseteq OrderCall \cup BatchCall,
           \A o \in Orders : \/ quote'[o] = quote[o]
                             \/ QuoteFits(o)' /\ ~Ending(o),
           \A q \in calls' : q \in calls \/ CallFits(q)
    PROVE  DisInv'
  <1>1. FulP!FulInv' /\ OrderInv'
    BY ShipStill, OrderStill
  <1>2. UNCHANGED <<order, tx, orderLog, batch, ship, intent, dispatch, shipLog>>
    BY DEF orderVars, shipVars
  <1>3. LinkTypeOK'
    BY DEF DisInv, LinkTypeOK
  <1>4. ASSUME NEW o \in Orders
        PROVE  /\ StockFits(o)' /\ IssueFits(o)' /\ ShipFits(o)'
               /\ QuoteFits(o)' /\ IntentFits(o)' /\ GrantFits(o)'
    <2>1. /\ StockFits(o) /\ IssueFits(o) /\ ShipFits(o)
          /\ QuoteFits(o) /\ IntentFits(o) /\ GrantFits(o)
      BY Columns
    <2>2. StockFits(o)' /\ IssueFits(o)' /\ ShipFits(o)' /\ GrantFits(o)'
      BY <1>2, <2>1 DEF StockFits, IssueFits, ShipFits, GrantFits, Ending, Granted
    <2>3. QuoteFits(o)'
      BY <1>2, <2>1 DEF QuoteFits, Stands, Ending, Granted, Ful!IntentFree
    <2>4. IntentFits(o)'
      BY <1>2, <2>1 DEF IntentFits, Stands, Ending, Granted
    <2>5. QED
      BY <2>2, <2>3, <2>4
  <1>5. IntentIds' /\ \A q \in calls' : CallFits(q)'
    <2>1. \A q \in calls' : CallFits(q)
      BY DEF DisInv
    <2>2. QED
      BY <1>2, <2>1 DEF DisInv, IntentIds, CallFits, Ending
  <1>6. \A b \in Batches : BatchFits(b)'
    BY <1>2 DEF DisInv, BatchFits, DistinctChildren, Members
  <1>7. /\ \A e \in orderLog' : OrderEventFits(e)'
        /\ \A e \in shipLog' : ShipEventFits(e)'
    BY <1>2 DEF DisInv, OrderEventFits, ShipEventFits
  <1>8. QED
    BY <1>1, <1>3, <1>4, <1>5, <1>6, <1>7 DEF DisInv

\* A quoted version is the order's version now.
LEMMA QuoteStep ==
    ASSUME DisInv, NEW o \in Orders, Quote(o)
    PROVE  DisInv'
  <1>1. /\ UNCHANGED <<orderVars, shipVars, rsv, calls>>
        /\ quote' = [quote EXCEPT ![o] = order[o].version]
        /\ Ful!IntentFree(o) /\ order[o].status = "READY_TO_SHIP" /\ ~order[o].cancelling
    BY DEF Quote, stockVars
  <1>2. quote \in [Orders -> Nat] /\ calls \subseteq OrderCall \cup BatchCall
    BY DEF DisInv, LinkTypeOK
  <1>3. order[o].version \in Nat
    BY OrderFacts
  <1>4. quote' \in [Orders -> Nat] /\ \A x \in Orders \ {o} : quote'[x] = quote[x]
    BY <1>1, <1>2, <1>3
  <1>5. QuoteFits(o)' /\ ~Ending(o)
    BY <1>1, <1>2 DEF QuoteFits, Stands, Ending, Ful!IntentFree, orderVars, shipVars
  <1>6. QED
    BY <1>1, <1>2, <1>4, <1>5, LinkKeeps

\* The call carries what the intent says.
LEMMA AskStep ==
    ASSUME DisInv, NEW o \in Orders, Ask(o)
    PROVE  DisInv'
  <1> DEFINE q == [kind |-> "order", order |-> o, request |-> intent[o].id,
                   version |-> intent[o].quoted, group |-> ship[o].group,
                   answer |-> "none"]
  <1>1. /\ UNCHANGED <<orderVars, shipVars, rsv, quote>> /\ calls' = calls \cup {q}
        /\ intent[o].status = "PENDING" /\ intent[o].batch = NoBatch
    BY DEF Ask, Ful!AsksOrder, stockVars
  <1>2. quote \in [Orders -> Nat] /\ calls \subseteq OrderCall \cup BatchCall
    BY DEF DisInv, LinkTypeOK
  <1>3. ship[o].status = "READY_TO_SHIP" /\ intent[o].id # NoRequest
    BY <1>1, Columns DEF IntentFits
  <1>4. q \in OrderCall
    BY <1>3, Columns DEF OrderCall, FulP!IntentRow, FulP!ShipRow
  <1>5. CallFits(q)
    BY <1>1, <1>3 DEF CallFits
  <1> HIDE DEF q
  <1>6. QED
    BY <1>1, <1>2, <1>4, <1>5, LinkKeeps

\* Only a waiting batch is asked about.
LEMMA AskBatchStep ==
    ASSUME DisInv, NEW b \in Batches, AskBatch(b)
    PROVE  DisInv'
  <1> DEFINE q == [kind |-> "batch", batch |-> b, answer |-> "none"]
  <1>1. /\ UNCHANGED <<orderVars, shipVars, rsv, quote>> /\ calls' = calls \cup {q}
        /\ dispatch[b].status = "PENDING"
    BY DEF AskBatch, stockVars
  <1>2. quote \in [Orders -> Nat] /\ calls \subseteq OrderCall \cup BatchCall
    BY DEF DisInv, LinkTypeOK
  <1>3. q \in BatchCall
    BY DEF BatchCall
  <1>4. CallFits(q)
    BY <1>1 DEF CallFits
  <1> HIDE DEF q
  <1>5. QED
    BY <1>1, <1>2, <1>3, <1>4, LinkKeeps

\* A lost call leaves nothing behind.
LEMMA LoseStep ==
    ASSUME DisInv, NEW q \in calls, Lose(q)
    PROVE  DisInv'
  <1>1. /\ UNCHANGED <<orderVars, shipVars, rsv, quote>> /\ calls' = calls \ {q}
    BY DEF Lose, stockVars
  <1>2. quote \in [Orders -> Nat] /\ calls \subseteq OrderCall \cup BatchCall
    BY DEF DisInv, LinkTypeOK
  <1>3. QED
    BY <1>1, <1>2, LinkKeeps

-----------------------------------------------------------------------------
(* The steps of the fulfillment-service that touch intents *)

(***************************************************************************)
(* A step of the fulfillment-service that touches the shipments or intents *)
(* of the orders S: what has to hold of them again.                        *)
(***************************************************************************)
LEMMA ShipKeeps ==
    ASSUME DisInv, FulP!FulInv', UNCHANGED <<orderVars, rsv>>,
           NEW S \in SUBSET Orders,
           quote' \in [Orders -> Nat], calls' \subseteq calls,
           \A x \in Orders \ S : /\ ship'[x] = ship[x] /\ intent'[x] = intent[x]
                                 /\ quote'[x] = quote[x],
           \A x \in S : /\ IssueFits(x)' /\ ShipFits(x)' /\ QuoteFits(x)'
                        /\ IntentFits(x)' /\ GrantFits(x)',
           IntentIds',
           \A q \in calls' : q.kind = "order" /\ q.order \in S => CallFits(q)',
           \A b \in Batches :
              \/ dispatch'[b] = dispatch[b]
              \/ BatchFits(b)' /\ \A q \in calls' :
                                     q.kind = "batch" /\ q.batch = b => CallFits(q)',
           \A e \in shipLog' : (e \in shipLog /\ e.order \notin S) \/ ShipEventFits(e)'
    PROVE  DisInv'
  <1>1. OrderInv'
    BY OrderStill
  <1>2. UNCHANGED <<order, tx, orderLog, batch>>
    BY DEF orderVars
  <1>3. LinkTypeOK'
    BY DEF DisInv, LinkTypeOK
  <1>4. ASSUME NEW o \in Orders
        PROVE  /\ StockFits(o)' /\ IssueFits(o)' /\ ShipFits(o)'
               /\ QuoteFits(o)' /\ IntentFits(o)' /\ GrantFits(o)'
    <2>1. /\ StockFits(o) /\ IssueFits(o) /\ ShipFits(o)
          /\ QuoteFits(o) /\ IntentFits(o) /\ GrantFits(o)
      BY Columns
    <2>2. StockFits(o)'
      BY <1>2, <2>1 DEF StockFits, Ending
    <2>3. CASE o \in S
      BY <2>2, <2>3
    <2>4. CASE o \notin S
      <3>1. ship'[o] = ship[o] /\ intent'[o] = intent[o] /\ quote'[o] = quote[o]
        BY <2>4
      <3>2. IssueFits(o)' /\ ShipFits(o)' /\ GrantFits(o)'
        BY <1>2, <2>1, <3>1 DEF IssueFits, ShipFits, GrantFits, Granted
      <3>3. QuoteFits(o)' /\ IntentFits(o)'
        BY <1>2, <2>1, <3>1 DEF QuoteFits, IntentFits, Stands, Ending, Granted,
                                Ful!IntentFree
      <3>4. QED
        BY <2>2, <3>2, <3>3
    <2>5. QED
      BY <2>3, <2>4
  <1>5. ASSUME NEW q \in calls'
        PROVE  CallFits(q)'
    <2>1. CallFits(q) /\ q \in OrderCall \cup BatchCall
      BY DEF DisInv, LinkTypeOK
    <2>2. CASE q \in OrderCall
      <3>1. q.order \in Orders /\ q.kind = "order"
        BY <2>2 DEF OrderCall
      <3>2. CASE q.order \in S
        BY <3>1, <3>2
      <3>3. CASE q.order \notin S
        <4>1. ship'[q.order] = ship[q.order] /\ intent'[q.order] = intent[q.order]
          BY <3>1, <3>3
        <4>2. QED
          BY <1>2, <2>1, <3>1, <4>1 DEF CallFits, Ending
      <3>4. QED
        BY <3>2, <3>3
    <2>3. CASE q \in BatchCall
      <3>1. q.batch \in Batches /\ q.kind = "batch"
        BY <2>3 DEF BatchCall
      <3>2. CASE dispatch'[q.batch] = dispatch[q.batch]
        BY <1>2, <2>1, <3>1, <3>2 DEF CallFits
      <3>3. CASE dispatch'[q.batch] # dispatch[q.batch]
        BY <3>1, <3>3
      <3>4. QED
        BY <3>2, <3>3
    <2>4. QED
      BY <2>1, <2>2, <2>3
  <1>6. ASSUME NEW b \in Batches
        PROVE  BatchFits(b)'
    <2>1. BatchFits(b)
      BY DEF DisInv
    <2>2. CASE dispatch'[b] = dispatch[b]
      BY <1>2, <2>1, <2>2 DEF BatchFits, DistinctChildren, Members
    <2>3. QED
      BY <2>2
  <1>7. \A e \in orderLog' : OrderEventFits(e)'
    BY <1>2 DEF DisInv, OrderEventFits
  <1>8. ASSUME NEW e \in shipLog'
        PROVE  ShipEventFits(e)'
    <2>1. CASE e \in shipLog /\ e.order \notin S
      <3>1. ShipEventFits(e) /\ e.order \in Orders
        BY <2>1 DEF DisInv, FulP!FulInv, FulP!FulfillmentTypeOK, FulP!ShipEvent
      <3>2. ship'[e.order] = ship[e.order] /\ intent'[e.order] = intent[e.order]
        BY <2>1, <3>1
      <3>3. QED
        BY <3>1, <3>2 DEF ShipEventFits
    <2>2. QED
      BY <2>1
  <1>9. QED
    BY <1>1, <1>3, <1>4, <1>5, <1>6, <1>7, <1>8 DEF DisInv

\* A shipment that has not left: no stock issued, no event of its dispatch.
LEMMA NotGone ==
    ASSUME DisInv, NEW o \in Orders, ship[o].status \notin Ful!Gone
    PROVE  /\ \A v \in Inv!Versions : rsv[<<o, v>>].status # "ISSUED"
           /\ \A e \in shipLog : e.order = o => e.type # "ShipmentDispatched"
           /\ intent[o].status # "COMPLETED"
  <1>1. \A v \in Inv!Versions : rsv[<<o, v>>].status # "ISSUED"
    BY Columns DEF IssueFits
  <1>2. \A e \in shipLog : e.order = o => e.type # "ShipmentDispatched"
    BY DispatchedEvent
  <1>3. QED
    BY <1>1, <1>2, Columns

\* What the handler of an order event may rely on.
LEMMA OrderEvent ==
    ASSUME DisInv, NEW e \in orderLog
    PROVE  /\ e.order \in Orders /\ e.version \in Nat /\ e.group \in Nat
           /\ OrderEventFits(e)
  BY DEF DisInv, OrderInv, OrderTypeOK, Event

\* The shipment of a confirmed order, with the order's group.
LEMMA ShipmentCreatedStep ==
    ASSUME DisInv, NEW e \in orderLog, e.type = "OrderConfirmed",
           Ful!OrderConfirmed(e.order, e.version, e.group),
           UNCHANGED <<orderVars, rsv, quote, calls>>
    PROVE  DisInv'
  <1> DEFINE o == e.order
  <1>1. /\ o \in Orders /\ e.version \in Nat /\ e.group \in Nat
        /\ order[o].status \notin Early /\ e.group = order[o].group
    BY OrderEvent DEF OrderEventFits
  <1>2. FulP!FulInv'
    <2>1. FulP!OrderConfirmed(e.order, e.version, e.group)
      BY SameOrderEvents
    <2>2. QED
      BY <1>1, <2>1, FulFacts, FulP!OrderConfirmedStep DEF DisInv
  <1>3. quote' \in [Orders -> Nat] /\ calls' \subseteq calls
    BY DEF DisInv, LinkTypeOK
  <1>4. UNCHANGED <<intent, dispatch>>
    BY DEF Ful!OrderConfirmed
  <1>5. CASE ship[o].status # "NONE"
    <2>1. FulP!Moved
      BY <1>4, <1>5 DEF Ful!OrderConfirmed, FulP!Moved
    <2>2. QED
      BY <1>2, <2>1, MoveKeeps
  <1>6. CASE ship[o].status = "NONE"
    <2> DEFINE new == [type |-> "ShipmentCreated", order |-> o, version |-> 1,
                       group |-> e.group, request |-> NoRequest]
    <2>1. /\ \A x \in Orders \ {o} : ship'[x] = ship[x]
          /\ ship'[o].status = "PENDING_PICK" /\ ship'[o].group = e.group
      <3>1. ship \in [Orders -> FulP!ShipRow] /\ ship[o] \in FulP!ShipRow
        BY <1>1, Columns
      <3>2. ship' = [ship EXCEPT ![o].status = "PENDING_PICK", ![o].group = e.group,
                                 ![o].version = 1]
        BY <1>6 DEF Ful!OrderConfirmed
      <3>3. QED
        BY <1>1, <3>1, <3>2 DEF FulP!ShipRow
    <2>2. shipLog' = shipLog \cup {new}
      BY <1>6 DEF Ful!OrderConfirmed
    <2>3. ship[o].status \notin Ful!Gone /\ ship'[o].status \notin Ful!Gone
      BY <1>6, <2>1, GoneSet
    <2>4. \A v \in Inv!Versions : rsv[<<o, v>>].status # "ISSUED"
      BY <1>1, <2>3, NotGone
    <2>5. IntentFits(o) /\ QuoteFits(o) /\ GrantFits(o)
      BY <1>1, Columns
    <2>6. UNCHANGED <<order, batch>>
      BY DEF orderVars
    <2>7. IssueFits(o)' /\ ShipFits(o)'
      BY <1>1, <2>1, <2>4, <2>6 DEF IssueFits, ShipFits
    <2>8. QuoteFits(o)' /\ GrantFits(o)'
      BY <1>4, <2>5, <2>6 DEF QuoteFits, GrantFits, Stands, Ending, Granted, Ful!IntentFree
    <2>9. IntentFits(o)'
      BY <1>4, <1>6, <2>3, <2>5, <2>6 DEF IntentFits, Ending
    <2>10. IntentIds'
      BY <1>4 DEF DisInv, IntentIds
    <2>11. \A q \in calls : q.kind = "order" => q.order # o
      BY <1>6 DEF DisInv, CallFits
    <2>12. ASSUME NEW f \in shipLog'
           PROVE  (f \in shipLog /\ f.order # o) \/ ShipEventFits(f)'
      <3>1. CASE f = new
        BY <3>1 DEF ShipEventFits, TargetOf
      <3>2. CASE f \in shipLog /\ f.order = o
        <4>1. ShipEventFits(f)
          BY <3>2 DEF DisInv
        <4>2. TargetOf(f.type) = "NONE"
          BY <1>6, <3>2, <4>1 DEF ShipEventFits
        <4>3. QED
          BY <4>2 DEF ShipEventFits
      <3>3. QED
        BY <2>2, <3>1, <3>2
    <2> DEFINE S == {o}
    <2>13. S \in SUBSET Orders /\ \A x : x \in S <=> x = o
      BY <1>1
    <2> HIDE DEF S, o, new
    <2>14. QED
      BY <1>2, <1>3, <1>4, <2>1, <2>7, <2>8, <2>9, <2>10, <2>11, <2>12, <2>13, ShipKeeps
  <1>7. QED
    BY <1>5, <1>6

\* A canceled order is not granted, so its shipment is still there.
LEMMA ShipmentCanceledStep ==
    ASSUME DisInv, NEW e \in orderLog, e.type = "OrderCanceled",
           Ful!OrderCanceled(e.order, e.version),
           UNCHANGED <<orderVars, rsv, quote, calls>>
    PROVE  DisInv'
  <1> DEFINE o == e.order
             new == Ful!Event("ShipmentCanceled", o, NoRequest)
  <1>1. o \in Orders /\ e.version \in Nat /\ order[o].status = "CANCELED"
    BY OrderEvent DEF OrderEventFits
  <1>2. Ending(o) /\ ~Granted(o)
    BY <1>1, OrderFacts DEF Ending
  <1>3. FulP!FulInv'
    <2>1. FulP!OrderCanceled(e.order, e.version)
      BY SameOrderEvents
    <2>2. QED
      BY <1>1, <2>1, FulFacts, FulP!OrderCanceledStep DEF DisInv
  <1>4. quote' \in [Orders -> Nat] /\ calls' \subseteq calls
    BY DEF DisInv, LinkTypeOK
  <1>5. dispatch' = dispatch
    BY DEF Ful!OrderCanceled
  <1>6. ship[o].status \notin Ful!Gone
    <2> SUFFICES ASSUME ship[o].status \in Ful!Gone
                 PROVE  FALSE
      OBVIOUS
    <2>1. intent[o].status = "COMPLETED" /\ IntentFits(o)
      BY <1>1, Columns
    <2>2. order[o].grant # NoRequest
      BY <2>1 DEF IntentFits
    <2>3. QED
      BY <1>2, <2>2 DEF Granted
  <1>7. CASE ship[o].status \in {"NONE", "CANCELED"}
    <2>1. FulP!Moved
      <3>1. UNCHANGED <<ship, intent, shipLog>>
        BY <1>6, <1>7 DEF Ful!OrderCanceled
      <3>2. QED
        BY <1>5, <3>1 DEF FulP!Moved
    <2>2. QED
      BY <1>3, <2>1, MoveKeeps
  <1>8. CASE ship[o].status \notin {"NONE", "CANCELED"}
    <2> DEFINE row == [ship[o] EXCEPT !.status = "CANCELED"]
               st == IF intent[o].status = "PENDING" THEN "REJECTED" ELSE intent[o].status
    <2>1. /\ ship' = [ship EXCEPT ![o] = Ful!Bumped(row)]
          /\ intent' = [intent EXCEPT ![o].status = st]
          /\ shipLog' = shipLog \cup {new}
      BY <1>6, <1>8 DEF Ful!OrderCanceled, Ful!Write, Ful!Record
    <2>2. /\ ship \in [Orders -> FulP!ShipRow] /\ ship[o] \in FulP!ShipRow
          /\ intent \in [Orders -> FulP!IntentRow] /\ intent[o] \in FulP!IntentRow
      BY <1>1, Columns
    <2>3. /\ \A x \in Orders \ {o} : ship'[x] = ship[x]
          /\ ship'[o].status = "CANCELED" /\ ship'[o].group = ship[o].group
      BY <1>1, <2>1, <2>2 DEF FulP!ShipRow, Ful!Bumped
    <2>4. /\ \A x \in Orders \ {o} : intent'[x] = intent[x]
          /\ intent'[o].status = st /\ intent'[o].id = intent[o].id
          /\ intent'[o].batch = intent[o].batch /\ intent'[o].quoted = intent[o].quoted
      BY <1>1, <2>1, <2>2 DEF FulP!IntentRow
    <2>5. /\ \A v \in Inv!Versions : rsv[<<o, v>>].status # "ISSUED"
          /\ \A f \in shipLog : f.order = o => f.type # "ShipmentDispatched"
          /\ intent[o].status # "COMPLETED"
      BY <1>1, <1>6, NotGone
    <2>6. IntentFits(o) /\ QuoteFits(o) /\ ShipFits(o)
      BY <1>1, Columns
    <2>7. UNCHANGED <<order, batch, rsv, quote>>
      BY DEF orderVars
    <2>8. IssueFits(o)' /\ ShipFits(o)' /\ GrantFits(o)'
      BY <1>2, <1>8, <2>3, <2>5, <2>6, <2>7 DEF IssueFits, ShipFits, GrantFits, Granted
    <2>9. QuoteFits(o)'
      BY <1>2, <2>4, <2>6, <2>7 DEF QuoteFits, Stands, Ending, Ful!IntentFree
    <2>10. IntentFits(o)'
      <3>1. intent[o].status = "PENDING" => quote[o] = 0
        BY <2>6 DEF QuoteFits, Ful!IntentFree
      <3>2. ship'[o].status \notin Ful!Gone
        BY <2>3, GoneSet
      <3>3. Ending(o)'
        BY <1>2, <2>7 DEF Ending
      <3>4. st # "PENDING"
        OBVIOUS
      <3>5. intent[o].status = "REJECTED" /\ intent[o].batch = NoBatch => quote[o] = 0
        BY <2>6 DEF IntentFits
      <3>6. st # "NONE" => intent[o].id # NoRequest
        BY <2>6 DEF IntentFits
      <3>7. QED
        BY <2>4, <2>7, <3>1, <3>2, <3>3, <3>4, <3>5, <3>6 DEF IntentFits
    <2>11. IntentIds'
      BY <2>4 DEF DisInv, IntentIds
    <2>12. ASSUME NEW q \in calls, q.kind = "order", q.order = o
           PROVE  CallFits(q)'
      <3>1. CallFits(q)
        BY DEF DisInv
      <3>2. QED
        BY <1>2, <2>3, <2>4, <2>7, <2>12, <3>1 DEF CallFits, Ending
    <2>13. ASSUME NEW f \in shipLog'
           PROVE  (f \in shipLog /\ f.order # o) \/ ShipEventFits(f)'
      <3>1. CASE f = new
        BY <3>1 DEF ShipEventFits, TargetOf, Ful!Event
      <3>2. CASE f \in shipLog /\ f.order = o
        <4>1. ShipEventFits(f)
          BY <3>2 DEF DisInv
        <4>2. QED
          BY <2>3, <2>5, <3>2, <4>1 DEF ShipEventFits
      <3>3. QED
        BY <2>1, <3>1, <3>2
    <2> DEFINE S == {o}
    <2>14. S \in SUBSET Orders /\ \A x : x \in S <=> x = o
      BY <1>1
    <2> HIDE DEF S, o, new, row, st
    <2>15. QED
      BY <1>3, <1>4, <1>5, <2>3, <2>4, <2>7, <2>8, <2>9, <2>10, <2>11, <2>12, <2>13, <2>14,
         ShipKeeps
  <1>9. QED
    BY <1>7, <1>8

\* An order event reaches the fulfillment-service, stale ones included.
LEMMA ToShipmentStep ==
    ASSUME DisInv, NEW e \in orderLog, ToShipment(e)
    PROVE  DisInv'
  <1>1. UNCHANGED <<orderVars, rsv, quote, calls>>
    BY DEF ToShipment, stockVars
  <1>2. CASE UNCHANGED shipVars
    <2>1. quote' \in [Orders -> Nat] /\ calls' \subseteq OrderCall \cup BatchCall
      BY <1>1 DEF DisInv, LinkTypeOK
    <2>2. QED
      BY <1>1, <1>2, <2>1, LinkKeeps
  <1>3. QED
    BY <1>1, <1>2, ShipmentCreatedStep, ShipmentCanceledStep DEF ToShipment

\* A step that only writes intents, of shipments that have not left.
LEMMA IntentKeeps ==
    ASSUME DisInv, FulP!FulInv', UNCHANGED <<orderVars, rsv, ship, shipLog>>,
           NEW S \in SUBSET Orders,
           quote' \in [Orders -> Nat], calls' \subseteq calls,
           \A x \in Orders \ S : intent'[x] = intent[x] /\ quote'[x] = quote[x],
           \A x \in S : /\ ship[x].status \notin Ful!Gone
                        /\ QuoteFits(x)' /\ IntentFits(x)' /\ GrantFits(x)',
           IntentIds',
           \A q \in calls' : q.kind = "order" /\ q.order \in S => CallFits(q)',
           \A b \in Batches :
              \/ dispatch'[b] = dispatch[b]
              \/ BatchFits(b)' /\ \A q \in calls' :
                                     q.kind = "batch" /\ q.batch = b => CallFits(q)'
    PROVE  DisInv'
  <1>1. UNCHANGED order
    BY DEF orderVars
  <1>2. ASSUME NEW x \in S
        PROVE  IssueFits(x)' /\ ShipFits(x)'
    <2>1. x \in Orders /\ ShipFits(x)
      BY Columns
    <2>2. \A v \in Inv!Versions : rsv[<<x, v>>].status # "ISSUED"
      BY <2>1, NotGone
    <2>3. QED
      BY <1>1, <2>1, <2>2 DEF IssueFits, ShipFits
  <1>3. ASSUME NEW e \in shipLog'
        PROVE  (e \in shipLog /\ e.order \notin S) \/ ShipEventFits(e)'
    <2>1. e \in shipLog /\ ShipEventFits(e)
      BY DEF DisInv
    <2>2. CASE e.order \in S
      <3>1. e.type # "ShipmentDispatched"
        BY <2>1, <2>2, NotGone
      <3>2. QED
        BY <2>1, <3>1 DEF ShipEventFits
    <2>3. QED
      BY <2>1, <2>2
  <1>4. \A x \in Orders \ S : /\ ship'[x] = ship[x] /\ intent'[x] = intent[x]
                              /\ quote'[x] = quote[x]
    OBVIOUS
  <1>5. \A x \in S : /\ IssueFits(x)' /\ ShipFits(x)' /\ QuoteFits(x)'
                     /\ IntentFits(x)' /\ GrantFits(x)'
    BY <1>2
  <1>6. \A e \in shipLog' : (e \in shipLog /\ e.order \notin S) \/ ShipEventFits(e)'
    BY <1>3
  <1>7. UNCHANGED <<orderVars, rsv>>
    OBVIOUS
  <1>8. QED
    BY <1>4, <1>5, <1>6, <1>7, ShipKeeps

\* Who holds a quote finds the order as it was shown, and no call about it.
LEMMA Quoted ==
    ASSUME DisInv, NEW o \in Orders, quote[o] # 0
    PROVE  /\ Ful!IntentFree(o) /\ Stands(o, quote[o]) /\ ~Granted(o)
           /\ \A q \in calls : q.kind = "order" => q.order # o
           /\ ship[o].status \notin Ful!Gone
  <1>1. QuoteFits(o) /\ IntentFits(o) /\ GrantFits(o)
    BY Columns
  <1>2. Ful!IntentFree(o) /\ Stands(o, quote[o])
    BY <1>1 DEF QuoteFits
  <1>3. ~Granted(o)
    BY <1>1, <1>2 DEF GrantFits, Ful!IntentFree
  <1>4. ASSUME NEW q \in calls, q.kind = "order", q.order = o
        PROVE  FALSE
    <2>1. CallFits(q)
      BY DEF DisInv
    <2>2. intent[o].status = "REJECTED" /\ intent[o].batch = NoBatch
      BY <1>2, <1>4, <2>1 DEF CallFits, Ful!IntentFree
    <2>3. QED
      BY <1>1, <2>2 DEF IntentFits
  <1>5. ship[o].status \notin Ful!Gone
    BY <1>2, Columns DEF Ful!IntentFree
  <1>6. QED
    BY <1>2, <1>3, <1>4, <1>5

\* The new intent takes the quote of an order nobody has asked about.
LEMMA DispatchingStep ==
    ASSUME DisInv, NEW o \in Orders, NEW r \in Requests, Dispatching(o, r)
    PROVE  DisInv'
  <1> DEFINE new == [id |-> r, status |-> "PENDING", quoted |-> quote[o],
                     batch |-> NoBatch, receipt |-> FALSE]
  <1>1. /\ quote[o] # 0 /\ Ful!StartDispatch(o, r, quote[o])
        /\ quote' = [quote EXCEPT ![o] = 0]
        /\ UNCHANGED <<orderVars, rsv, calls>>
    BY DEF Dispatching, stockVars
  <1>2. quote \in [Orders -> Nat] /\ quote[o] \in Nat
    BY DEF DisInv, LinkTypeOK
  <1>3. FulP!FulInv'
    <2>1. FulP!StartDispatch(o, r, quote[o])
      BY <1>1, SameDispatch
    <2>2. QED
      BY <1>2, <2>1, FulFacts, FulP!StartDispatchStep DEF DisInv
  <1>4. /\ intent' = [intent EXCEPT ![o] = new]
        /\ UNCHANGED <<ship, dispatch, shipLog>>
        /\ \A x \in Orders : intent[x].id # r
        /\ ship[o].status = "READY_TO_SHIP"
    BY <1>1 DEF Ful!StartDispatch, Ful!RequestUnused, Ful!canMove, Ful!TRANSITIONS
  <1>5. intent \in [Orders -> FulP!IntentRow]
    BY Columns
  <1>6. /\ \A x \in Orders \ {o} : intent'[x] = intent[x] /\ quote'[x] = quote[x]
        /\ intent'[o].id = r /\ intent'[o].status = "PENDING"
        /\ intent'[o].quoted = quote[o] /\ intent'[o].batch = NoBatch
        /\ quote' \in [Orders -> Nat] /\ quote'[o] = 0
    BY <1>1, <1>2, <1>4, <1>5
  <1> HIDE DEF new
  <1>7. /\ Stands(o, quote[o]) /\ ~Granted(o) /\ ship[o].status \notin Ful!Gone
        /\ \A q \in calls : q.kind = "order" => q.order # o
    BY <1>1, Quoted
  <1>8. UNCHANGED <<order, batch>>
    BY <1>1 DEF orderVars
  <1>9. QuoteFits(o)' /\ GrantFits(o)'
    BY <1>6, <1>7, <1>8 DEF QuoteFits, GrantFits, Granted
  <1>10. IntentFits(o)'
    <2>1. r # NoRequest
      BY FulFacts
    <2>2. Stands(o, intent[o].quoted)'
      BY <1>6, <1>7, <1>8 DEF Stands, Ending, Granted
    <2>3. QED
      BY <1>4, <1>6, <1>7, <2>1, <2>2 DEF IntentFits
  <1>11. IntentIds'
    BY <1>4, <1>6 DEF DisInv, IntentIds
  <1> DEFINE S == {o}
  <1>12. S \in SUBSET Orders /\ \A x : x \in S <=> x = o
    OBVIOUS
  <1> HIDE DEF S
  <1>13. QED
    BY <1>1, <1>3, <1>4, <1>6, <1>7, <1>9, <1>10, <1>11, <1>12, IntentKeeps

\* The shipments of a batch are quoted, free and asked for under new requests.
LEMMA DispatchingBatchStep ==
    ASSUME DisInv, NEW b \in Batches, NEW t \in Trips, NEW child \in Children,
           DispatchingBatch(b, t, child)
    PROVE  DisInv'
  <1> DEFINE ok == \A o \in Ful!Members(child) : Ful!InBatchOf(o, t) /\ o \notin {}
             new == [status |-> IF ok THEN "PENDING" ELSE "REJECTED",
                     decision |-> "NONE", trip |-> t, child |-> child]
             fresh(o) == [id |-> child[o], status |-> "PENDING", quoted |-> quote[o],
                          batch |-> b, receipt |-> FALSE]
             S == Members(child)
  <1>1. /\ DistinctChildren(child) /\ \A o \in S : quote[o] # 0
        /\ Ful!StartBatch(b, t, child, quote, {})
        /\ quote' = [o \in Orders |-> IF o \in S THEN 0 ELSE quote[o]]
        /\ UNCHANGED <<orderVars, rsv, calls>>
    BY DEF DispatchingBatch, stockVars
  <1>2. quote \in [Orders -> Nat]
    BY DEF DisInv, LinkTypeOK
  <1>3. FulP!FulInv'
    <2>1. FulP!StartBatch(b, t, child, quote, {}) /\ child \in FulP!Children
      BY <1>1, SameBatch DEF Children, FulP!Children
    <2>2. QED
      BY <1>2, <2>1, FulFacts, FulP!StartBatchStep DEF DisInv
  <1>4. /\ S \in SUBSET Orders /\ S = Ful!Members(child)
        /\ \A o \in S : child[o] \in Requests /\ child[o] # NoRequest
    BY DEF Members, Ful!Members, Children
  <1>5. /\ dispatch[b].status = "NONE"
        /\ ok => \A o \in S : \A x \in Orders : intent[x].id # child[o]
        /\ ok => \A o \in S : ship[o].status = "READY_TO_SHIP"
        /\ dispatch' = [dispatch EXCEPT ![b] = new]
        /\ intent' = [o \in Orders |-> IF ok /\ o \in S THEN fresh(o) ELSE intent[o]]
        /\ UNCHANGED <<ship, shipLog>>
    BY <1>1, <1>4 DEF Ful!StartBatch, Ful!RequestUnused, Ful!InBatchOf
  <1>6. /\ \A x \in Orders \ S : intent'[x] = intent[x] /\ quote'[x] = quote[x]
        /\ \A x \in S : quote'[x] = 0
        /\ ~ok => \A x \in S : intent'[x] = intent[x]
        /\ ok => \A x \in S : /\ intent'[x].id = child[x] /\ intent'[x].status = "PENDING"
                              /\ intent'[x].quoted = quote[x] /\ intent'[x].batch = b
        /\ quote' \in [Orders -> Nat]
    BY <1>1, <1>2, <1>4, <1>5
  <1>7. /\ \A x \in Batches \ {b} : dispatch'[x] = dispatch[x]
        /\ dispatch'[b].child = child /\ dispatch'[b].decision = "NONE"
        /\ dispatch'[b].status # "NONE"
    <2>1. dispatch \in [Batches -> FulP!BatchDispatch]
      BY DEF DisInv, FulP!FulInv, FulP!FulfillmentTypeOK
    <2>2. QED
      BY <1>5, <2>1
  <1>8. batch[b].decision = "NONE"
    BY <1>5 DEF DisInv, BatchFits
  <1>9. UNCHANGED <<order, batch>>
    BY <1>1 DEF orderVars
  <1>10. BatchFits(b)'
    BY <1>1, <1>7, <1>8, <1>9 DEF BatchFits, DistinctChildren, Members
  <1>11. ASSUME NEW q \in calls, q.kind = "batch", q.batch = b
         PROVE  FALSE
    <2>1. CallFits(q)
      BY DEF DisInv
    <2>2. QED
      BY <1>5, <1>8, <1>11, <2>1 DEF CallFits
  <1> HIDE DEF ok, new, fresh, S
  <1>12. ASSUME NEW x \in S
         PROVE  /\ x \in Orders /\ Stands(x, quote[x]) /\ ~Granted(x)
                /\ ship[x].status \notin Ful!Gone
                /\ \A q \in calls : q.kind = "order" => q.order # x
    <2>1. x \in Orders /\ quote[x] # 0
      BY <1>1, <1>4
    <2>2. QED
      BY <2>1, Quoted
  <1>13. ASSUME NEW x \in S
         PROVE  QuoteFits(x)' /\ IntentFits(x)' /\ GrantFits(x)'
    <2>1. x \in Orders /\ IntentFits(x)
      BY <1>12, Columns
    <2>2. QuoteFits(x)' /\ GrantFits(x)'
      BY <1>6, <1>9, <1>12 DEF QuoteFits, GrantFits, Granted
    <2>3. CASE ok
      <3>1. Stands(x, intent[x].quoted)'
        BY <1>6, <1>9, <1>12, <2>3 DEF Stands, Ending, Granted
      <3>2. /\ intent'[x].id # NoRequest /\ intent'[x].status = "PENDING"
            /\ ship'[x].status = "READY_TO_SHIP" /\ ship'[x].status \notin Ful!Gone
        <4>1. child[x] # NoRequest /\ ship[x].status \notin Ful!Gone
          BY <1>4, <1>12
        <4>2. ship[x].status = "READY_TO_SHIP" /\ ship' = ship
          BY <1>5, <2>3
        <4>3. intent'[x].id = child[x] /\ intent'[x].status = "PENDING"
          BY <1>6, <2>3
        <4>4. QED
          BY <4>1, <4>2, <4>3
      <3>3. IntentFits(x)'
        BY <3>1, <3>2 DEF IntentFits
      <3>4. QED
        BY <2>2, <3>3
    <2>4. CASE ~ok
      <3>1. intent'[x] = intent[x] /\ quote'[x] = 0
        BY <1>6, <2>4
      <3>2. IntentFits(x)'
        BY <1>5, <1>9, <2>1, <3>1 DEF IntentFits, Stands, Ending, Granted
      <3>3. QED
        BY <2>2, <3>2
    <2>5. QED
      BY <2>3, <2>4
  <1>14. IntentIds'
    <2>1. CASE ok
      <3>1. \A x, y \in S : child[x] = child[y] => x = y
        BY <1>1 DEF DistinctChildren, S
      <3>2. \A x \in S, y \in Orders : intent[y].id # child[x]
        BY <1>5, <2>1
      <3> SUFFICES ASSUME NEW x \in Orders, NEW y \in Orders,
                          intent'[x].id = intent'[y].id, intent'[x].id # NoRequest
                   PROVE  x = y
        BY DEF IntentIds
      <3>3. CASE x \in S /\ y \in S
        BY <1>6, <2>1, <3>1, <3>3
      <3>4. CASE x \in S /\ y \notin S
        BY <1>6, <2>1, <3>2, <3>4
      <3>5. CASE x \notin S /\ y \in S
        BY <1>6, <2>1, <3>2, <3>5
      <3>6. CASE x \notin S /\ y \notin S
        BY <1>6, <3>6 DEF DisInv, IntentIds
      <3>7. QED
        BY <3>3, <3>4, <3>5, <3>6
    <2>2. CASE ~ok
      <3>1. \A x \in Orders : intent'[x] = intent[x]
        BY <1>6, <2>2
      <3>2. QED
        BY <3>1 DEF DisInv, IntentIds
    <2>3. QED
      BY <2>1, <2>2
  <1>15. /\ \A x \in S : /\ ship[x].status \notin Ful!Gone
                         /\ QuoteFits(x)' /\ IntentFits(x)' /\ GrantFits(x)'
         /\ \A q \in calls' : q.kind = "order" /\ q.order \in S => CallFits(q)'
    BY <1>1, <1>12, <1>13
  <1>16. \A x \in Batches :
            \/ dispatch'[x] = dispatch[x]
            \/ BatchFits(x)' /\ \A q \in calls' :
                                   q.kind = "batch" /\ q.batch = x => CallFits(q)'
    BY <1>1, <1>7, <1>10, <1>11
  <1>17. UNCHANGED <<orderVars, rsv, ship, shipLog>> /\ calls' \subseteq calls
    BY <1>1, <1>5
  <1>18. QED
    BY <1>3, <1>4, <1>6, <1>14, <1>15, <1>16, <1>17, IntentKeeps

-----------------------------------------------------------------------------
(* The answers of the order-service *)

(***************************************************************************)
(* A decision of the order-service: it grants the orders S, each for the   *)
(* intent its shipment has and waits with, and may decide batches.         *)
(***************************************************************************)
LEMMA GrantKeeps ==
    ASSUME DisInv, OrderInv', UNCHANGED <<shipVars, rsv, quote, tx, orderLog>>,
           NEW S \in SUBSET Orders,
           \A x \in Orders \ S : order'[x] = order[x],
           \A x \in S :
              /\ order'[x].status = order[x].status
              /\ order'[x].cancelling = order[x].cancelling
              /\ order'[x].group = order[x].group
              /\ order'[x].grant = intent[x].id
              /\ intent[x].status = "PENDING" /\ ~Granted(x)
              /\ intent[x].batch # NoBatch => batch'[intent[x].batch].decision = "GRANTED",
           \A b \in Batches : \/ batch'[b] = batch[b]
                              \/ batch[b].decision = "NONE" /\ BatchFits(b)',
           calls' \subseteq OrderCall \cup BatchCall,
           \A q \in calls' : q \in calls \/ CallFits(q)'
    PROVE  DisInv'
  <1>1. FulP!FulInv'
    BY ShipStill
  <1>2. UNCHANGED <<ship, intent, dispatch, shipLog>>
    BY DEF shipVars
  <1>3. LinkTypeOK'
    BY DEF DisInv, LinkTypeOK
  <1>4. ASSUME NEW x \in Orders
        PROVE  /\ order'[x].status = order[x].status
               /\ order'[x].cancelling = order[x].cancelling
               /\ order'[x].group = order[x].group
               /\ x \in S \/ order'[x] = order[x]
    BY DEF DisInv
  <1>5. ASSUME NEW x \in Orders
        PROVE  /\ StockFits(x)' /\ IssueFits(x)' /\ ShipFits(x)'
               /\ QuoteFits(x)' /\ IntentFits(x)' /\ GrantFits(x)'
    <2>1. /\ StockFits(x) /\ IssueFits(x) /\ ShipFits(x)
          /\ QuoteFits(x) /\ IntentFits(x) /\ GrantFits(x)
          /\ intent[x].batch \in Batches \cup {NoBatch}
          /\ ship[x].status \in Ful!Gone <=> intent[x].status = "COMPLETED"
      BY Columns DEF FulP!IntentRow
    <2>2. Ending(x)' <=> Ending(x)
      BY <1>4 DEF Ending
    <2>3. IssueFits(x)' /\ ShipFits(x)'
      BY <1>2, <1>4, <2>1 DEF IssueFits, ShipFits
    <2>4. StockFits(x)'
      <3>1. \A v \in Inv!Versions : rsv'[<<x, v>>] = rsv[<<x, v>>]
        OBVIOUS
      <3>2. tx[x].kind = "confirm" => order'[x].version \in Inv!Versions
        <4>1. CASE x \in S
          <5>1. tx'[x].kind # "confirm"
            <6>1. order[x].status \notin EDITABLE
              <7>1. ship[x].status = "READY_TO_SHIP"
                BY <2>1, <4>1 DEF IntentFits
              <7>2. order[x].status \notin Early
                BY <2>1, <7>1 DEF ShipFits
              <7>3. QED
                BY <7>2 DEF Early, EDITABLE
            <6>2. Unlocked(x)
              BY <6>1, OrderFacts
            <6>3. QED
              BY <6>2 DEF Unlocked
          <5>2. QED
            BY <5>1
        <4>2. CASE x \notin S
          BY <2>1, <4>2 DEF StockFits
        <4>3. QED
          BY <4>1, <4>2
      <3>3. QED
        BY <1>4, <2>1, <2>2, <3>1, <3>2 DEF StockFits
    <2>5. CASE x \in S
      <3>1. /\ order'[x].grant = intent[x].id /\ intent[x].status = "PENDING"
            /\ intent[x].batch # NoBatch => batch'[intent[x].batch].decision = "GRANTED"
        BY <2>5
      <3>2. Granted(x)'
        BY <2>1, <3>1 DEF IntentFits, Granted
      <3>3. QuoteFits(x)' /\ GrantFits(x)'
        BY <1>2, <2>1, <3>1 DEF QuoteFits, GrantFits, Ful!IntentFree
      <3>4. IntentFits(x)'
        BY <1>2, <2>1, <3>1, <3>2 DEF IntentFits, Stands
      <3>5. QED
        BY <2>3, <2>4, <3>3, <3>4
    <2>6. CASE x \notin S
      <3>1. order'[x] = order[x]
        BY <2>6
      <3>2. QuoteFits(x)' /\ IntentFits(x)'
        BY <1>2, <2>1, <3>1 DEF QuoteFits, IntentFits, Stands, Ending, Granted,
                                Ful!IntentFree
      <3>3. GrantFits(x)'
        BY <1>2, <2>1, <3>1 DEF GrantFits, Granted
      <3>4. QED
        BY <2>3, <2>4, <3>2, <3>3
    <2>7. QED
      BY <2>5, <2>6
  <1>6. IntentIds'
    BY <1>2 DEF DisInv, IntentIds
  <1>7. ASSUME NEW q \in calls
        PROVE  CallFits(q)'
    <2>1. CallFits(q) /\ q \in OrderCall \cup BatchCall
      BY DEF DisInv, LinkTypeOK
    <2>2. CASE q \in OrderCall
      <3>1. q.order \in Orders /\ q.kind = "order" /\ q.request # NoRequest
        BY <2>2, FulFacts DEF OrderCall
      <3>2. Ending(q.order) => Ending(q.order)'
        BY <1>4, <3>1 DEF Ending
      <3>3. order[q.order].grant = q.request => order'[q.order].grant = q.request
        BY <1>4, <3>1 DEF Granted
      <3>4. QED
        BY <1>2, <2>1, <3>1, <3>2, <3>3 DEF CallFits
    <2>3. CASE q \in BatchCall
      <3>1. q.batch \in Batches /\ q.kind = "batch"
            /\ q.answer \in {"none", "GRANTED", "REJECTED"}
        BY <2>3 DEF BatchCall
      <3>2. QED
        BY <1>2, <2>1, <3>1 DEF CallFits
    <2>4. QED
      BY <2>1, <2>2, <2>3
  <1>8. ASSUME NEW b \in Batches
        PROVE  BatchFits(b)'
    <2>1. BatchFits(b)
      BY DEF DisInv
    <2>2. CASE batch'[b] = batch[b]
      BY <1>2, <2>1, <2>2 DEF BatchFits, DistinctChildren, Members
    <2>3. QED
      BY <2>2
  <1>9. ASSUME NEW e \in orderLog'
        PROVE  OrderEventFits(e)'
    <2>1. OrderEventFits(e) /\ e.order \in Orders
      BY DEF DisInv, OrderInv, OrderTypeOK, Event
    <2>2. QED
      BY <1>4, <2>1 DEF OrderEventFits
  <1>10. \A e \in shipLog' : ShipEventFits(e)'
    BY <1>2 DEF DisInv, ShipEventFits
  <1>11. QED
    BY <1>1, <1>3, <1>5, <1>6, <1>7, <1>8, <1>9, <1>10 DEF DisInv

\* What the sender of an order's call knows when it is answered.
LEMMA OrderCallFacts ==
    ASSUME DisInv, NEW q \in calls, q.kind = "order"
    PROVE  /\ q \in OrderCall /\ q.order \in Orders /\ q.request \in Requests
           /\ q.request # NoRequest /\ q.version \in Nat /\ CallFits(q)
           /\ intent[q.order].status \in {"PENDING", "COMPLETED", "REJECTED"}
           /\ intent[q.order].status = "COMPLETED" => order[q.order].grant = q.request
           /\ intent[q.order].status = "REJECTED" => Ending(q.order)
  <1>1. q \in OrderCall /\ CallFits(q)
    BY DEF DisInv, LinkTypeOK, OrderCall, BatchCall
  <1>2. /\ q.order \in Orders /\ q.request \in Requests /\ q.version \in Nat
        /\ q.request # NoRequest
    BY <1>1, FulFacts DEF OrderCall
  <1>3. /\ IntentFits(q.order)
        /\ intent[q.order].status \in {"NONE", "PENDING", "COMPLETED", "REJECTED"}
        /\ ship[q.order].status \in Ful!Gone <=> intent[q.order].status = "COMPLETED"
    BY <1>2, Columns DEF FulP!IntentRow
  <1>4. QED
    BY <1>1, <1>2, <1>3 DEF CallFits, IntentFits

\* A refusal is final: it says that the order ends.
LEMMA ConflictEnds ==
    ASSUME DisInv, NEW q \in calls, q.kind = "order",
           order[q.order].grant # q.request,
           ~(Dispatchable(q.order, q.version, q.group) /\ ~RequestUsed(q.request))
    PROVE  Ending(q.order)
  <1> DEFINE o == q.order
  <1> SUFFICES ASSUME ~Ending(o)
               PROVE  FALSE
    OBVIOUS
  <1>1. /\ o \in Orders /\ q.request # NoRequest /\ CallFits(q)
        /\ intent[o].status = "PENDING"
    BY OrderCallFacts
  <1>2. /\ intent[o].id = q.request /\ intent[o].quoted = q.version
        /\ ship[o].status # "NONE" /\ ship[o].group = q.group
    BY <1>1 DEF CallFits
  <1>3. /\ StockFits(o) /\ ShipFits(o) /\ IntentFits(o) /\ GrantFits(o)
    BY <1>1, Columns
  <1>4. ~Granted(o)
    BY <1>2, <1>3 DEF GrantFits
  <1>5. order[o].status = "READY_TO_SHIP" /\ order[o].version = q.version
    BY <1>1, <1>2, <1>3, <1>4 DEF IntentFits, Stands
  <1>6. order[o].group = q.group
    BY <1>2, <1>3 DEF ShipFits
  <1>7. order[o].group # 0
    <2>1. order[o].group \in Inv!Versions
      BY <1>3, <1>5 DEF StockFits, Early
    <2>2. QED
      BY <1>1, <2>1, GroupKeys
  <1>8. Dispatchable(o, q.version, q.group)
    BY <1>4, <1>5, <1>6, <1>7 DEF Dispatchable, Ending, Exists
  <1>9. ~RequestUsed(q.request)
    <2> SUFFICES ASSUME NEW x \in Orders, order[x].grant = q.request
                 PROVE  FALSE
      BY DEF RequestUsed
    <2>1. intent[x].id = q.request
      BY <1>1, Columns DEF GrantFits, Granted
    <2>2. x = o
      BY <1>1, <1>2, <2>1 DEF DisInv, IntentIds
    <2>3. QED
      BY <2>2
  <1>10. QED
    BY <1>8, <1>9

\* Grant, replay or refusal: the answer fits the intent that waits for it.
LEMMA AnswerOrderStep ==
    ASSUME DisInv, NEW q \in calls, AnswerOrder(q)
    PROVE  DisInv'
  <1> DEFINE o == q.order
             new(a) == [q EXCEPT !.answer = a]
  <1>1. /\ q.kind = "order" /\ q.answer = "none" /\ UNCHANGED <<shipVars, rsv, quote>>
    BY DEF AnswerOrder, stockVars
  <1>2. /\ q \in OrderCall /\ o \in Orders /\ q.request \in Requests
        /\ q.request # NoRequest /\ CallFits(q)
        /\ intent[o].status \in {"PENDING", "COMPLETED", "REJECTED"}
        /\ intent[o].status = "COMPLETED" => order[o].grant = q.request
        /\ intent[o].status = "REJECTED" => Ending(o)
    BY <1>1, OrderCallFacts
  <1>3. quote \in [Orders -> Nat] /\ calls \subseteq OrderCall \cup BatchCall
    BY DEF DisInv, LinkTypeOK
  <1>4. ASSUME NEW a \in {"GRANTED", "CONFLICT"}
        PROVE  /\ new(a) \in OrderCall /\ new(a).kind = "order" /\ new(a).answer = a
               /\ new(a).order = o /\ new(a).request = q.request
               /\ new(a).version = q.version /\ new(a).group = q.group
    BY <1>2 DEF OrderCall
  <1>5. ASSUME NEW a, Answers(q, a)
        PROVE  calls' = (calls \ {q}) \cup {new(a)}
    BY <1>5 DEF Answers
  <1> HIDE DEF new
  <1>6. CASE Authorize(o, q.request, q.version, q.group) /\ Answers(q, "GRANTED")
    <2> DEFINE row == [order[o] EXCEPT !.grant = q.request]
    <2>1. /\ ~Granted(o) /\ ~order[o].cancelling /\ order[o].status = "READY_TO_SHIP"
          /\ order' = [order EXCEPT ![o] = Bumped(row)]
          /\ UNCHANGED <<tx, orderLog, batch>>
      BY <1>6 DEF Authorize, Dispatchable, Write
    <2>2. order \in [Orders -> Row] /\ order[o] \in Row
      BY <1>2, Columns
    <2>3. row \in Row /\ row.status = order[o].status /\ row.grant = q.request
          /\ row.cancelling = order[o].cancelling /\ row.group = order[o].group
      BY <1>2, <2>2 DEF Row
    <2> HIDE DEF row
    <2>4. /\ \A x \in Orders \ {o} : order'[x] = order[x]
          /\ order'[o].status = order[o].status
          /\ order'[o].cancelling = order[o].cancelling
          /\ order'[o].group = order[o].group /\ order'[o].grant = q.request
      BY <1>2, <2>1, <2>2, <2>3, BumpedRow
    <2>5. OrderInv'
      BY <1>2, <1>6, AuthorizeStep DEF DisInv
    <2>6. /\ intent[o].status = "PENDING" /\ intent[o].id = q.request
          /\ intent[o].batch = NoBatch
      <3>1. ~Ending(o)
        BY <2>1 DEF Ending
      <3>2. intent[o].status # "COMPLETED"
        BY <1>2, <2>1 DEF Granted
      <3>3. QED
        BY <1>1, <1>2, <3>1, <3>2 DEF CallFits
    <2>7. CallFits(new("GRANTED"))'
      <3>1. UNCHANGED <<ship, intent>>
        BY <1>1 DEF shipVars
      <3>2. QED
        BY <1>1, <1>2, <1>4, <2>4, <3>1 DEF CallFits
    <2>8. /\ calls' \subseteq OrderCall \cup BatchCall
          /\ \A p \in calls' : p \in calls \/ CallFits(p)'
      BY <1>3, <1>4, <1>5, <1>6, <2>7
    <2> DEFINE S == {o}
    <2>9. S \in SUBSET Orders /\ \A x : x \in S <=> x = o
      BY <1>2
    <2> HIDE DEF S
    <2>10. /\ \A x \in Orders \ S : order'[x] = order[x]
           /\ \A x \in S :
                 /\ order'[x].status = order[x].status
                 /\ order'[x].cancelling = order[x].cancelling
                 /\ order'[x].group = order[x].group
                 /\ order'[x].grant = intent[x].id
                 /\ intent[x].status = "PENDING" /\ ~Granted(x)
                 /\ intent[x].batch # NoBatch
                       => batch'[intent[x].batch].decision = "GRANTED"
      BY <2>1, <2>4, <2>6, <2>9
    <2>11. /\ \A b \in Batches : batch'[b] = batch[b]
           /\ UNCHANGED <<shipVars, rsv, quote, tx, orderLog>>
      BY <1>1, <2>1
    <2>12. QED
      BY <2>5, <2>8, <2>9, <2>10, <2>11, GrantKeeps
  <1>7. ASSUME NEW a \in {"GRANTED", "CONFLICT"}, Answers(q, a), UNCHANGED orderVars,
               a = "GRANTED" => order[o].grant = q.request,
               a = "CONFLICT" => Ending(o)
        PROVE  DisInv'
    <2>1. CallFits(new(a))
      BY <1>1, <1>2, <1>4, <1>7 DEF CallFits
    <2>2. /\ calls' \subseteq OrderCall \cup BatchCall
          /\ \A p \in calls' : p \in calls \/ CallFits(p)
      BY <1>3, <1>4, <1>5, <1>7, <2>1
    <2>3. /\ UNCHANGED <<orderVars, shipVars, rsv>> /\ quote' \in [Orders -> Nat]
          /\ \A x \in Orders : quote'[x] = quote[x]
      BY <1>1, <1>3, <1>7
    <2>4. QED
      BY <2>2, <2>3, LinkKeeps
  <1>8. CASE /\ order[o].grant = q.request /\ Answers(q, "GRANTED") /\ UNCHANGED orderVars
    BY <1>7, <1>8
  <1>9. CASE /\ order[o].grant # q.request
             /\ ~(Dispatchable(o, q.version, q.group) /\ ~RequestUsed(q.request))
             /\ Answers(q, "CONFLICT") /\ UNCHANGED orderVars
    <2>1. Ending(o)
      BY <1>1, <1>9, ConflictEnds
    <2>2. QED
      BY <1>7, <1>9, <2>1
  <1>10. QED
    BY <1>6, <1>8, <1>9 DEF AnswerOrder

\* The order-service decides on the batch as fulfillment started it, whose
\* shipments all wait, or repeats what it decided.
LEMMA AnswerBatchStep ==
    ASSUME DisInv, NEW q \in calls, AnswerBatch(q)
    PROVE  DisInv'
  <1> DEFINE b == q.batch
             child == dispatch[b].child
             ver == [o \in Orders |-> intent[o].quoted]
             grp == [o \in Orders |-> ship[o].group]
  <1>1. PICK d : d = batch'[b].decision
    OBVIOUS
  <1> DEFINE new == [q EXCEPT !.answer = d]
  <1>2. /\ q.kind = "batch" /\ q.answer = "none" /\ UNCHANGED <<shipVars, rsv, quote>>
        /\ calls' = (calls \ {q}) \cup {new}
        /\ \/ AuthorizeBatch(b, child, ver, grp)
           \/ batch[b].decision # "NONE" /\ UNCHANGED orderVars
    BY <1>1 DEF AnswerBatch, stockVars, Answers
  <1>3. q \in BatchCall /\ b \in Batches /\ CallFits(q) /\ BatchFits(b)
    BY <1>2 DEF DisInv, LinkTypeOK, OrderCall, BatchCall
  <1>4. quote \in [Orders -> Nat] /\ calls \subseteq OrderCall \cup BatchCall
    BY DEF DisInv, LinkTypeOK
  <1>5. ASSUME d \in {"GRANTED", "REJECTED"}
        PROVE  /\ new \in BatchCall /\ new.kind = "batch" /\ new.batch = b
               /\ new.answer = d
    BY <1>3, <1>5 DEF BatchCall
  <1>6. batch \in [Batches -> BatchRow] /\ batch[b] \in BatchRow
    BY <1>3 DEF DisInv, OrderInv, OrderTypeOK
  <1> HIDE DEF new
  <1>7. CASE batch[b].decision # "NONE" /\ UNCHANGED orderVars
    <2>1. batch' = batch /\ d = batch[b].decision /\ d \in {"GRANTED", "REJECTED"}
      BY <1>1, <1>6, <1>7 DEF orderVars, BatchRow
    <2>2. CallFits(new)
      BY <1>5, <2>1 DEF CallFits
    <2>3. /\ calls' \subseteq OrderCall \cup BatchCall
          /\ \A p \in calls' : p \in calls \/ CallFits(p)
      BY <1>2, <1>4, <1>5, <2>1, <2>2
    <2>4. /\ UNCHANGED <<orderVars, shipVars, rsv>> /\ quote' \in [Orders -> Nat]
          /\ \A x \in Orders : quote'[x] = quote[x]
      BY <1>2, <1>4, <1>7
    <2>5. QED
      BY <2>3, <2>4, LinkKeeps
  <1>8. CASE AuthorizeBatch(b, child, ver, grp)
    <2> DEFINE granted == BatchDispatchable(child, ver, grp)
               dec == [decision |-> IF granted THEN "GRANTED" ELSE "REJECTED",
                       child |-> child]
               S == {x \in Members(child) : granted}
    <2>1. /\ batch[b].decision = "NONE" /\ batch' = [batch EXCEPT ![b] = dec]
          /\ order' = [x \in Orders |->
                         IF granted /\ x \in Members(child)
                         THEN Bumped([order[x] EXCEPT !.grant = child[x]]) ELSE order[x]]
          /\ UNCHANGED <<tx, orderLog>>
      BY <1>8 DEF AuthorizeBatch
    <2>2. dispatch[b].status = "PENDING" /\ dispatch[b].decision = "NONE"
      BY <1>2, <1>3, <2>1 DEF CallFits, BatchFits
    <2>3. DistinctChildren(child) /\ child \in Children
      <3>1. child \in FulP!Children
        BY <1>3 DEF DisInv, FulP!FulInv, FulP!FulfillmentTypeOK, FulP!BatchDispatch
      <3>2. QED
        BY <1>3, <2>2, <3>1 DEF BatchFits, Children, FulP!Children
    <2>4. OrderInv'
      BY <1>3, <1>8, <2>3, AuthorizeBatchStep DEF DisInv
    <2>5. /\ batch'[b].child = child /\ d \in {"GRANTED", "REJECTED"}
          /\ granted => d = "GRANTED"
          /\ \A x \in Batches \ {b} : batch'[x] = batch[x]
      BY <1>1, <1>3, <1>6, <2>1
    <2>6. UNCHANGED <<ship, intent, dispatch>>
      BY <1>2 DEF shipVars
    <2>7. BatchFits(b)'
      BY <1>1, <2>2, <2>3, <2>5, <2>6 DEF BatchFits, DistinctChildren, Members
    <2>8. CallFits(new)'
      BY <1>1, <1>5, <2>2, <2>5, <2>6 DEF CallFits
    <2>9. /\ calls' \subseteq OrderCall \cup BatchCall
          /\ \A p \in calls' : p \in calls \/ CallFits(p)'
      BY <1>2, <1>4, <1>5, <2>5, <2>8
    <2>10. /\ S \in SUBSET Orders
           /\ \A x \in Orders \ S : order'[x] = order[x]
      BY <2>1 DEF Members
    <2>11. ASSUME NEW x \in S
           PROVE  /\ order'[x].status = order[x].status
                  /\ order'[x].cancelling = order[x].cancelling
                  /\ order'[x].group = order[x].group
                  /\ order'[x].grant = intent[x].id
                  /\ intent[x].status = "PENDING" /\ ~Granted(x)
                  /\ intent[x].batch # NoBatch
                        => batch'[intent[x].batch].decision = "GRANTED"
      <3> DEFINE row == [order[x] EXCEPT !.grant = child[x]]
      <3>1. x \in Orders /\ x \in Members(child) /\ granted
        BY DEF Members
      <3>2. /\ intent[x].id = child[x] /\ intent[x].status = "PENDING"
            /\ intent[x].batch = b
        <4>1. x \in FulP!Members(dispatch[b].child)
          BY <3>1 DEF Members, FulP!Members
        <4>2. QED
          BY <1>3, <2>2, <4>1, FulFacts, FulP!Waiting DEF DisInv
      <3>3. ~Granted(x)
        BY <3>1 DEF BatchDispatchable, Dispatchable
      <3>4. order[x] \in Row /\ child[x] \in Requests \cup {NoRequest}
        BY <2>3, <3>1, Columns DEF Children
      <3>5. /\ row \in Row /\ row.status = order[x].status /\ row.grant = child[x]
            /\ row.cancelling = order[x].cancelling /\ row.group = order[x].group
        BY <3>4 DEF Row
      <3>6. order'[x] = Bumped(row)
        BY <2>1, <3>1
      <3> HIDE DEF row
      <3>7. QED
        BY <1>1, <2>5, <3>1, <3>2, <3>3, <3>5, <3>6, BumpedRow
    <2>12. /\ \A x \in Batches : \/ batch'[x] = batch[x]
                                 \/ batch[x].decision = "NONE" /\ BatchFits(x)'
           /\ UNCHANGED <<shipVars, rsv, quote, tx, orderLog>>
      BY <1>2, <2>1, <2>5, <2>7
    <2> HIDE DEF S, granted, dec
    <2>13. QED
      BY <2>4, <2>9, <2>10, <2>11, <2>12, GrantKeeps
  <1>9. QED
    BY <1>2, <1>7, <1>8

-----------------------------------------------------------------------------
(* The end of an intent *)

\* The shipments S leave, each under the grant for its intent.
LEMMA LeaveKeeps ==
    ASSUME DisInv, FulP!FulInv', UNCHANGED <<orderVars, rsv, quote>>,
           NEW S \in SUBSET Orders, calls' \subseteq calls,
           \A x \in Orders \ S : ship'[x] = ship[x] /\ intent'[x] = intent[x],
           \A x \in S :
              /\ ship[x].status = "READY_TO_SHIP" /\ intent[x].status = "PENDING"
              /\ ship'[x].status = "DISPATCHED" /\ intent'[x].status = "COMPLETED"
              /\ ship'[x].group = ship[x].group
              /\ intent'[x].id = intent[x].id /\ intent'[x].batch = intent[x].batch
              /\ intent'[x].quoted = intent[x].quoted
              /\ order[x].grant = intent[x].id,
           \A e \in shipLog' \ shipLog : /\ e.order \in S
                                         /\ e.group = ship[e.order].group
                                         /\ e.request = intent[e.order].id,
           \A b \in Batches :
              \/ dispatch'[b] = dispatch[b]
              \/ BatchFits(b)' /\ \A q \in calls' :
                                     q.kind = "batch" /\ q.batch = b => CallFits(q)'
    PROVE  DisInv'
  <1>1. UNCHANGED <<order, batch>>
    BY DEF orderVars
  <1>2. quote' \in [Orders -> Nat]
    BY DEF DisInv, LinkTypeOK
  <1>3. ASSUME NEW x \in S
        PROVE  /\ x \in Orders /\ ship[x].status \notin Ful!Gone /\ ship'[x].status \in Ful!Gone
               /\ IntentFits(x) /\ QuoteFits(x) /\ ShipFits(x) /\ GrantFits(x)
    BY Columns, GoneSet
  <1>4. ASSUME NEW x \in S
        PROVE  /\ IssueFits(x)' /\ ShipFits(x)' /\ QuoteFits(x)'
               /\ IntentFits(x)' /\ GrantFits(x)'
    <2>1. \A v \in Inv!Versions : rsv[<<x, v>>].status # "ISSUED"
      BY <1>3, NotGone
    <2>2. IssueFits(x)' /\ ShipFits(x)'
      BY <1>1, <1>3, <2>1 DEF IssueFits, ShipFits
    <2>3. quote'[x] = 0
      BY <1>3 DEF QuoteFits, Ful!IntentFree
    <2>4. intent[x].id # NoRequest /\ Granted(x)
      BY <1>3 DEF IntentFits, Granted
    <2>5. QuoteFits(x)'
      BY <2>3 DEF QuoteFits
    <2>6. IntentFits(x)'
      BY <1>1, <2>4 DEF IntentFits
    <2>7. GrantFits(x)'
      BY <1>1, <1>3, <2>4 DEF GrantFits
    <2>8. QED
      BY <2>2, <2>5, <2>6, <2>7
  <1>5. IntentIds'
    <2>1. \A x \in Orders : intent'[x].id = intent[x].id
      OBVIOUS
    <2>2. QED
      BY <2>1 DEF DisInv, IntentIds
  <1>6. ASSUME NEW q \in calls', q.kind = "order", q.order \in S
        PROVE  CallFits(q)'
    <2>1. CallFits(q)
      BY DEF DisInv
    <2>2. QED
      BY <1>1, <1>3, <1>6, <2>1 DEF CallFits, Ending
  <1>7. ASSUME NEW e \in shipLog'
        PROVE  (e \in shipLog /\ e.order \notin S) \/ ShipEventFits(e)'
    <2>1. CASE e \in shipLog /\ e.order \in S
      <3>1. ShipEventFits(e)
        BY <2>1 DEF DisInv
      <3>2. e.type # "ShipmentDispatched"
        BY <1>3, <2>1, NotGone
      <3>3. QED
        BY <2>1, <3>1, <3>2 DEF ShipEventFits
    <2>2. CASE e \notin shipLog
      <3>1. e.order \in S /\ e.group = ship[e.order].group /\ e.request = intent[e.order].id
        BY <2>2
      <3>2. ship'[e.order].status \in Ful!Gone
        BY <1>3, <3>1
      <3>3. QED
        BY <3>1, <3>2 DEF ShipEventFits
    <2>3. QED
      BY <2>1, <2>2
  <1>8. /\ \A x \in Orders \ S : /\ ship'[x] = ship[x] /\ intent'[x] = intent[x]
                                 /\ quote'[x] = quote[x]
        /\ UNCHANGED <<orderVars, rsv>>
    OBVIOUS
  <1>9. QED
    BY <1>2, <1>4, <1>5, <1>6, <1>7, <1>8, ShipKeeps

\* A granted shipment leaves: the grant is the one for its intent.
LEMMA CommitStep ==
    ASSUME DisInv, NEW q \in calls, q.kind = "order", q.answer = "GRANTED",
           Ful!CommitDispatch(q.order, q.request),
           UNCHANGED <<orderVars, rsv, quote>>, calls' \subseteq calls
    PROVE  DisInv'
  <1> DEFINE o == q.order
             row == [ship[o] EXCEPT !.status = "DISPATCHED"]
             new == Ful!Event("ShipmentDispatched", o, q.request)
  <1>1. /\ o \in Orders /\ q.request \in Requests /\ q.request # NoRequest /\ CallFits(q)
        /\ intent[o].status \in {"PENDING", "COMPLETED", "REJECTED"}
        /\ intent[o].status = "REJECTED" => Ending(o)
    BY OrderCallFacts
  <1>2. /\ intent[o].id = q.request /\ intent[o].batch = NoBatch
        /\ order[o].grant = q.request
    BY <1>1 DEF CallFits
  <1>3. /\ intent[o].status # "COMPLETED" /\ ship[o].status = "READY_TO_SHIP"
        /\ ship' = [ship EXCEPT ![o] = Ful!Bumped(row)]
        /\ intent' = [intent EXCEPT ![o].status = "COMPLETED"]
        /\ shipLog' = shipLog \cup {new} /\ dispatch' = dispatch
    BY DEF Ful!CommitDispatch, Ful!canMove, Ful!TRANSITIONS, Ful!Write, Ful!Record
  <1>4. intent[o].status = "PENDING"
    <2>1. Granted(o)
      BY <1>1, <1>2 DEF Granted
    <2>2. ~Ending(o)
      BY <1>1, <2>1, OrderFacts
    <2>3. QED
      BY <1>1, <1>3, <2>2
  <1>5. FulP!FulInv'
    <2>1. FulP!CommitDispatch(o, q.request) /\ ~FulP!BatchPending(o)
      BY <1>2, SameDispatch DEF FulP!BatchPending
    <2>2. QED
      BY <1>1, <2>1, FulFacts, FulP!CommitDispatchStep DEF DisInv
  <1>6. /\ ship \in [Orders -> FulP!ShipRow] /\ ship[o] \in FulP!ShipRow
        /\ intent \in [Orders -> FulP!IntentRow] /\ intent[o] \in FulP!IntentRow
    BY <1>1, Columns
  <1>7. /\ \A x \in Orders \ {o} : ship'[x] = ship[x]
        /\ ship'[o].status = "DISPATCHED" /\ ship'[o].group = ship[o].group
    BY <1>1, <1>3, <1>6 DEF FulP!ShipRow, Ful!Bumped
  <1>8. /\ \A x \in Orders \ {o} : intent'[x] = intent[x]
        /\ intent'[o].status = "COMPLETED" /\ intent'[o].id = intent[o].id
        /\ intent'[o].batch = intent[o].batch /\ intent'[o].quoted = intent[o].quoted
    BY <1>1, <1>3, <1>6 DEF FulP!IntentRow
  <1>9. new.order = o /\ new.group = ship[o].group /\ new.request = q.request
    BY DEF Ful!Event
  <1> DEFINE S == {o}
  <1>10. S \in SUBSET Orders /\ \A x : x \in S <=> x = o
    BY <1>1
  <1> HIDE DEF S, row, new
  <1>11. /\ \A x \in Orders \ S : ship'[x] = ship[x] /\ intent'[x] = intent[x]
         /\ \A x \in S :
              /\ ship[x].status = "READY_TO_SHIP" /\ intent[x].status = "PENDING"
              /\ ship'[x].status = "DISPATCHED" /\ intent'[x].status = "COMPLETED"
              /\ ship'[x].group = ship[x].group
              /\ intent'[x].id = intent[x].id /\ intent'[x].batch = intent[x].batch
              /\ intent'[x].quoted = intent[x].quoted
              /\ order[x].grant = intent[x].id
    BY <1>2, <1>3, <1>4, <1>7, <1>8, <1>10
  <1>12. /\ \A e \in shipLog' \ shipLog : /\ e.order \in S
                                          /\ e.group = ship[e.order].group
                                          /\ e.request = intent[e.order].id
         /\ \A b \in Batches : dispatch'[b] = dispatch[b]
    BY <1>2, <1>3, <1>9, <1>10
  <1>13. QED
    BY <1>5, <1>10, <1>11, <1>12, LeaveKeeps

\* Only the intent of an order that ends is refused.
LEMMA RefuseStep ==
    ASSUME DisInv, NEW q \in calls, q.kind = "order", q.answer = "CONFLICT",
           Ful!RejectDispatch(q.order, q.request),
           UNCHANGED <<orderVars, rsv, quote>>, calls' \subseteq calls
    PROVE  DisInv'
  <1> DEFINE o == q.order
  <1>1. o \in Orders /\ CallFits(q)
    BY OrderCallFacts
  <1>2. intent[o].id = q.request /\ intent[o].batch = NoBatch /\ Ending(o)
    BY <1>1 DEF CallFits
  <1>3. /\ intent[o].status = "PENDING"
        /\ intent' = [intent EXCEPT ![o].status = "REJECTED"]
        /\ UNCHANGED <<ship, dispatch, shipLog>>
    BY DEF Ful!RejectDispatch
  <1>4. FulP!FulInv'
    <2>1. FulP!RejectDispatch(o, q.request) /\ ~FulP!BatchPending(o)
      BY <1>2, SameDispatch DEF FulP!BatchPending
    <2>2. QED
      BY <1>1, <2>1, FulFacts, FulP!RejectDispatchStep DEF DisInv
  <1>5. /\ intent \in [Orders -> FulP!IntentRow] /\ intent[o] \in FulP!IntentRow
        /\ IntentFits(o) /\ QuoteFits(o)
        /\ ship[o].status \in Ful!Gone <=> intent[o].status = "COMPLETED"
    BY <1>1, Columns
  <1>6. /\ \A x \in Orders \ {o} : intent'[x] = intent[x]
        /\ intent'[o].status = "REJECTED" /\ intent'[o].id = intent[o].id
        /\ intent'[o].batch = intent[o].batch /\ intent'[o].quoted = intent[o].quoted
    BY <1>1, <1>3, <1>5 DEF FulP!IntentRow
  <1>7. UNCHANGED <<order, batch>> /\ quote \in [Orders -> Nat]
    BY DEF orderVars, DisInv, LinkTypeOK
  <1>8. ship[o].status \notin Ful!Gone /\ quote[o] = 0 /\ ~Granted(o)
    BY <1>1, <1>2, <1>3, <1>5, OrderFacts DEF QuoteFits, Ful!IntentFree
  <1>9. QuoteFits(o)' /\ GrantFits(o)'
    BY <1>7, <1>8 DEF QuoteFits, GrantFits, Granted
  <1>10. IntentFits(o)'
    <2>1. Ending(o)'
      BY <1>2, <1>7 DEF Ending
    <2>2. QED
      BY <1>3, <1>5, <1>6, <1>7, <1>8, <2>1 DEF IntentFits
  <1>11. IntentIds'
    BY <1>6 DEF DisInv, IntentIds
  <1>12. ASSUME NEW p \in calls, p.kind = "order", p.order = o
         PROVE  CallFits(p)'
    <2>1. CallFits(p)
      BY DEF DisInv
    <2>2. QED
      BY <1>3, <1>6, <1>7, <1>12, <2>1 DEF CallFits, Ending
  <1> DEFINE S == {o}
  <1>13. S \in SUBSET Orders /\ \A x : x \in S <=> x = o
    BY <1>1
  <1> HIDE DEF S, o
  <1>14. UNCHANGED <<orderVars, rsv, ship, shipLog>>
    BY <1>3
  <1>15. QED
    BY <1>3, <1>4, <1>6, <1>7, <1>8, <1>9, <1>10, <1>11, <1>12, <1>13, <1>14, IntentKeeps

\* A shipment of a waiting batch, and the order call that nobody made for it.
LEMMA BatchWaiting ==
    ASSUME DisInv, NEW b \in Batches, dispatch[b].status = "PENDING",
           NEW x \in Members(dispatch[b].child)
    PROVE  /\ x \in Orders /\ x \in FulP!Members(dispatch[b].child)
           /\ ship[x].status = "READY_TO_SHIP" /\ ship[x].status \notin Ful!Gone
           /\ intent[x].status = "PENDING" /\ intent[x].batch = b
           /\ intent[x].id = dispatch[b].child[x]
           /\ quote[x] = 0
           /\ \A q \in calls : q.kind = "order" => q.order # x
  <1>1. x \in Orders /\ x \in FulP!Members(dispatch[b].child)
    BY DEF Members, FulP!Members
  <1>2. /\ ship[x].status = "READY_TO_SHIP" /\ intent[x].status = "PENDING"
        /\ intent[x].batch = b /\ intent[x].id = dispatch[b].child[x]
    BY <1>1, FulFacts, FulP!Waiting DEF DisInv
  <1>3. quote[x] = 0
    BY <1>1, <1>2, Columns DEF QuoteFits, Ful!IntentFree
  <1>4. ASSUME NEW q \in calls, q.kind = "order", q.order = x
        PROVE  FALSE
    <2>1. CallFits(q)
      BY DEF DisInv
    <2>2. QED
      BY <1>2, <1>4, <2>1, FulFacts DEF CallFits
  <1>5. QED
    BY <1>1, <1>2, <1>3, <1>4, GoneSet

\* The decision is stored: only the receipts of the intents change.
LEMMA StoreStep ==
    ASSUME DisInv, NEW q \in calls, q.kind = "batch", q.answer # "none",
           Ful!StoreDecision(q.batch, q.answer),
           UNCHANGED <<orderVars, rsv, quote>>, calls' \subseteq calls
    PROVE  DisInv'
  <1> DEFINE b == q.batch
             S == Members(dispatch[b].child)
             got(x) == [intent[x] EXCEPT !.receipt = TRUE]
  <1>1. q \in BatchCall /\ CallFits(q)
    BY DEF DisInv, LinkTypeOK, OrderCall, BatchCall
  <1>2. /\ b \in Batches /\ q.answer \in {"GRANTED", "REJECTED"}
        /\ batch[b].decision = q.answer
    BY <1>1 DEF BatchCall, CallFits
  <1>3. FulP!FulInv'
    <2>1. FulP!StoreDecision(b, q.answer)
      BY SameBatch
    <2>2. QED
      BY <1>2, <2>1, FulFacts, FulP!StoreDecisionStep DEF DisInv
  <1>4. /\ dispatch[b].status = "PENDING"
        /\ dispatch' = [dispatch EXCEPT ![b].decision = q.answer]
        /\ UNCHANGED <<ship, shipLog>>
        /\ S \in SUBSET Orders /\ S = Ful!Members(dispatch[b].child)
    BY DEF Ful!StoreDecision, Members, Ful!Members
  <1>5. intent' = [x \in Orders |-> IF q.answer = "GRANTED" /\ x \in S
                                    THEN got(x) ELSE intent[x]]
    BY <1>4 DEF Ful!StoreDecision
  <1>6. ASSUME NEW x \in Orders
        PROVE  /\ got(x).id = intent[x].id /\ got(x).status = intent[x].status
               /\ got(x).batch = intent[x].batch /\ got(x).quoted = intent[x].quoted
    BY Columns DEF FulP!IntentRow
  <1> HIDE DEF got, S
  <1>7. /\ \A x \in Orders \ S : intent'[x] = intent[x]
        /\ \A x \in Orders :
              /\ intent'[x].id = intent[x].id /\ intent'[x].status = intent[x].status
              /\ intent'[x].batch = intent[x].batch
              /\ intent'[x].quoted = intent[x].quoted
    BY <1>5, <1>6
  <1>8. /\ \A x \in Batches \ {b} : dispatch'[x] = dispatch[x]
        /\ dispatch'[b].status = dispatch[b].status
        /\ dispatch'[b].child = dispatch[b].child /\ dispatch'[b].decision = q.answer
    <2>1. dispatch \in [Batches -> FulP!BatchDispatch]
      BY DEF DisInv, FulP!FulInv, FulP!FulfillmentTypeOK
    <2>2. QED
      BY <1>2, <1>4, <2>1 DEF FulP!BatchDispatch
  <1>9. UNCHANGED <<order, batch>> /\ quote \in [Orders -> Nat]
    BY DEF orderVars, DisInv, LinkTypeOK
  <1>10. ASSUME NEW x \in S
         PROVE  /\ ship[x].status \notin Ful!Gone
                /\ QuoteFits(x)' /\ IntentFits(x)' /\ GrantFits(x)'
                /\ \A p \in calls : p.kind = "order" => p.order # x
    <2>1. /\ x \in Orders /\ ship[x].status \notin Ful!Gone /\ quote[x] = 0
          /\ \A p \in calls : p.kind = "order" => p.order # x
      BY <1>2, <1>4, BatchWaiting DEF S
    <2>2. IntentFits(x) /\ GrantFits(x)
      BY <2>1, Columns
    <2>3. QuoteFits(x)' /\ GrantFits(x)'
      BY <1>7, <1>9, <2>1, <2>2 DEF QuoteFits, GrantFits, Granted
    <2>4. IntentFits(x)'
      BY <1>4, <1>7, <1>9, <2>1, <2>2 DEF IntentFits, Stands, Ending, Granted
    <2>5. QED
      BY <2>1, <2>3, <2>4
  <1>11. IntentIds'
    BY <1>7 DEF DisInv, IntentIds
  <1>12. BatchFits(b)'
    <2>1. BatchFits(b)
      BY <1>2 DEF DisInv
    <2>2. QED
      BY <1>2, <1>8, <1>9, <2>1 DEF BatchFits, DistinctChildren, Members
  <1>13. ASSUME NEW p \in calls, p.kind = "batch", p.batch = b
         PROVE  CallFits(p)'
    <2>1. CallFits(p)
      BY DEF DisInv
    <2>2. QED
      BY <1>8, <1>9, <1>13, <2>1 DEF CallFits
  <1>14. /\ UNCHANGED <<orderVars, rsv, ship, shipLog>> /\ quote' \in [Orders -> Nat]
         /\ \A x \in Orders \ S : intent'[x] = intent[x] /\ quote'[x] = quote[x]
    BY <1>4, <1>7, <1>9
  <1>15. /\ \A p \in calls' : p.kind = "order" /\ p.order \in S => CallFits(p)'
         /\ \A x \in Batches :
              \/ dispatch'[x] = dispatch[x]
              \/ BatchFits(x)' /\ \A p \in calls' :
                                     p.kind = "batch" /\ p.batch = x => CallFits(p)'
    BY <1>8, <1>10, <1>12, <1>13
  <1>16. QED
    BY <1>3, <1>4, <1>10, <1>11, <1>14, <1>15, IntentKeeps

\* An answer arrives.
LEMMA ResumeStep ==
    ASSUME DisInv, NEW q \in calls, Resume(q)
    PROVE  DisInv'
  <1>1. UNCHANGED <<orderVars, rsv, quote>> /\ calls' \subseteq calls
    BY DEF Resume, stockVars
  <1>2. q.answer = "CONFLICT" => q.kind = "order"
    BY DEF DisInv, LinkTypeOK, OrderCall, BatchCall
  <1>3. QED
    BY <1>1, <1>2, CommitStep, RefuseStep, StoreStep DEF Resume

\* A granted batch leaves whole: each of its orders still has its grant.
LEMMA CommitBatchKeeps ==
    ASSUME DisInv, NEW b \in Batches, Ful!CommitBatch(b),
           UNCHANGED <<orderVars, rsv, quote, calls>>
    PROVE  DisInv'
  <1> DEFINE child == dispatch[b].child
             S == Members(child)
             row(x) == [ship[x] EXCEPT !.status = "DISPATCHED"]
             done(x) == [intent[x] EXCEPT !.status = "COMPLETED"]
             ev(x) == Ful!Event("ShipmentDispatched", x, child[x])
  <1>1. FulP!FulInv'
    <2>1. FulP!CommitBatch(b)
      BY SameBatch
    <2>2. QED
      BY <2>1, FulFacts, FulP!CommitBatchStep DEF DisInv
  <1>2. S \in SUBSET Orders /\ S = Ful!Members(child)
    BY DEF Members, Ful!Members
  <1>3. /\ dispatch[b].status = "PENDING" /\ dispatch[b].decision = "GRANTED"
        /\ ship' = [x \in Orders |-> IF x \in S THEN Ful!Bumped(row(x)) ELSE ship[x]]
        /\ intent' = [x \in Orders |-> IF x \in S THEN done(x) ELSE intent[x]]
        /\ shipLog' = shipLog \cup {ev(x) : x \in S}
        /\ dispatch' = [dispatch EXCEPT ![b].status = "COMPLETED"]
    BY <1>2 DEF Ful!CommitBatch
  <1>4. ASSUME NEW x \in Orders
        PROVE  /\ done(x).id = intent[x].id /\ done(x).status = "COMPLETED"
               /\ done(x).batch = intent[x].batch /\ done(x).quoted = intent[x].quoted
               /\ Ful!Bumped(row(x)).status = "DISPATCHED"
               /\ Ful!Bumped(row(x)).group = ship[x].group
    BY Columns DEF FulP!IntentRow, FulP!ShipRow, Ful!Bumped
  <1>5. \A x : ev(x).order = x /\ ev(x).group = ship[x].group /\ ev(x).request = child[x]
    BY DEF Ful!Event
  <1>6. batch[b].decision = "GRANTED" /\ batch[b].child = child /\ BatchFits(b)
    BY <1>3 DEF DisInv, BatchFits
  <1>7. \A x \in S : order[x].grant = child[x]
    BY <1>6 DEF DisInv, OrderInv, BatchStands
  <1> HIDE DEF row, done, ev
  <1>8. ASSUME NEW x \in S
        PROVE  /\ ship[x].status = "READY_TO_SHIP" /\ intent[x].status = "PENDING"
               /\ ship'[x].status = "DISPATCHED" /\ intent'[x].status = "COMPLETED"
               /\ ship'[x].group = ship[x].group
               /\ intent'[x].id = intent[x].id /\ intent'[x].batch = intent[x].batch
               /\ intent'[x].quoted = intent[x].quoted
               /\ order[x].grant = intent[x].id /\ intent[x].id = child[x]
    <2>1. /\ x \in Orders /\ ship[x].status = "READY_TO_SHIP"
          /\ intent[x].status = "PENDING" /\ intent[x].id = child[x]
      BY <1>3, BatchWaiting
    <2>2. ship'[x] = Ful!Bumped(row(x)) /\ intent'[x] = done(x)
      BY <1>3, <2>1
    <2>3. QED
      BY <1>4, <1>7, <2>1, <2>2
  <1>9. \A x \in Orders \ S : ship'[x] = ship[x] /\ intent'[x] = intent[x]
    BY <1>3
  <1>10. ASSUME NEW e \in shipLog' \ shipLog
         PROVE  /\ e.order \in S /\ e.group = ship[e.order].group
                /\ e.request = intent[e.order].id
    <2>1. PICK x \in S : e = ev(x)
      BY <1>3
    <2>2. QED
      BY <1>5, <1>8, <2>1
  <1>11. /\ \A x \in Batches \ {b} : dispatch'[x] = dispatch[x]
         /\ dispatch'[b].status = "COMPLETED"
         /\ dispatch'[b].child = child /\ dispatch'[b].decision = dispatch[b].decision
    <2>1. dispatch \in [Batches -> FulP!BatchDispatch]
      BY DEF DisInv, FulP!FulInv, FulP!FulfillmentTypeOK
    <2>2. QED
      BY <1>3, <2>1 DEF FulP!BatchDispatch
  <1>12. batch' = batch
    BY DEF orderVars
  <1>13. BatchFits(b)'
    BY <1>3, <1>6, <1>11, <1>12 DEF BatchFits, DistinctChildren, Members
  <1>14. ASSUME NEW q \in calls, q.kind = "batch", q.batch = b
         PROVE  CallFits(q)'
    <2>1. CallFits(q)
      BY DEF DisInv
    <2>2. QED
      BY <1>6, <1>12, <1>14, <2>1 DEF CallFits
  <1> HIDE DEF S, child
  <1>15. /\ \A x \in Batches :
               \/ dispatch'[x] = dispatch[x]
               \/ BatchFits(x)' /\ \A q \in calls' :
                                      q.kind = "batch" /\ q.batch = x => CallFits(q)'
         /\ UNCHANGED <<orderVars, rsv, quote>> /\ calls' \subseteq calls
    BY <1>11, <1>13, <1>14
  <1>16. \A x \in S :
            /\ ship[x].status = "READY_TO_SHIP" /\ intent[x].status = "PENDING"
            /\ ship'[x].status = "DISPATCHED" /\ intent'[x].status = "COMPLETED"
            /\ ship'[x].group = ship[x].group
            /\ intent'[x].id = intent[x].id /\ intent'[x].batch = intent[x].batch
            /\ intent'[x].quoted = intent[x].quoted
            /\ order[x].grant = intent[x].id
    BY <1>8
  <1>17. \A e \in shipLog' \ shipLog : /\ e.order \in S
                                        /\ e.group = ship[e.order].group
                                        /\ e.request = intent[e.order].id
    BY <1>10
  <1>18. QED
    BY <1>1, <1>2, <1>9, <1>15, <1>16, <1>17, LeaveKeeps

\* A rejected batch ends: none of its orders was granted.
LEMMA RejectBatchKeeps ==
    ASSUME DisInv, NEW b \in Batches, Ful!RejectBatch(b),
           UNCHANGED <<orderVars, rsv, quote, calls>>
    PROVE  DisInv'
  <1> DEFINE child == dispatch[b].child
             S == Members(child)
             ended(x) == [intent[x] EXCEPT !.status = "REJECTED"]
  <1>1. FulP!FulInv'
    <2>1. FulP!RejectBatch(b)
      BY SameBatch
    <2>2. QED
      BY <2>1, FulFacts, FulP!RejectBatchStep DEF DisInv
  <1>2. S \in SUBSET Orders /\ S = Ful!Members(child)
    BY DEF Members, Ful!Members
  <1>3. /\ dispatch[b].status = "PENDING" /\ dispatch[b].decision = "REJECTED"
        /\ intent' = [x \in Orders |-> IF /\ x \in S /\ intent[x].id = child[x]
                                          /\ intent[x].status = "PENDING"
                                       THEN ended(x) ELSE intent[x]]
        /\ dispatch' = [dispatch EXCEPT ![b].status = "REJECTED"]
        /\ UNCHANGED <<ship, shipLog>>
    BY <1>2 DEF Ful!RejectBatch
  <1>4. ASSUME NEW x \in Orders
        PROVE  /\ ended(x).id = intent[x].id /\ ended(x).status = "REJECTED"
               /\ ended(x).batch = intent[x].batch /\ ended(x).quoted = intent[x].quoted
    BY Columns DEF FulP!IntentRow
  <1>5. batch[b].decision = "REJECTED" /\ BatchFits(b)
    BY <1>3 DEF DisInv, BatchFits
  <1>6. ASSUME NEW x \in S
        PROVE  /\ x \in Orders /\ ship[x].status \notin Ful!Gone /\ quote[x] = 0
               /\ intent[x].batch = b /\ intent[x].id = child[x]
               /\ intent[x].status = "PENDING"
               /\ \A q \in calls : q.kind = "order" => q.order # x
    BY <1>3, BatchWaiting
  <1> HIDE DEF ended
  <1>7. /\ \A x \in Orders \ S : intent'[x] = intent[x]
        /\ \A x \in S : intent'[x] = ended(x)
    BY <1>3, <1>6
  <1>8. \A x \in Orders : intent'[x].id = intent[x].id
    BY <1>4, <1>7
  <1>9. UNCHANGED <<order, batch>> /\ quote \in [Orders -> Nat]
    BY DEF orderVars, DisInv, LinkTypeOK
  <1>10. ASSUME NEW x \in S
         PROVE  QuoteFits(x)' /\ IntentFits(x)' /\ GrantFits(x)'
    <2>1. IntentFits(x) /\ GrantFits(x)
      BY <1>6, Columns
    <2>2. ~Granted(x)
      BY <1>5, <1>6, <2>1, FulFacts DEF GrantFits
    <2>3. QuoteFits(x)' /\ GrantFits(x)'
      BY <1>6, <1>9, <2>2 DEF QuoteFits, GrantFits, Granted
    <2>4. /\ intent'[x].status = "REJECTED" /\ intent'[x].id = intent[x].id
          /\ intent'[x].batch = b /\ b # NoBatch
      BY <1>4, <1>6, <1>7, FulFacts
    <2>5. IntentFits(x)'
      BY <1>3, <1>6, <2>1, <2>4 DEF IntentFits
    <2>6. QED
      BY <2>3, <2>5
  <1>11. IntentIds'
    BY <1>8 DEF DisInv, IntentIds
  <1>12. /\ \A x \in Batches \ {b} : dispatch'[x] = dispatch[x]
         /\ dispatch'[b].status = "REJECTED"
         /\ dispatch'[b].child = child /\ dispatch'[b].decision = dispatch[b].decision
    <2>1. dispatch \in [Batches -> FulP!BatchDispatch]
      BY DEF DisInv, FulP!FulInv, FulP!FulfillmentTypeOK
    <2>2. QED
      BY <1>3, <2>1 DEF FulP!BatchDispatch
  <1>13. BatchFits(b)'
    BY <1>3, <1>5, <1>9, <1>12 DEF BatchFits, DistinctChildren, Members
  <1>14. ASSUME NEW q \in calls, q.kind = "batch", q.batch = b
         PROVE  CallFits(q)'
    <2>1. CallFits(q)
      BY DEF DisInv
    <2>2. QED
      BY <1>5, <1>9, <1>14, <2>1 DEF CallFits
  <1> HIDE DEF S, child
  <1>15. /\ \A q \in calls' : q.kind = "order" /\ q.order \in S => CallFits(q)'
         /\ \A x \in Batches :
               \/ dispatch'[x] = dispatch[x]
               \/ BatchFits(x)' /\ \A q \in calls' :
                                      q.kind = "batch" /\ q.batch = x => CallFits(q)'
    BY <1>6, <1>12, <1>13, <1>14
  <1>16. /\ UNCHANGED <<orderVars, rsv, ship, shipLog>> /\ quote' \in [Orders -> Nat]
         /\ calls' \subseteq calls
         /\ \A x \in Orders \ S : intent'[x] = intent[x] /\ quote'[x] = quote[x]
         /\ \A x \in S : /\ ship[x].status \notin Ful!Gone
                         /\ QuoteFits(x)' /\ IntentFits(x)' /\ GrantFits(x)'
    BY <1>3, <1>6, <1>7, <1>9, <1>10
  <1>17. QED
    BY <1>1, <1>2, <1>11, <1>15, <1>16, IntentKeeps

\* A decided batch ends.
LEMMA EndBatchStep ==
    ASSUME DisInv, NEW b \in Batches, EndBatch(b)
    PROVE  DisInv'
  <1>1. UNCHANGED <<orderVars, rsv, quote, calls>>
    BY DEF EndBatch, stockVars, linkVars
  <1>2. QED
    BY <1>1, CommitBatchKeeps, RejectBatchKeeps DEF EndBatch

-----------------------------------------------------------------------------
(* The invariant *)

\* Nothing has happened yet.
LEMMA DisInitially == DispatchInit => DisInv
  <1> SUFFICES ASSUME DispatchInit
               PROVE  DisInv
    OBVIOUS
  <1>1. OrderInv
    BY OrderInitially DEF DispatchInit
  <1>2. FulP!FulInv
    <2>1. FulP!FulfillmentInit
      BY DEF DispatchInit, Ful!FulfillmentInit, FulP!FulfillmentInit, Ful!NoIntent,
             FulP!NoIntent
    <2>2. QED
      BY <2>1, FulFacts, FulP!FulInit
  <1>3. LinkTypeOK
    BY DEF DispatchInit, LinkTypeOK, Inv!InventoryInit, GroupType, Inv!NoGroupRow,
           Inv!GroupStatus
  <1>4. ASSUME NEW o \in Orders
        PROVE  /\ StockFits(o) /\ IssueFits(o) /\ ShipFits(o)
               /\ QuoteFits(o) /\ IntentFits(o) /\ GrantFits(o)
    <2>1. /\ order[o].status = "NONE" /\ order[o].group = 0 /\ order[o].grant = NoRequest
          /\ tx[o].kind = "none"
      BY DEF DispatchInit, OrderInit
    <2>2. ship[o].status = "NONE" /\ intent[o].status = "NONE" /\ quote[o] = 0
      BY DEF DispatchInit, Ful!FulfillmentInit, Ful!NoIntent
    <2>3. \A v \in Inv!Versions : rsv[<<o, v>>].status = "NONE"
      BY GroupKeys DEF DispatchInit, Inv!InventoryInit, Inv!NoGroupRow
    <2>4. StockFits(o) /\ IssueFits(o)
      BY <2>1, <2>3 DEF StockFits, IssueFits, Early
    <2>5. ShipFits(o) /\ QuoteFits(o) /\ GrantFits(o)
      BY <2>1, <2>2 DEF ShipFits, QuoteFits, GrantFits, Granted
    <2>6. IntentFits(o)
      BY <2>2, GoneSet DEF IntentFits
    <2>7. QED
      BY <2>4, <2>5, <2>6
  <1>5. IntentIds
    BY DEF DispatchInit, Ful!FulfillmentInit, Ful!NoIntent, IntentIds
  <1>6. \A b \in Batches : BatchFits(b)
    BY DEF DispatchInit, OrderInit, Ful!FulfillmentInit, BatchFits
  <1>7. calls = {} /\ orderLog = {} /\ shipLog = {}
    BY DEF DispatchInit, OrderInit, Ful!FulfillmentInit
  <1>8. QED
    BY <1>1, <1>2, <1>3, <1>4, <1>5, <1>6, <1>7 DEF DisInv

\* Every step of the three services and of the channels between them.
LEMMA DisStep == DisInv /\ [DispatchNext]_dispatchVars => DisInv'
  <1> SUFFICES ASSUME DisInv, [DispatchNext]_dispatchVars
               PROVE  DisInv'
    OBVIOUS
  <1>1. CASE UNCHANGED dispatchVars
    <2>1. UNCHANGED <<orderVars, shipVars, rsv, quote, calls>>
      BY <1>1 DEF dispatchVars, stockVars, linkVars
    <2>2. quote' \in [Orders -> Nat] /\ calls' \subseteq OrderCall \cup BatchCall
      BY <2>1 DEF DisInv, LinkTypeOK
    <2>3. QED
      BY <2>1, <2>2, LinkKeeps
  <1>2. ASSUME NEW o \in Orders,
               \/ NewOrder(o) \/ Confirm(o) \/ Confirmed(o) \/ GiveUp(o)
               \/ Cancel(o) \/ ReleaseCanceled(o) \/ Canceled(o)
               \/ Pick(o) \/ TripClaims(o) \/ TripReleases(o)
               \/ Quote(o) \/ Ask(o)
               \/ \E r \in Requests : Dispatching(o, r)
        PROVE  DisInv'
    BY <1>2, NewOrderStep, ConfirmStep, ConfirmedStep, GiveUpStep, CancelStep,
       ReleaseCanceledStep, CanceledStep, PickStep, TripClaimsStep, TripReleasesStep,
       QuoteStep, AskStep, DispatchingStep
  <1>3. ASSUME NEW b \in Batches,
               \/ \E t \in Trips, child \in Children : DispatchingBatch(b, t, child)
               \/ AskBatch(b) \/ EndBatch(b)
        PROVE  DisInv'
    BY <1>3, DispatchingBatchStep, AskBatchStep, EndBatchStep
  <1>4. ASSUME NEW q \in calls, AnswerOrder(q) \/ AnswerBatch(q) \/ Lose(q) \/ Resume(q)
        PROVE  DisInv'
    BY <1>4, AnswerOrderStep, AnswerBatchStep, LoseStep, ResumeStep
  <1>5. ASSUME NEW e \in shipLog, ToOrder(e) \/ ToStock(e)
        PROVE  DisInv'
    BY <1>5, ToOrderStep, ToStockStep
  <1>6. QED
    BY <1>1, <1>2, <1>3, <1>4, <1>5, ToShipmentStep, DeliveryResultStep, MovementStep
       DEF DispatchNext

\* The invariant of all behaviours; fairness is not needed for it.
LEMMA DisAlways == DispatchSpec => []DisInv
  BY DisInitially, DisStep, PTL DEF DispatchSpec

-----------------------------------------------------------------------------
(***************************************************************************)
(* Whatever calls and answers are lost, delayed or repeated, and in which  *)
(* order events arrive: goods leave only under the grant for their own     *)
(* request, and stock is issued only for a shipment that has left.         *)
(***************************************************************************)
THEOREM ShipmentsLeaveUnderGrant == DispatchSpec => []LeavesUnderGrant
  <1>1. ASSUME DisInv
        PROVE  LeavesUnderGrant
    <2> SUFFICES ASSUME NEW o \in Orders
                 PROVE  /\ ship[o].status \in Ful!Gone => order[o].grant = intent[o].id
                        /\ \A g \in Inv!With("ISSUED") :
                              g[1] = o => /\ ship[o].status \in Ful!Gone
                                          /\ rsv[g].issue = intent[o].id
      BY DEF LeavesUnderGrant
    <2>1. IntentFits(o) /\ IssueFits(o)
      BY <1>1, Columns
    <2>2. ship[o].status \in Ful!Gone => order[o].grant = intent[o].id
      BY <2>1 DEF IntentFits
    <2>3. ASSUME NEW g \in Inv!With("ISSUED"), g[1] = o
          PROVE  ship[o].status \in Ful!Gone /\ rsv[g].issue = intent[o].id
      <3>1. g \in Inv!Groups /\ rsv[g].status = "ISSUED"
        BY DEF Inv!With
      <3>2. g[2] \in Inv!Versions /\ g = <<o, g[2]>>
        BY <2>3, <3>1 DEF Inv!Groups
      <3>3. QED
        BY <2>1, <3>1, <3>2 DEF IssueFits
    <2>4. QED
      BY <2>2, <2>3
  <1>2. QED
    BY <1>1, DisAlways, PTL

(***************************************************************************)
(* A grant is never dropped: the intent it was given for waits or is       *)
(* done, the shipment can leave or has left, its goods are not released.   *)
(***************************************************************************)
THEOREM GrantsAreHeld == DispatchSpec => []GrantHeld
  <1>1. ASSUME DisInv
        PROVE  GrantHeld
    <2> SUFFICES ASSUME NEW o \in Orders, Granted(o)
                 PROVE  /\ intent[o].id = order[o].grant
                        /\ intent[o].status \in {"PENDING", "COMPLETED"}
                        /\ ship[o].status \in {"READY_TO_SHIP"} \cup Ful!Gone
                        /\ rsv[<<o, order[o].group>>].status \in {"ACTIVE", "ISSUED"}
      BY DEF GrantHeld
    <2>1. /\ GrantFits(o) /\ IntentFits(o) /\ StockFits(o)
          /\ ship[o].status \in Ful!Gone <=> intent[o].status = "COMPLETED"
      BY <1>1, Columns
    <2>2. intent[o].id = order[o].grant /\ intent[o].status \in {"PENDING", "COMPLETED"}
      BY <2>1 DEF GrantFits
    <2>3. ship[o].status \in {"READY_TO_SHIP"} \cup Ful!Gone
      BY <2>1, <2>2 DEF IntentFits
    <2>4. order[o].status \notin Early /\ ~Ending(o)
      BY <1>1, OrderFacts DEF Early
    <2>5. rsv[<<o, order[o].group>>].status \in {"ACTIVE", "ISSUED"}
      BY <2>1, <2>4 DEF StockFits
    <2>6. QED
      BY <2>2, <2>3, <2>5
  <1>2. QED
    BY <1>1, DisAlways, PTL

(***************************************************************************)
(* No consumer is blocked for ever by an event: order-service does not     *)
(* throw on the next shipment event, inventory can issue the next group.   *)
(***************************************************************************)
THEOREM NoEventIsPoisoned == DispatchSpec => []NoPoisonedEvent
  <1>1. ASSUME DisInv
        PROVE  NoPoisonedEvent
    <2>1. ASSUME NEW e \in ForOrder
          PROVE  Verdict(e) # "THROW"
      <3> DEFINE o == e.order
                 target == TargetOf(e.type)
      <3>1. e \in shipLog /\ target # "NONE"
        BY DEF ForOrder
      <3>2. ShipEventFits(e) /\ o \in Orders /\ e \in FulP!ShipEvent
        BY <1>1, <3>1 DEF DisInv, FulP!FulInv, FulP!FulfillmentTypeOK, FulP!ShipEvent
      <3>3. ship[o].status # "NONE" /\ e.group = ship[o].group
        BY <3>1, <3>2 DEF ShipEventFits
      <3>4. order[o].status \notin Early /\ order[o].group = e.group
        BY <1>1, <3>2, <3>3, Columns DEF ShipFits
      <3>5. target = "IN_DELIVERY" => e.type = "ShipmentDispatched"
        BY <3>2 DEF FulP!ShipEvent, TargetOf
      <3>6. target = "IN_DELIVERY" => Granted(o) /\ order[o].grant = e.request
        BY <1>1, <3>1, <3>5, DispatchedEvent
      <3> HIDE DEF target
      <3>7. QED
        BY <3>4, <3>6 DEF Verdict, ShipmentVerdict, Exists, Early, target
    <2>2. ASSUME NEW e \in ForStock
          PROVE  Issued(e) \/ rsv[<<e.order, e.group>>].status = "ACTIVE"
      <3>1. e \in shipLog /\ e.type = "ShipmentDispatched"
        BY DEF ForStock
      <3>2. /\ e.order \in Orders /\ e.group \in Inv!Versions
            /\ e.request = intent[e.order].id
            /\ rsv[<<e.order, e.group>>].status \in {"ACTIVE", "ISSUED"}
        BY <1>1, <3>1, DispatchedEvent
      <3>3. IssueFits(e.order)
        BY <1>1, <3>2, Columns
      <3>4. QED
        BY <3>2, <3>3 DEF Issued, IssueFits
    <2>3. QED
      BY <2>1, <2>2 DEF NoPoisonedEvent
  <1>2. QED
    BY <1>1, DisAlways, PTL
=============================================================================
