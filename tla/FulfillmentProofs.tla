-------------------------- MODULE FulfillmentProofs --------------------------
(***************************************************************************)
(* Proofs about the fulfillment-service, for any number of shipments,      *)
(* requests, batches, trips, claims and delivery results.  The inductive   *)
(* invariant says what each part of the service may rely on while another  *)
(* one is at work: a waiting batch on the intents of its shipments, a      *)
(* release on its receipt, a delivery result that has been read on the row *)
(* it is about to overwrite.                                               *)
(***************************************************************************)
EXTENDS Fulfillment, TLAPS

\* A claim request leaves one receipt.
ClaimIds == \A k, l \in claims : k.id = l.id => k = l

\* A delivery result that has read its shipment finds it on the same trip and
\* on the road or arrived, and it is the only one of its stop (the advisory
\* lock).
ReadResults ==
    /\ \A e \in applying :
          /\ ship[ResultOf[e].order].status \in Gone
          /\ ship[ResultOf[e].order].trip = ResultOf[e].trip
    /\ \A e, f \in applying : Stop(e) = Stop(f) => e = f

FulInv ==
    /\ FulfillmentTypeOK
    /\ LeftByIntent
    /\ PendingBatchBound
    /\ ClaimsAgree
    /\ ClaimIds
    /\ ReadResults

\* Where only the driver of a trip reports results, the row a result has read
\* is still the row it overwrites.
ReadStands == \A e \in applying : ship[ResultOf[e].order].status = "DISPATCHED"

ResultInv ==
    /\ FulInv
    /\ ReadStands
    /\ AppliedResultShows

-----------------------------------------------------------------------------
(* What a step has to leave alone *)

\* The rows of the tables.
LEMMA Rows ==
    ASSUME FulInv, NEW o \in Orders
    PROVE  /\ ship[o] \in ShipRow
           /\ intent[o] \in IntentRow
           /\ ship[o].status \in Gone <=> intent[o].status = "COMPLETED"
           /\ \/ ship[o].trip = NoTrip /\ ship[o].claim = NoClaim
              \/ ship[o].trip \in Trips /\ ship[o].claim \in Claims
  <1>1. FulfillmentTypeOK /\ LeftByIntent /\ ClaimsAgree
    BY DEF FulInv
  <1>2. CASE ship[o].trip = NoTrip /\ ship[o].claim = NoClaim
    BY <1>1, <1>2 DEF FulfillmentTypeOK, LeftByIntent
  <1>3. ASSUME NEW a \in Actors, Receipted(ship[o].claim, o, ship[o].trip, a) \in claims
        PROVE  ship[o].trip \in Trips /\ ship[o].claim \in Claims
    <2>1. Receipted(ship[o].claim, o, ship[o].trip, a) \in ClaimRow
      BY <1>1, <1>3 DEF FulfillmentTypeOK
    <2>2. QED
      BY <2>1 DEF Receipted, ClaimRow
  <1>4. QED
    BY <1>1, <1>2, <1>3 DEF FulfillmentTypeOK, LeftByIntent, ClaimsAgree

\* A write of the row keeps its type.
LEMMA BumpedRow ==
    ASSUME NEW row \in ShipRow
    PROVE  /\ Bumped(row) \in ShipRow
           /\ Bumped(row).status = row.status
           /\ Bumped(row).trip = row.trip
           /\ Bumped(row).claim = row.claim
           /\ Bumped(row).group = row.group
           /\ Bumped(row).version = row.version + 1
  BY DEF Bumped, ShipRow

\* The event of a write.
LEMMA EventTyped ==
    ASSUME FulInv, NEW o \in Orders, NEW r \in Requests \cup {NoRequest},
           NEW type \in {"ShipmentPicking", "ShipmentReady", "ShipmentDispatched",
                         "ShipmentDelivered", "ShipmentFailed", "ShipmentCanceled",
                         "ShipmentCancelRejected"}
    PROVE  Event(type, o, r) \in ShipEvent
  <1>1. ship[o].version \in Nat /\ ship[o].group \in Nat
    BY Rows DEF ShipRow
  <1>2. QED
    BY <1>1 DEF Event, ShipEvent

\* A step that neither leaves nor enters the road and completes no intent.
LEMMA LeftFrame ==
    ASSUME FulInv,
           \A o \in Orders :
              /\ ship'[o].status \in Gone <=> ship[o].status \in Gone
              /\ intent'[o].status = "COMPLETED" <=> intent[o].status = "COMPLETED"
    PROVE  LeftByIntent'
  BY DEF FulInv, LeftByIntent

\* A pending batch looks at the status and trip of its shipments and at their
\* intents, which are the pending ones with the batch on them.
LEMMA BatchFrame ==
    ASSUME FulInv, dispatch' = dispatch,
           \A o \in Orders : BatchPending(o) /\ ship[o].status = "READY_TO_SHIP" =>
              /\ ship'[o].status = ship[o].status
              /\ ship'[o].trip = ship[o].trip
              /\ intent'[o] = intent[o]
    PROVE  PendingBatchBound'
  <1> SUFFICES ASSUME NEW b \in Batches, dispatch'[b].status = "PENDING",
                      NEW o \in Members(dispatch'[b].child)
               PROVE  /\ Bound(b, o)'
                      /\ intent'[o].status = "PENDING" /\ intent'[o].batch = b
                      /\ dispatch'[b].decision = "GRANTED" => intent'[o].receipt
    BY DEF PendingBatchBound
  <1>1. o \in Orders /\ o \in Members(dispatch[b].child) /\ dispatch[b].status = "PENDING"
    BY DEF Members
  <1>2. /\ Bound(b, o)
        /\ intent[o].status = "PENDING" /\ intent[o].batch = b
        /\ dispatch[b].decision = "GRANTED" => intent[o].receipt
    BY <1>1 DEF FulInv, PendingBatchBound
  <1>3. b # NoBatch
    BY FulfillmentAssumption
  <1>4. BatchPending(o) /\ ship[o].status = "READY_TO_SHIP"
    BY <1>2, <1>3 DEF BatchPending, Bound
  <1>5. ship'[o].status = ship[o].status /\ ship'[o].trip = ship[o].trip
        /\ intent'[o] = intent[o]
    BY <1>1, <1>4
  <1>6. QED
    BY <1>2, <1>5 DEF Bound

\* Receipts and rows that do not change agree as before.
LEMMA ClaimFrame ==
    ASSUME FulInv, claims' = claims,
           \A o \in Orders : /\ ship'[o].trip = ship[o].trip
                             /\ ship'[o].claim = ship[o].claim
    PROVE  ClaimsAgree' /\ ClaimIds'
  <1>1. \A k \in claims : k.order \in Orders
    BY DEF FulInv, FulfillmentTypeOK, ClaimRow
  <1>2. ClaimIds'
    BY DEF FulInv, ClaimIds
  <1>3. ASSUME NEW o \in Orders
        PROVE  \/ ship'[o].trip = NoTrip /\ ship'[o].claim = NoClaim
               \/ \E a \in Actors : Receipted(ship'[o].claim, o, ship'[o].trip, a) \in claims'
    BY DEF FulInv, ClaimsAgree
  <1>4. \A k \in claims' : k.released = 0 => ship'[k.order].claim = k.id
    BY <1>1 DEF FulInv, ClaimsAgree
  <1>5. QED
    BY <1>2, <1>3, <1>4 DEF ClaimsAgree

\* What has left stays away, and stays on its trip.
LEMMA ReadFrame ==
    ASSUME FulInv, applying' \subseteq applying,
           \A o \in Orders : ship[o].status \in Gone =>
              ship'[o].status \in Gone /\ ship'[o].trip = ship[o].trip
    PROVE  ReadResults'
  <1>1. \A e \in applying : ResultOf[e].order \in Orders
    BY FulfillmentAssumption DEF FulInv, FulfillmentTypeOK, ResultContent
  <1>2. \A e, f \in applying : Stop(e) = Stop(f) => e = f
    BY DEF FulInv, ReadResults
  <1>3. \A e, f \in applying' : Stop(e)' = Stop(f)' => e = f
    BY <1>2 DEF Stop
  <1>4. QED
    BY <1>1, <1>3 DEF FulInv, ReadResults

-----------------------------------------------------------------------------
(* The steps on one shipment *)

\* An event of order-service creates a shipment or changes nothing of it.
LEMMA OrderConfirmedStep ==
    ASSUME FulInv, NEW o \in Orders, NEW v \in Nat, NEW g \in Nat, OrderConfirmed(o, v, g)
    PROVE  FulInv'
  <1>1. ship[o] \in ShipRow
    BY Rows
  <1>2. FulfillmentTypeOK'
    <2>1. ship' \in [Orders -> ShipRow]
      <3>1. CASE ship[o].status = "NONE"
        <4> DEFINE new == [ship[o] EXCEPT !.status = "PENDING_PICK", !.group = g,
                                          !.version = 1]
        <4>1. ship' = [ship EXCEPT ![o] = new]
          BY <3>1, <1>1 DEF OrderConfirmed, FulInv, FulfillmentTypeOK, ShipRow
        <4>2. new \in ShipRow
          BY <1>1 DEF ShipRow
        <4> HIDE DEF new
        <4>3. QED
          BY <4>1, <4>2 DEF FulInv, FulfillmentTypeOK
      <3>2. CASE ship[o].status # "NONE"
        BY <3>2 DEF OrderConfirmed, FulInv, FulfillmentTypeOK
      <3>3. QED
        BY <3>1, <3>2
    <2>2. cursor' \in [Orders -> [version : Nat, canceled : BOOLEAN]]
      BY DEF OrderConfirmed, Advance, FulInv, FulfillmentTypeOK
    <2>3. shipLog' \subseteq ShipEvent
      BY DEF OrderConfirmed, FulInv, FulfillmentTypeOK, ShipEvent
    <2>4. QED
      BY <2>1, <2>2, <2>3 DEF OrderConfirmed, FulInv, FulfillmentTypeOK
  <1>3. \A p \in Orders :
           /\ ship'[p].trip = ship[p].trip /\ ship'[p].claim = ship[p].claim
           /\ ship'[p].status \in Gone <=> ship[p].status \in Gone
           /\ ship[p].status # "NONE" => ship'[p].status = ship[p].status
    <2>1. CASE ship[o].status = "NONE"
      <3> DEFINE new == [ship[o] EXCEPT !.status = "PENDING_PICK", !.group = g, !.version = 1]
      <3>1. ship' = [ship EXCEPT ![o] = new]
        BY <2>1, <1>1 DEF OrderConfirmed, FulInv, FulfillmentTypeOK, ShipRow
      <3>2. /\ new.trip = ship[o].trip /\ new.claim = ship[o].claim
            /\ new.status = "PENDING_PICK"
        BY <1>1 DEF ShipRow
      <3> HIDE DEF new
      <3>3. QED
        BY <2>1, <3>1, <3>2 DEF FulInv, FulfillmentTypeOK, Gone
    <2>2. CASE ship[o].status # "NONE"
      BY <2>2 DEF OrderConfirmed
    <2>3. QED
      BY <2>1, <2>2
  <1>4. intent' = intent /\ dispatch' = dispatch /\ claims' = claims /\ applying' = applying
    BY DEF OrderConfirmed
  <1>5. QED
    BY <1>2, <1>3, <1>4, LeftFrame, BatchFrame, ClaimFrame, ReadFrame
    DEF FulInv

\* A cancellation ends a shipment that is still here, and passes by a batch
\* that waits for its decision.
LEMMA OrderCanceledStep ==
    ASSUME FulInv, NEW o \in Orders, NEW v \in Nat, OrderCanceled(o, v)
    PROVE  FulInv'
  <1>1. ship[o] \in ShipRow /\ intent[o] \in IntentRow
    BY Rows
  <1>2. CASE ship[o].status \in {"NONE", "CANCELED"}
    <2>1. UNCHANGED <<ship, intent, dispatch, claims, result, applying, shipLog>>
      BY <1>2 DEF OrderCanceled, Gone
    <2>2. cursor' \in [Orders -> [version : Nat, canceled : BOOLEAN]]
      BY DEF OrderCanceled, Advance, FulInv, FulfillmentTypeOK
    <2>3. FulfillmentTypeOK'
      BY <2>1, <2>2 DEF FulInv, FulfillmentTypeOK
    <2>4. QED
      BY <2>1, <2>3, LeftFrame, BatchFrame, ClaimFrame, ReadFrame DEF FulInv
  <1>3. CASE ship[o].status \notin {"NONE", "CANCELED"}
    <2> DEFINE row == IF ship[o].status \in Gone THEN ship[o]
                      ELSE [ship[o] EXCEPT !.status = "CANCELED"]
    <2>1. /\ row \in ShipRow
          /\ row.trip = ship[o].trip /\ row.claim = ship[o].claim
          /\ row.status \in Gone <=> ship[o].status \in Gone
      BY <1>1 DEF ShipRow, Gone, Terminal
    <2>2. ship' = [ship EXCEPT ![o] = Bumped(row)]
      BY <1>3 DEF OrderCanceled, Write, Gone
    <2>3. /\ intent' \in [Orders -> IntentRow]
          /\ \A p \in Orders : /\ p # o => intent'[p] = intent[p]
                               /\ intent'[p].status = "COMPLETED"
                                    <=> intent[p].status = "COMPLETED"
      <3>1. CASE ship[o].status \in Gone
        BY <1>3, <3>1 DEF OrderCanceled, FulInv, FulfillmentTypeOK, Gone
      <3>2. CASE ship[o].status \notin Gone
        <4>1. intent' = [intent EXCEPT ![o].status =
                           IF @ = "PENDING" THEN "REJECTED" ELSE @]
          BY <1>3, <3>2 DEF OrderCanceled
        <4>2. QED
          BY <1>1, <4>1 DEF FulInv, FulfillmentTypeOK, IntentRow
      <3>3. QED
        BY <3>1, <3>2
    <2>4. \E type \in {"ShipmentCanceled", "ShipmentCancelRejected"} :
             shipLog' = shipLog \cup {Event(type, o, NoRequest)}
      BY <1>3 DEF OrderCanceled, Record, Gone
    <2>5. shipLog' \subseteq ShipEvent
      BY <2>4, EventTyped DEF FulInv, FulfillmentTypeOK
    <2>6. cursor' \in [Orders -> [version : Nat, canceled : BOOLEAN]]
      BY DEF OrderCanceled, Advance, FulInv, FulfillmentTypeOK
    <2>7. ~BatchPending(o) /\ UNCHANGED <<dispatch, claims, result, applying>>
      BY DEF OrderCanceled
    <2> HIDE DEF row
    <2>8. FulfillmentTypeOK'
      BY <2>1, <2>2, <2>3, <2>5, <2>6, <2>7, BumpedRow DEF FulInv, FulfillmentTypeOK
    <2>9. \A p \in Orders :
             /\ ship'[p].trip = ship[p].trip /\ ship'[p].claim = ship[p].claim
             /\ ship'[p].status \in Gone <=> ship[p].status \in Gone
             /\ p # o => ship'[p] = ship[p]
      BY <2>1, <2>2, BumpedRow DEF FulInv, FulfillmentTypeOK
    <2>10. QED
      BY <2>3, <2>7, <2>8, <2>9, LeftFrame, BatchFrame, ClaimFrame, ReadFrame DEF FulInv
  <1>4. QED
    BY <1>2, <1>3

\* A write that keeps a shipment here or away, and on its trip, disturbs neither
\* a batch nor a claim nor a result, as long as no batch waits for it.
LEMMA RowStep ==
    ASSUME FulInv, NEW o \in Orders, NEW row \in ShipRow,
           ship' = [ship EXCEPT ![o] = Bumped(row)],
           row.trip = ship[o].trip /\ row.claim = ship[o].claim,
           row.status \in Gone <=> ship[o].status \in Gone,
           ~(BatchPending(o) /\ ship[o].status = "READY_TO_SHIP"),
           UNCHANGED <<intent, dispatch, claims>>, applying' \subseteq applying
    PROVE  /\ ship' \in [Orders -> ShipRow]
           /\ LeftByIntent' /\ PendingBatchBound' /\ ClaimsAgree' /\ ClaimIds'
           /\ ReadResults'
  <1>1. /\ ship' \in [Orders -> ShipRow]
        /\ \A p \in Orders :
              /\ ship'[p].trip = ship[p].trip /\ ship'[p].claim = ship[p].claim
              /\ ship'[p].status \in Gone <=> ship[p].status \in Gone
              /\ p # o => ship'[p] = ship[p]
    BY BumpedRow DEF FulInv, FulfillmentTypeOK
  <1>2. QED
    BY <1>1, LeftFrame, BatchFrame, ClaimFrame, ReadFrame

\* A transition by hand: picking, ready, or the outcome of a delivery.
LEMMA TransitionStep ==
    ASSUME FulInv, NEW o \in Orders,
           NEW to \in {"PICKING", "READY_TO_SHIP"} \cup Outcomes, Transition(o, to)
    PROVE  FulInv'
  <1>1. ship[o] \in ShipRow
    BY Rows
  <1> DEFINE row == [ship[o] EXCEPT !.status = to]
  <1>2. ship[o].status = IF to = "PICKING" THEN "PENDING_PICK"
                         ELSE IF to = "READY_TO_SHIP" THEN "PICKING" ELSE "DISPATCHED"
    BY DEF Transition, canMove, TRANSITIONS, Outcomes
  <1>3. /\ row \in ShipRow
        /\ row.trip = ship[o].trip /\ row.claim = ship[o].claim
        /\ row.status \in Gone <=> ship[o].status \in Gone
    BY <1>1, <1>2 DEF ShipRow, Gone, Terminal, Outcomes
  <1>4. /\ ship' = [ship EXCEPT ![o] = Bumped(row)]
        /\ shipLog' = shipLog \cup {Event(EventOf(to), o, NoRequest)}
        /\ ~BatchPending(o)
        /\ UNCHANGED <<intent, dispatch, claims, cursor, result, applying>>
    BY DEF Transition, Write, Record, BatchPending
  <1>5. EventOf(to) \in {"ShipmentPicking", "ShipmentReady", "ShipmentDelivered",
                         "ShipmentFailed"}
    BY DEF EventOf, Outcomes
  <1>6. shipLog' \subseteq ShipEvent
    BY <1>4, <1>5, EventTyped DEF FulInv, FulfillmentTypeOK
  <1> HIDE DEF row
  <1>7. /\ ship' \in [Orders -> ShipRow]
        /\ LeftByIntent' /\ PendingBatchBound' /\ ClaimsAgree' /\ ClaimIds' /\ ReadResults'
    BY <1>3, <1>4, RowStep
  <1>8. QED
    BY <1>4, <1>6, <1>7 DEF FulInv, FulfillmentTypeOK

\* A dispatch starts for a shipment that no batch waits for.
LEMMA StartDispatchStep ==
    ASSUME FulInv, NEW o \in Orders, NEW r \in Requests, NEW quoted \in Nat,
           StartDispatch(o, r, quoted)
    PROVE  FulInv'
  <1> DEFINE new == [id |-> r, status |-> "PENDING", quoted |-> quoted,
                     batch |-> NoBatch, receipt |-> FALSE]
  <1>1. new \in IntentRow /\ new.status = "PENDING"
    BY DEF IntentRow
  <1>2. /\ intent' = [intent EXCEPT ![o] = new]
        /\ UNCHANGED <<ship, dispatch, claims, cursor, result, applying, shipLog>>
        /\ intent[o].status \in {"NONE", "REJECTED"}
    BY DEF StartDispatch, IntentFree
  <1> HIDE DEF new
  <1>3. FulfillmentTypeOK'
    BY <1>1, <1>2 DEF FulInv, FulfillmentTypeOK
  <1>4. \A p \in Orders : /\ intent'[p].status = "COMPLETED" <=> intent[p].status = "COMPLETED"
                          /\ BatchPending(p) => intent'[p] = intent[p]
    BY <1>1, <1>2 DEF FulInv, FulfillmentTypeOK, BatchPending
  <1>5. QED
    BY <1>2, <1>3, <1>4, LeftFrame, BatchFrame, ClaimFrame, ReadFrame DEF FulInv

\* A refusal ends an intent that belongs to no batch.
LEMMA RejectDispatchStep ==
    ASSUME FulInv, NEW o \in Orders, NEW r, ~BatchPending(o), RejectDispatch(o, r)
    PROVE  FulInv'
  <1> DEFINE new == [intent[o] EXCEPT !.status = "REJECTED"]
  <1>1. new \in IntentRow /\ new.status = "REJECTED"
    BY Rows DEF IntentRow
  <1>2. /\ intent' = [intent EXCEPT ![o] = new]
        /\ UNCHANGED <<ship, dispatch, claims, cursor, result, applying, shipLog>>
        /\ intent[o].status = "PENDING"
    BY DEF RejectDispatch, FulInv, FulfillmentTypeOK
  <1> HIDE DEF new
  <1>3. FulfillmentTypeOK'
    BY <1>1, <1>2 DEF FulInv, FulfillmentTypeOK
  <1>4. \A p \in Orders : /\ intent'[p].status = "COMPLETED" <=> intent[p].status = "COMPLETED"
                          /\ BatchPending(p) => intent'[p] = intent[p]
    BY <1>1, <1>2 DEF FulInv, FulfillmentTypeOK
  <1>5. QED
    BY <1>2, <1>3, <1>4, LeftFrame, BatchFrame, ClaimFrame, ReadFrame DEF FulInv

\* The shipment leaves and its intent is completed in one transaction.
LEMMA CommitDispatchStep ==
    ASSUME FulInv, NEW o \in Orders, NEW r \in Requests, ~BatchPending(o),
           CommitDispatch(o, r)
    PROVE  FulInv'
  <1> DEFINE row == [ship[o] EXCEPT !.status = "DISPATCHED"]
             new == [intent[o] EXCEPT !.status = "COMPLETED"]
  <1>1. new \in IntentRow /\ new.status = "COMPLETED"
    BY Rows DEF IntentRow
  <1>2. /\ row \in ShipRow /\ row.status = "DISPATCHED"
        /\ row.trip = ship[o].trip /\ row.claim = ship[o].claim
    BY Rows DEF ShipRow, Gone
  <1>3. /\ intent' = [intent EXCEPT ![o] = new]
        /\ ship' = [ship EXCEPT ![o] = Bumped(row)]
        /\ shipLog' = shipLog \cup {Event("ShipmentDispatched", o, r)}
        /\ UNCHANGED <<dispatch, claims, cursor, result, applying>>
        /\ ship[o].status = "READY_TO_SHIP"
    BY DEF CommitDispatch, Write, Record, canMove, TRANSITIONS, FulInv, FulfillmentTypeOK
  <1>4. shipLog' \subseteq ShipEvent
    BY <1>3, EventTyped DEF FulInv, FulfillmentTypeOK
  <1> HIDE DEF row, new
  <1>5. FulfillmentTypeOK'
    BY <1>1, <1>2, <1>3, <1>4, BumpedRow DEF FulInv, FulfillmentTypeOK
  <1>6. /\ \A p \in Orders \ {o} : ship'[p] = ship[p] /\ intent'[p] = intent[p]
        /\ ship'[o].status = "DISPATCHED" /\ intent'[o].status = "COMPLETED"
        /\ ship'[o].trip = ship[o].trip /\ ship'[o].claim = ship[o].claim
    BY <1>1, <1>2, <1>3, BumpedRow DEF FulInv, FulfillmentTypeOK
  <1>7. LeftByIntent'
    BY <1>6 DEF FulInv, LeftByIntent, Gone
  <1>8. \A p \in Orders : ship[p].status \in Gone => ship'[p].status \in Gone
    BY <1>3, <1>6 DEF Gone
  <1>9. QED
    BY <1>3, <1>5, <1>6, <1>7, <1>8, BatchFrame, ClaimFrame, ReadFrame DEF FulInv

\* A claim is made with a fresh receipt, on a shipment nobody holds.
LEMMA ClaimStep ==
    ASSUME FulInv, NEW c \in Claims, NEW o \in Orders, NEW t \in Trips, NEW a \in Actors,
           NEW v, Claim(c, o, t, a, v)
    PROVE  FulInv'
  <1> DEFINE row == [ship[o] EXCEPT !.trip = t, !.claim = c]
             k == Receipted(c, o, t, a)
  <1>1. /\ row \in ShipRow /\ row.status = ship[o].status
        /\ row.trip = t /\ row.claim = c
    BY Rows DEF ShipRow
  <1>2. /\ k \in ClaimRow /\ k.id = c /\ k.order = o
    BY DEF Receipted, ClaimRow
  <1>3. /\ ship' = [ship EXCEPT ![o] = Bumped(row)]
        /\ claims' = claims \cup {k}
        /\ UNCHANGED <<intent, dispatch, cursor, result, applying, shipLog>>
        /\ ship[o].status = "READY_TO_SHIP" /\ ship[o].claim = NoClaim
        /\ \A l \in claims : l.id # c
        /\ intent[o].status \in {"NONE", "REJECTED"}
    BY DEF Claim, Claimable, Write, IntentFree
  <1> HIDE DEF row, k
  <1>4. FulfillmentTypeOK'
    BY <1>1, <1>2, <1>3, BumpedRow DEF FulInv, FulfillmentTypeOK
  <1>5. /\ \A p \in Orders \ {o} : ship'[p] = ship[p]
        /\ ship'[o].status = ship[o].status /\ ship'[o].trip = t /\ ship'[o].claim = c
    BY <1>1, <1>3, BumpedRow DEF FulInv, FulfillmentTypeOK
  <1>6. ClaimIds'
    BY <1>2, <1>3 DEF FulInv, ClaimIds
  <1>7. ClaimsAgree'
    <2>1. ASSUME NEW p \in Orders
          PROVE  \/ ship'[p].trip = NoTrip /\ ship'[p].claim = NoClaim
                 \/ \E b \in Actors :
                       Receipted(ship'[p].claim, p, ship'[p].trip, b) \in claims'
      <3>1. CASE p = o
        BY <1>3, <1>5, <3>1 DEF k
      <3>2. CASE p # o
        BY <1>3, <1>5, <3>2 DEF FulInv, ClaimsAgree
      <3>3. QED
        BY <3>1, <3>2
    <2>2. ASSUME NEW l \in claims, l.released = 0
          PROVE  l.order \in Orders \ {o} /\ ship[l.order].claim = l.id
      <3>1. l.order \in Orders /\ l.id \in Claims /\ ship[l.order].claim = l.id
        BY <2>2 DEF FulInv, FulfillmentTypeOK, ClaimRow, ClaimsAgree
      <3>2. QED
        BY <1>3, <3>1, FulfillmentAssumption
    <2>3. \A l \in claims' : l.released = 0 => ship'[l.order].claim = l.id
      BY <1>2, <1>3, <1>5, <2>2
    <2>4. QED
      BY <2>1, <2>3 DEF ClaimsAgree
  <1>8. /\ \A p \in Orders : ship[p].status \in Gone =>
              ship'[p].status \in Gone /\ ship'[p].trip = ship[p].trip
        /\ \A p \in Orders : ship'[p].status \in Gone <=> ship[p].status \in Gone
        /\ \A p \in Orders : BatchPending(p) =>
              ship'[p].status = ship[p].status /\ ship'[p].trip = ship[p].trip
    BY <1>3, <1>5 DEF BatchPending, Gone
  <1>9. QED
    BY <1>3, <1>4, <1>6, <1>7, <1>8, LeftFrame, BatchFrame, ReadFrame DEF FulInv

\* A release gives back the one receipt of its claim.
LEMMA ReleaseStep ==
    ASSUME FulInv, NEW c \in Claims, NEW o \in Orders, NEW t \in Trips, NEW a \in Actors,
           NEW v, NEW n \in Nat \ {0}, Release(c, o, t, a, v, n)
    PROVE  FulInv'
  <1> DEFINE row == [ship[o] EXCEPT !.trip = NoTrip, !.claim = NoClaim]
             k == Receipted(c, o, t, a)
             m == [k EXCEPT !.released = n]
  <1>1. /\ row \in ShipRow /\ row.status = ship[o].status
        /\ row.trip = NoTrip /\ row.claim = NoClaim
    BY Rows DEF ShipRow
  <1>2. /\ k.id = c /\ k.order = o
        /\ m \in ClaimRow /\ m.id = c /\ m.released = n
    BY DEF Receipted, ClaimRow
  <1>3. /\ ship' = [ship EXCEPT ![o] = Bumped(row)]
        /\ k \in claims /\ claims' = (claims \ {k}) \cup {m}
        /\ UNCHANGED <<intent, dispatch, cursor, result, applying, shipLog>>
        /\ ship[o].status \in {"READY_TO_SHIP", "CANCELED"} /\ ship[o].claim = c
        /\ intent[o].status \in {"NONE", "REJECTED"}
    BY DEF Release, Releasable, ReleasedBy, Write, IntentFree
  <1>4. \A p \in Orders, b \in Actors : \A d, u : p # o => Receipted(d, p, u, b) # k
    BY DEF Receipted
  <1> HIDE DEF row, k, m
  <1>5. FulfillmentTypeOK'
    BY <1>1, <1>2, <1>3, BumpedRow DEF FulInv, FulfillmentTypeOK
  <1>6. /\ \A p \in Orders \ {o} : ship'[p] = ship[p]
        /\ ship'[o].status = ship[o].status
        /\ ship'[o].trip = NoTrip /\ ship'[o].claim = NoClaim
    BY <1>1, <1>3, BumpedRow DEF FulInv, FulfillmentTypeOK
  <1>7. \A l \in claims \ {k} : l.id # c
    BY <1>2, <1>3 DEF FulInv, ClaimIds
  <1>8. ClaimIds'
    BY <1>2, <1>3, <1>7 DEF FulInv, ClaimIds
  <1>9. ClaimsAgree'
    <2>1. ASSUME NEW p \in Orders
          PROVE  \/ ship'[p].trip = NoTrip /\ ship'[p].claim = NoClaim
                 \/ \E b \in Actors :
                       Receipted(ship'[p].claim, p, ship'[p].trip, b) \in claims'
      <3>1. CASE p = o
        BY <1>6, <3>1
      <3>2. CASE p # o
        <4>1. \/ ship[p].trip = NoTrip /\ ship[p].claim = NoClaim
              \/ \E b \in Actors : Receipted(ship[p].claim, p, ship[p].trip, b) \in claims
          BY DEF FulInv, ClaimsAgree
        <4>2. QED
          BY <1>3, <1>4, <1>6, <3>2, <4>1
      <3>3. QED
        BY <3>1, <3>2
    <2>2. ASSUME NEW l \in claims', l.released = 0
          PROVE  ship'[l.order].claim = l.id
      <3>1. l \in claims \ {k} /\ l.id # c
        BY <1>2, <1>3, <1>7, <2>2
      <3>2. l.order \in Orders /\ ship[l.order].claim = l.id
        BY <2>2, <3>1 DEF FulInv, FulfillmentTypeOK, ClaimRow, ClaimsAgree
      <3>3. QED
        BY <1>3, <1>6, <3>1, <3>2
    <2>3. QED
      BY <2>1, <2>2 DEF ClaimsAgree
  <1>10. /\ \A p \in Orders : ship[p].status \in Gone =>
              ship'[p].status \in Gone /\ ship'[p].trip = ship[p].trip
         /\ \A p \in Orders : ship'[p].status \in Gone <=> ship[p].status \in Gone
         /\ \A p \in Orders : BatchPending(p) =>
              ship'[p].status = ship[p].status /\ ship'[p].trip = ship[p].trip
    BY <1>3, <1>6 DEF BatchPending, Gone
  <1>11. QED
    BY <1>3, <1>5, <1>8, <1>9, <1>10, LeftFrame, BatchFrame, ReadFrame DEF FulInv

-----------------------------------------------------------------------------
(* The steps of a batch *)

\* A waiting batch and a shipment of it.
LEMMA Waiting ==
    ASSUME FulInv, NEW b \in Batches, dispatch[b].status = "PENDING",
           NEW o \in Members(dispatch[b].child)
    PROVE  /\ o \in Orders
           /\ ship[o].status = "READY_TO_SHIP"
           /\ ship[o].trip = dispatch[b].trip
           /\ intent[o].id = dispatch[b].child[o]
           /\ intent[o].status = "PENDING"
           /\ intent[o].batch = b
           /\ dispatch[b].decision = "GRANTED" => intent[o].receipt
  BY DEF FulInv, PendingBatchBound, Bound, Members

\* A step of batch b leaves the other waiting batches alone when it touches
\* only shipments that are free or that wait for b.
LEMMA OtherBatches ==
    ASSUME FulInv, NEW b \in Batches, NEW d \in Batches, d # b,
           dispatch[d].status = "PENDING",
           \A x \in Batches \ {b} : dispatch'[x] = dispatch[x],
           \A o \in Orders :
              \/ intent[o].status \in {"NONE", "REJECTED"}
              \/ intent[o].batch = b
              \/ /\ intent'[o] = intent[o] /\ ship'[o] = ship[o]
    PROVE  \A o \in Members(dispatch[d].child) :
              /\ Bound(d, o)'
              /\ intent'[o].status = "PENDING" /\ intent'[o].batch = d
              /\ dispatch'[d].decision = "GRANTED" => intent'[o].receipt
  <1> SUFFICES ASSUME NEW o \in Members(dispatch[d].child)
               PROVE  /\ Bound(d, o)'
                      /\ intent'[o].status = "PENDING" /\ intent'[o].batch = d
                      /\ dispatch'[d].decision = "GRANTED" => intent'[o].receipt
    OBVIOUS
  <1>1. /\ o \in Orders
        /\ ship[o].status = "READY_TO_SHIP"
        /\ ship[o].trip = dispatch[d].trip
        /\ intent[o].id = dispatch[d].child[o]
        /\ intent[o].status = "PENDING"
        /\ intent[o].batch = d
        /\ dispatch[d].decision = "GRANTED" => intent[o].receipt
    BY Waiting
  <1>2. intent'[o] = intent[o] /\ ship'[o] = ship[o]
    BY <1>1
  <1>3. QED
    BY <1>1, <1>2 DEF Bound

\* A batch is stored with the intents of all its shipments, or rejected.
LEMMA StartBatchStep ==
    ASSUME FulInv, NEW b \in Batches, NEW t \in Trips, NEW child \in Children,
           NEW quoted \in [Orders -> Nat], NEW stale,
           StartBatch(b, t, child, quoted, stale)
    PROVE  FulInv'
  <1> DEFINE ok == \A o \in Members(child) : InBatchOf(o, t) /\ o \notin stale
             new == [status |-> IF ok THEN "PENDING" ELSE "REJECTED",
                     decision |-> "NONE", trip |-> t, child |-> child]
             fresh(o) == [id |-> child[o], status |-> "PENDING", quoted |-> quoted[o],
                          batch |-> b, receipt |-> FALSE]
  <1>1. /\ new \in BatchDispatch /\ new.child = child /\ new.decision = "NONE"
        /\ new.trip = t /\ (new.status = "PENDING" => ok)
    BY DEF BatchDispatch
  <1>2. ASSUME NEW o \in Orders
        PROVE  /\ fresh(o) \in IntentRow /\ fresh(o).status = "PENDING"
               /\ fresh(o).batch = b /\ fresh(o).id = child[o]
    BY DEF IntentRow, Children
  <1>3. /\ dispatch' = [dispatch EXCEPT ![b] = new]
        /\ UNCHANGED <<ship, claims, cursor, result, applying, shipLog>>
        /\ \A o \in Members(child) :
              ok => /\ ship[o].trip = t /\ ship[o].status = "READY_TO_SHIP"
                    /\ intent[o].status \in {"NONE", "REJECTED"}
    BY DEF StartBatch, InBatchOf, IntentFree
  <1>4. intent' = [o \in Orders |-> IF ok /\ o \in Members(child) THEN fresh(o)
                                    ELSE intent[o]]
    BY DEF StartBatch
  <1> HIDE DEF ok, new, fresh
  <1>5. \A o \in Orders : /\ ok /\ o \in Members(child) => intent'[o] = fresh(o)
                          /\ ~(ok /\ o \in Members(child)) => intent'[o] = intent[o]
    BY <1>4
  <1>6. FulfillmentTypeOK'
    <2>1. intent' \in [Orders -> IntentRow]
      BY <1>2, <1>4 DEF FulInv, FulfillmentTypeOK
    <2>2. dispatch' \in [Batches -> BatchDispatch]
      BY <1>1, <1>3 DEF FulInv, FulfillmentTypeOK
    <2>3. QED
      BY <1>3, <2>1, <2>2 DEF FulInv, FulfillmentTypeOK
  <1>7. \A o \in Orders : intent'[o].status = "COMPLETED" <=> intent[o].status = "COMPLETED"
    <2> SUFFICES ASSUME NEW o \in Orders
                 PROVE  intent'[o].status = "COMPLETED" <=> intent[o].status = "COMPLETED"
      OBVIOUS
    <2>1. CASE ok /\ o \in Members(child)
      BY <1>2, <1>3, <1>5, <2>1
    <2>2. CASE ~(ok /\ o \in Members(child))
      BY <1>5, <2>2
    <2>3. QED
      BY <2>1, <2>2
  <1>8. PendingBatchBound'
    <2> SUFFICES ASSUME NEW d \in Batches, dispatch'[d].status = "PENDING"
                 PROVE  \A o \in Members(dispatch'[d].child) :
                           /\ Bound(d, o)'
                           /\ intent'[o].status = "PENDING" /\ intent'[o].batch = d
                           /\ dispatch'[d].decision = "GRANTED" => intent'[o].receipt
      BY DEF PendingBatchBound
    <2>1. CASE d = b
      <3>1. dispatch'[d] = new
        BY <1>3, <2>1 DEF FulInv, FulfillmentTypeOK
      <3>2. ok
        BY <1>1, <3>1
      <3> SUFFICES ASSUME NEW o \in Members(child)
                   PROVE  /\ Bound(d, o)'
                          /\ intent'[o].status = "PENDING" /\ intent'[o].batch = d
                          /\ dispatch'[d].decision = "GRANTED" => intent'[o].receipt
        BY <1>1, <3>1
      <3>3. o \in Orders /\ intent'[o] = fresh(o)
        BY <1>5, <3>2 DEF Members
      <3>4. QED
        BY <1>1, <1>2, <1>3, <2>1, <3>1, <3>2, <3>3 DEF Bound
    <2>2. CASE d # b
      <3>1. \A x \in Batches \ {b} : dispatch'[x] = dispatch[x]
        BY <1>3 DEF FulInv, FulfillmentTypeOK
      <3>2. \A o \in Orders : \/ intent[o].status \in {"NONE", "REJECTED"}
                              \/ intent[o].batch = b
                              \/ intent'[o] = intent[o] /\ ship'[o] = ship[o]
        BY <1>3, <1>5
      <3>3. QED
        BY <2>2, <3>1, <3>2, OtherBatches
    <2>3. QED
      BY <2>1, <2>2
  <1>9. QED
    BY <1>3, <1>6, <1>7, <1>8, LeftFrame, ClaimFrame, ReadFrame DEF FulInv

\* The decision is stored with a receipt on every intent of the batch.
LEMMA StoreDecisionStep ==
    ASSUME FulInv, NEW b \in Batches, NEW decision \in {"GRANTED", "REJECTED"},
           StoreDecision(b, decision)
    PROVE  FulInv'
  <1> DEFINE new == [dispatch[b] EXCEPT !.decision = decision]
             got(o) == [intent[o] EXCEPT !.receipt = TRUE]
             S == Members(dispatch[b].child)
  <1>1. /\ new \in BatchDispatch /\ new.child = dispatch[b].child
        /\ new.decision = decision /\ new.trip = dispatch[b].trip
    BY DEF BatchDispatch, FulInv, FulfillmentTypeOK
  <1>2. ASSUME NEW o \in Orders
        PROVE  /\ got(o) \in IntentRow /\ got(o).status = intent[o].status
               /\ got(o).batch = intent[o].batch /\ got(o).id = intent[o].id
               /\ got(o).receipt
    BY Rows DEF IntentRow
  <1>3. /\ dispatch' = [dispatch EXCEPT ![b] = new]
        /\ dispatch[b].status = "PENDING"
        /\ UNCHANGED <<ship, claims, cursor, result, applying, shipLog>>
    BY DEF StoreDecision, FulInv, FulfillmentTypeOK
  <1>4. intent' = [o \in Orders |-> IF decision = "GRANTED" /\ o \in S THEN got(o)
                                    ELSE intent[o]]
    BY DEF StoreDecision
  <1>5. \A o \in S : o \in Orders
    BY DEF Members
  <1> HIDE DEF new, got, S
  <1>6. \A o \in Orders :
           /\ decision = "GRANTED" /\ o \in S => intent'[o] = got(o)
           /\ ~(decision = "GRANTED" /\ o \in S) => intent'[o] = intent[o]
    BY <1>4
  <1>7. FulfillmentTypeOK'
    <2>1. intent' \in [Orders -> IntentRow]
      BY <1>2, <1>4 DEF FulInv, FulfillmentTypeOK
    <2>2. dispatch' \in [Batches -> BatchDispatch]
      BY <1>1, <1>3 DEF FulInv, FulfillmentTypeOK
    <2>3. QED
      BY <1>3, <2>1, <2>2 DEF FulInv, FulfillmentTypeOK
  <1>8. \A o \in Orders : /\ intent'[o].status = intent[o].status
                          /\ intent'[o].batch = intent[o].batch
                          /\ intent'[o].id = intent[o].id
                          /\ intent[o].receipt => intent'[o].receipt
                          /\ decision = "GRANTED" /\ o \in S => intent'[o].receipt
    BY <1>2, <1>6
  <1>9. PendingBatchBound'
    <2> SUFFICES ASSUME NEW d \in Batches, dispatch'[d].status = "PENDING",
                        NEW o \in Members(dispatch'[d].child)
                 PROVE  /\ Bound(d, o)'
                        /\ intent'[o].status = "PENDING" /\ intent'[o].batch = d
                        /\ dispatch'[d].decision = "GRANTED" => intent'[o].receipt
      BY DEF PendingBatchBound
    <2>1. /\ dispatch[d].status = "PENDING" /\ dispatch'[d].child = dispatch[d].child
          /\ dispatch'[d].trip = dispatch[d].trip
          /\ d = b => dispatch'[d].decision = decision
          /\ d # b => dispatch'[d].decision = dispatch[d].decision
      BY <1>1, <1>3 DEF FulInv, FulfillmentTypeOK
    <2>2. /\ o \in Orders
          /\ ship[o].status = "READY_TO_SHIP"
          /\ ship[o].trip = dispatch[d].trip
          /\ intent[o].id = dispatch[d].child[o]
          /\ intent[o].status = "PENDING"
          /\ intent[o].batch = d
          /\ dispatch[d].decision = "GRANTED" => intent[o].receipt
      BY <2>1, Waiting
    <2>3. d = b => o \in S
      BY <2>1 DEF S
    <2>4. QED
      BY <1>3, <1>8, <2>1, <2>2, <2>3 DEF Bound
  <1>10. QED
    BY <1>3, <1>7, <1>8, <1>9, LeftFrame, ClaimFrame, ReadFrame DEF FulInv

\* All shipments of a granted batch leave in one transaction.
LEMMA CommitBatchStep ==
    ASSUME FulInv, NEW b \in Batches, CommitBatch(b)
    PROVE  FulInv'
  <1> DEFINE new == [dispatch[b] EXCEPT !.status = "COMPLETED"]
             S == Members(dispatch[b].child)
             row(o) == [ship[o] EXCEPT !.status = "DISPATCHED"]
             done(o) == [intent[o] EXCEPT !.status = "COMPLETED"]
  <1>1. new \in BatchDispatch /\ new.status = "COMPLETED"
    BY DEF BatchDispatch, FulInv, FulfillmentTypeOK
  <1>2. ASSUME NEW o \in Orders
        PROVE  /\ done(o) \in IntentRow /\ done(o).status = "COMPLETED"
               /\ row(o) \in ShipRow /\ row(o).status = "DISPATCHED"
               /\ row(o).trip = ship[o].trip /\ row(o).claim = ship[o].claim
    BY Rows DEF IntentRow, ShipRow, Gone
  <1>3. /\ dispatch' = [dispatch EXCEPT ![b] = new]
        /\ dispatch[b].status = "PENDING"
        /\ UNCHANGED <<claims, cursor, result, applying>>
    BY DEF CommitBatch, FulInv, FulfillmentTypeOK
  <1>4. /\ ship' = [o \in Orders |-> IF o \in S THEN Bumped(row(o)) ELSE ship[o]]
        /\ intent' = [o \in Orders |-> IF o \in S THEN done(o) ELSE intent[o]]
        /\ shipLog' = shipLog \cup
                        {Event("ShipmentDispatched", o, dispatch[b].child[o]) : o \in S}
    BY DEF CommitBatch
  <1>5. ASSUME NEW o \in S
        PROVE  /\ o \in Orders /\ ship[o].status = "READY_TO_SHIP" /\ intent[o].batch = b
               /\ dispatch[b].child[o] \in Requests
    <2>1. dispatch[b].child \in Children
      BY DEF FulInv, FulfillmentTypeOK, BatchDispatch
    <2>2. QED
      BY <1>3, <2>1, Waiting DEF Members, Children
  <1>6. shipLog' \subseteq ShipEvent
    <2>1. \A o \in S : Event("ShipmentDispatched", o, dispatch[b].child[o]) \in ShipEvent
      BY <1>5, EventTyped
    <2>2. QED
      BY <1>4, <2>1 DEF FulInv, FulfillmentTypeOK
  <1> HIDE DEF new, S, row, done
  <1>7. ASSUME NEW o \in Orders
        PROVE  /\ ship'[o] \in ShipRow /\ intent'[o] \in IntentRow
               /\ ship'[o].trip = ship[o].trip /\ ship'[o].claim = ship[o].claim
               /\ o \in S => ship'[o].status = "DISPATCHED" /\ intent'[o].status = "COMPLETED"
               /\ o \notin S => ship'[o] = ship[o] /\ intent'[o] = intent[o]
    <2>1. CASE o \in S
      <3>1. ship'[o] = Bumped(row(o)) /\ intent'[o] = done(o)
        BY <1>4, <2>1
      <3>2. QED
        BY <1>2, <2>1, <3>1, BumpedRow
    <2>2. CASE o \notin S
      BY <1>4, <2>2, Rows
    <2>3. QED
      BY <2>1, <2>2
  <1>8. FulfillmentTypeOK'
    <2>1. ship' \in [Orders -> ShipRow] /\ intent' \in [Orders -> IntentRow]
      BY <1>4, <1>7
    <2>2. dispatch' \in [Batches -> BatchDispatch]
      BY <1>1, <1>3 DEF FulInv, FulfillmentTypeOK
    <2>3. QED
      BY <1>3, <1>6, <2>1, <2>2 DEF FulInv, FulfillmentTypeOK
  <1>9. LeftByIntent'
    BY <1>7 DEF FulInv, LeftByIntent, Gone
  <1>10. PendingBatchBound'
    <2> SUFFICES ASSUME NEW d \in Batches, dispatch'[d].status = "PENDING"
                 PROVE  \A o \in Members(dispatch'[d].child) :
                           /\ Bound(d, o)'
                           /\ intent'[o].status = "PENDING" /\ intent'[o].batch = d
                           /\ dispatch'[d].decision = "GRANTED" => intent'[o].receipt
      BY DEF PendingBatchBound
    <2>1. /\ \A x \in Batches \ {b} : dispatch'[x] = dispatch[x]
          /\ d # b
      BY <1>1, <1>3 DEF FulInv, FulfillmentTypeOK
    <2>2. \A o \in Orders : \/ intent[o].status \in {"NONE", "REJECTED"}
                            \/ intent[o].batch = b
                            \/ intent'[o] = intent[o] /\ ship'[o] = ship[o]
      BY <1>5, <1>7
    <2>3. QED
      BY <2>1, <2>2, OtherBatches
  <1>11. \A o \in Orders : ship[o].status \in Gone => ship'[o].status \in Gone
    BY <1>5, <1>7 DEF Gone
  <1>12. QED
    BY <1>3, <1>7, <1>8, <1>9, <1>10, <1>11, ClaimFrame, ReadFrame DEF FulInv

\* A refused batch gives its shipments free.
LEMMA RejectBatchStep ==
    ASSUME FulInv, NEW b \in Batches, RejectBatch(b)
    PROVE  FulInv'
  <1> DEFINE new == [dispatch[b] EXCEPT !.status = "REJECTED"]
             S == {o \in Orders : /\ o \in Members(dispatch[b].child)
                                  /\ intent[o].id = dispatch[b].child[o]
                                  /\ intent[o].status = "PENDING"}
             ended(o) == [intent[o] EXCEPT !.status = "REJECTED"]
  <1>1. new \in BatchDispatch /\ new.status = "REJECTED"
    BY DEF BatchDispatch, FulInv, FulfillmentTypeOK
  <1>2. ASSUME NEW o \in Orders
        PROVE  ended(o) \in IntentRow /\ ended(o).status = "REJECTED"
    BY Rows DEF IntentRow
  <1>3. /\ dispatch' = [dispatch EXCEPT ![b] = new]
        /\ dispatch[b].status = "PENDING"
        /\ UNCHANGED <<ship, claims, cursor, result, applying, shipLog>>
    BY DEF RejectBatch, FulInv, FulfillmentTypeOK
  <1>4. intent' = [o \in Orders |-> IF o \in S THEN ended(o) ELSE intent[o]]
    BY DEF RejectBatch
  <1>5. ASSUME NEW o \in S
        PROVE  o \in Orders /\ intent[o].status = "PENDING" /\ intent[o].batch = b
    BY <1>3, Waiting
  <1> HIDE DEF new, S, ended
  <1>6. \A o \in Orders : /\ o \in S => intent'[o] = ended(o)
                          /\ o \notin S => intent'[o] = intent[o]
    BY <1>4
  <1>7. FulfillmentTypeOK'
    <2>1. intent' \in [Orders -> IntentRow]
      BY <1>2, <1>4 DEF FulInv, FulfillmentTypeOK
    <2>2. dispatch' \in [Batches -> BatchDispatch]
      BY <1>1, <1>3 DEF FulInv, FulfillmentTypeOK
    <2>3. QED
      BY <1>3, <2>1, <2>2 DEF FulInv, FulfillmentTypeOK
  <1>8. \A o \in Orders : intent'[o].status = "COMPLETED" <=> intent[o].status = "COMPLETED"
    BY <1>2, <1>5, <1>6
  <1>9. PendingBatchBound'
    <2> SUFFICES ASSUME NEW d \in Batches, dispatch'[d].status = "PENDING"
                 PROVE  \A o \in Members(dispatch'[d].child) :
                           /\ Bound(d, o)'
                           /\ intent'[o].status = "PENDING" /\ intent'[o].batch = d
                           /\ dispatch'[d].decision = "GRANTED" => intent'[o].receipt
      BY DEF PendingBatchBound
    <2>1. /\ \A x \in Batches \ {b} : dispatch'[x] = dispatch[x]
          /\ d # b
      BY <1>1, <1>3 DEF FulInv, FulfillmentTypeOK
    <2>2. \A o \in Orders : \/ intent[o].status \in {"NONE", "REJECTED"}
                            \/ intent[o].batch = b
                            \/ intent'[o] = intent[o] /\ ship'[o] = ship[o]
      BY <1>3, <1>5, <1>6
    <2>3. QED
      BY <2>1, <2>2, OtherBatches
  <1>10. QED
    BY <1>3, <1>7, <1>8, <1>9, LeftFrame, ClaimFrame, ReadFrame DEF FulInv

-----------------------------------------------------------------------------
(* The steps of a delivery result *)

\* A step that only decides what becomes of results.
LEMMA ResultOnly ==
    ASSUME FulInv,
           result' \in [Results -> {"NONE", "DEFERRED", "APPLIED", "DUPLICATE", "CONFLICT"}],
           applying' \subseteq applying,
           UNCHANGED <<ship, intent, dispatch, claims, cursor, shipLog>>
    PROVE  FulInv'
  <1>1. FulfillmentTypeOK'
    BY DEF FulInv, FulfillmentTypeOK
  <1>2. QED
    BY <1>1, LeftFrame, BatchFrame, ClaimFrame, ReadFrame DEF FulInv

\* The order of a result.
LEMMA ResultOrder ==
    ASSUME NEW e \in Results
    PROVE  /\ ResultOf[e].order \in Orders /\ ResultOf[e].trip \in Trips
           /\ ResultOf[e].outcome \in Outcomes /\ ResultOf[e].outcome \in Gone
           /\ ResultOf[e].trip # NoTrip
           /\ ResultOf[e].outcome # "DISPATCHED"
  BY FulfillmentAssumption DEF ResultContent, Outcomes, Gone

\* A result is written where it was read: on the road or past it.
LEMMA ResultWriteStep ==
    ASSUME FulInv, NEW e \in Results, ResultWrite(e)
    PROVE  FulInv'
  <1> DEFINE o == ResultOf[e].order
             row == [ship[o] EXCEPT !.status = ResultOf[e].outcome]
  <1>1. o \in Orders
    BY ResultOrder
  <1>2. /\ ship' = [ship EXCEPT ![o] = Bumped(row)]
        /\ shipLog' = shipLog \cup {Event(EventOf(ResultOf[e].outcome), o, NoRequest)}
        /\ result' = [result EXCEPT ![e] = "APPLIED"]
        /\ e \in applying /\ applying' \subseteq applying
        /\ UNCHANGED <<intent, dispatch, claims, cursor>>
    BY DEF ResultWrite, Write, Record
  <1>3. ship[o].status \in Gone
    BY <1>2 DEF FulInv, ReadResults
  <1>4. /\ row \in ShipRow
        /\ row.trip = ship[o].trip /\ row.claim = ship[o].claim
        /\ row.status \in Gone <=> ship[o].status \in Gone
    BY <1>1, <1>3, Rows, ResultOrder DEF ShipRow
  <1>5. EventOf(ResultOf[e].outcome) \in {"ShipmentDelivered", "ShipmentFailed"}
    BY ResultOrder DEF EventOf, Outcomes
  <1>6. shipLog' \subseteq ShipEvent
    BY <1>1, <1>2, <1>5, EventTyped DEF FulInv, FulfillmentTypeOK
  <1>7. ~(BatchPending(o) /\ ship[o].status = "READY_TO_SHIP")
    BY <1>3 DEF Gone
  <1> HIDE DEF o, row
  <1>8. /\ ship' \in [Orders -> ShipRow]
        /\ LeftByIntent' /\ PendingBatchBound' /\ ClaimsAgree' /\ ClaimIds' /\ ReadResults'
    BY <1>1, <1>2, <1>4, <1>7, RowStep
  <1>9. FulfillmentTypeOK'
    BY <1>2, <1>6, <1>8 DEF FulInv, FulfillmentTypeOK
  <1>10. QED
    BY <1>8, <1>9 DEF FulInv

\* The lock of the stop keeps a second result of it out.
LEMMA ResultReadStep ==
    ASSUME FulInv, NEW e \in Results, ResultRead(e)
    PROVE  FulInv' /\ ship[ResultOf[e].order].status = "DISPATCHED"
  <1>1. ship[ResultOf[e].order].status = "DISPATCHED"
    BY ResultOrder DEF ResultRead, canMove, TRANSITIONS, Outcomes
  <1>2. /\ UNCHANGED <<ship, intent, dispatch, claims, cursor, result, shipLog>>
        /\ applying' = applying \cup {e}
        /\ \A f \in applying : Stop(f) # Stop(e)
        /\ ship[ResultOf[e].order].trip = ResultOf[e].trip
    BY DEF ResultRead, Open
  <1>3. FulfillmentTypeOK'
    BY <1>2 DEF FulInv, FulfillmentTypeOK
  <1>4. ReadResults'
    <2>1. \A f \in applying' : /\ ship'[ResultOf[f].order].status \in Gone
                               /\ ship'[ResultOf[f].order].trip = ResultOf[f].trip
      BY <1>1, <1>2 DEF FulInv, ReadResults, Gone
    <2>2. \A f, g \in applying' : Stop(f) = Stop(g) => f = g
      BY <1>2 DEF FulInv, ReadResults
    <2>3. QED
      BY <2>1, <2>2 DEF ReadResults, Stop
  <1>5. QED
    BY <1>1, <1>2, <1>3, <1>4, LeftFrame, BatchFrame, ClaimFrame DEF FulInv

\* Every outcome of the handler of a delivery result.
LEMMA HandleResultStep ==
    ASSUME FulInv, NEW e \in Results, HandleResult(e)
    PROVE  FulInv'
  <1>1. result \in [Results -> {"NONE", "DEFERRED", "APPLIED", "DUPLICATE", "CONFLICT"}]
    BY DEF FulInv, FulfillmentTypeOK
  <1>2. ASSUME NEW outcome \in {"DUPLICATE", "CONFLICT", "DEFERRED"}, Receipt(e, outcome)
        PROVE  FulInv'
    BY <1>1, <1>2, ResultOnly DEF Receipt
  <1>3. CASE ResultDuplicate(e)
    BY <1>2, <1>3 DEF ResultDuplicate
  <1>4. CASE ResultConflict(e)
    <2>1. PICK f \in Rivals(e) :
             result' = [result EXCEPT ![e] = "CONFLICT",
                                      ![f] = IF @ = "DEFERRED" THEN "CONFLICT" ELSE @]
      BY <1>4 DEF ResultConflict
    <2>2. f \in Results /\ f # e
      BY DEF Rivals
    <2>3. QED
      BY <1>1, <1>4, <2>1, <2>2, ResultOnly DEF ResultConflict
  <1>5. CASE ResultMisplaced(e)
    BY <1>2, <1>5 DEF ResultMisplaced
  <1>6. CASE ResultDefer(e)
    BY <1>2, <1>6 DEF ResultDefer
  <1>7. CASE ResultAbort(e)
    BY <1>1, <1>7, ResultOnly DEF ResultAbort
  <1>8. QED
    BY <1>3, <1>4, <1>5, <1>6, <1>7, ResultReadStep, ResultWriteStep DEF HandleResult

-----------------------------------------------------------------------------
(* The theorems *)

\* Nothing has happened yet.
LEMMA FulInit == FulfillmentInit => FulInv
  <1> SUFFICES ASSUME FulfillmentInit
               PROVE  FulInv
    OBVIOUS
  <1>1. FulfillmentTypeOK
    BY DEF FulfillmentInit, FulfillmentTypeOK, ShipRow, IntentRow, NoIntent,
           BatchDispatch, Children, ClaimRow, ShipEvent
  <1>2. LeftByIntent /\ PendingBatchBound
    BY DEF FulfillmentInit, LeftByIntent, PendingBatchBound, NoIntent, Gone
  <1>3. ClaimsAgree /\ ClaimIds /\ ReadResults
    BY DEF FulfillmentInit, ClaimsAgree, ClaimIds, ReadResults
  <1>4. QED
    BY <1>1, <1>2, <1>3 DEF FulInv

\* A grant or a refusal for an intent that asks for itself meets no batch.
LEMMA AsksAlone ==
    ASSUME NEW o, AsksOrder(o)
    PROVE  ~BatchPending(o)
  BY DEF AsksOrder, BatchPending

\* Every step of the fulfillment-service.
LEMMA FulStep == FulInv /\ [FulfillmentNext]_fulfillmentVars => FulInv'
  <1> SUFFICES ASSUME FulInv, [FulfillmentNext]_fulfillmentVars
               PROVE  FulInv'
    OBVIOUS
  <1> USE FulfillmentAssumption
  <1>1. CASE UNCHANGED fulfillmentVars
    <2>1. result' \in [Results -> {"NONE", "DEFERRED", "APPLIED", "DUPLICATE", "CONFLICT"}]
      BY <1>1 DEF FulInv, FulfillmentTypeOK, fulfillmentVars
    <2>2. QED
      BY <1>1, <2>1, ResultOnly DEF fulfillmentVars
  <1>2. ASSUME NEW o \in Orders, NEW v \in OrderVersions,
               OrderConfirmed(o, v, v - 1) \/ OrderCanceled(o, v)
        PROVE  FulInv'
    <2>1. v \in Nat /\ v - 1 \in Nat
      OBVIOUS
    <2>2. QED
      BY <1>2, <2>1, OrderConfirmedStep, OrderCanceledStep
  <1>3. ASSUME NEW o \in Orders, NEW to \in {"PICKING", "READY_TO_SHIP"} \cup Outcomes,
               Transition(o, to)
        PROVE  FulInv'
    BY <1>3, TransitionStep
  <1>4. ASSUME NEW o \in Orders, NEW r \in Requests,
               \/ \E quoted \in Quotes : StartDispatch(o, r, quoted)
               \/ AsksOrder(o) /\ (RejectDispatch(o, r) \/ CommitDispatch(o, r))
        PROVE  FulInv'
    BY <1>4, AsksAlone, StartDispatchStep, RejectDispatchStep, CommitDispatchStep
  <1>5. ASSUME NEW o \in Orders, NEW c \in Claims, NEW t \in Trips, NEW a \in Actors,
               \/ Claim(c, o, t, a, ship[o].version)
               \/ Release(c, o, t, a, ship[o].version, 1)
        PROVE  FulInv'
    BY <1>5, ClaimStep, ReleaseStep
  <1>6. ASSUME NEW b \in Batches, NEW t \in Trips, NEW child \in Children,
               NEW stale \in SUBSET Orders, NEW quoted \in [Orders -> Quotes],
               StartBatch(b, t, child, quoted, stale)
        PROVE  FulInv'
    <2>1. quoted \in [Orders -> Nat]
      OBVIOUS
    <2>2. QED
      BY <1>6, <2>1, StartBatchStep
  <1>7. ASSUME NEW b \in Batches,
               \/ \E d \in {"GRANTED", "REJECTED"} : StoreDecision(b, d)
               \/ CommitBatch(b) \/ RejectBatch(b)
        PROVE  FulInv'
    BY <1>7, StoreDecisionStep, CommitBatchStep, RejectBatchStep
  <1>8. ASSUME NEW e \in Results, HandleResult(e)
        PROVE  FulInv'
    BY <1>8, HandleResultStep
  <1>9. QED
    BY <1>1, <1>2, <1>3, <1>4, <1>5, <1>6, <1>7, <1>8 DEF FulfillmentNext

\* The invariant of all behaviours.
LEMMA FulAlways == FulfillmentSpec => []FulInv
  BY FulInit, FulStep, PTL DEF FulfillmentSpec

(***************************************************************************)
(* The tables of the service keep their types, whatever calls, events and  *)
(* answers come in.                                                        *)
(***************************************************************************)
THEOREM FulfillmentTypeCorrect == FulfillmentSpec => []FulfillmentTypeOK
  <1>1. FulInv => FulfillmentTypeOK
    BY DEF FulInv
  <1>2. QED
    BY <1>1, FulAlways, PTL

(***************************************************************************)
(* A shipment is on the road or past it exactly when its dispatch intent   *)
(* is completed: nothing leaves without one, and a late delivery result,   *)
(* a cancellation or a refusal never takes one back.                       *)
(***************************************************************************)
THEOREM LeavingByIntent == FulfillmentSpec => []LeftByIntent
  <1>1. FulInv => LeftByIntent
    BY DEF FulInv
  <1>2. QED
    BY <1>1, FulAlways, PTL

(***************************************************************************)
(* A batch that waits for its decision keeps all its shipments, so that a  *)
(* granted batch is committed as a whole: the error                        *)
(* BATCH_GRANTED_SHIPMENT_BINDING_CHANGED of commit is never raised.       *)
(***************************************************************************)
THEOREM BatchKeepsShipments == FulfillmentSpec => []PendingBatchBound
  <1>1. FulInv => PendingBatchBound
    BY DEF FulInv
  <1>2. QED
    BY <1>1, FulAlways, PTL

(***************************************************************************)
(* The claim on a shipment is the one open receipt for it.                 *)
(***************************************************************************)
THEOREM ClaimsAndReceipts == FulfillmentSpec => []ClaimsAgree
  <1>1. FulInv => ClaimsAgree
    BY DEF FulInv
  <1>2. QED
    BY <1>1, FulAlways, PTL

-----------------------------------------------------------------------------
(* Delivery results that only the driver of a trip reports *)

\* A step that leaves what has left or ended as it is, and applies no result.
Calm ==
    /\ \A o \in Orders : ship[o].status \in Gone \cup Terminal =>
          ship'[o].status = ship[o].status
    /\ applying' \subseteq applying
    /\ \A e \in Results : result'[e] = "APPLIED" => result[e] = "APPLIED"

\* A write of one row that was neither gone nor ended is calm.
LEMMA CalmWrite ==
    ASSUME FulInv, NEW o \in Orders, NEW row \in ShipRow,
           ship' = [ship EXCEPT ![o] = Bumped(row)],
           ship[o].status \in Gone \cup Terminal => row.status = ship[o].status,
           UNCHANGED <<result, applying>>
    PROVE  Calm
  <1>1. \A p \in Orders : p # o => ship'[p] = ship[p]
    BY DEF FulInv, FulfillmentTypeOK
  <1>2. ship'[o].status = row.status
    BY BumpedRow DEF FulInv, FulfillmentTypeOK
  <1>3. QED
    BY <1>1, <1>2 DEF Calm

\* Every step is calm, or it is one of the three that deal with outcomes.
LEMMA Steps ==
    ASSUME FulInv, FulfillmentNext
    PROVE  \/ Calm
           \/ \E o \in Orders, to \in Outcomes : Transition(o, to)
           \/ \E e \in Results : ResultRead(e) \/ ResultWrite(e)
  <1>1. ASSUME NEW o \in Orders, NEW v \in OrderVersions, OrderConfirmed(o, v, v - 1)
        PROVE  Calm
    <2>1. CASE ship[o].status = "NONE"
      <3>1. \A p \in Orders : p # o => ship'[p] = ship[p]
        BY <1>1, <2>1 DEF OrderConfirmed, FulInv, FulfillmentTypeOK
      <3>2. QED
        BY <1>1, <2>1, <3>1 DEF OrderConfirmed, Calm, Gone, Terminal
    <2>2. CASE ship[o].status # "NONE"
      BY <1>1, <2>2 DEF OrderConfirmed, Calm
    <2>3. QED
      BY <2>1, <2>2
  <1>2. ASSUME NEW o \in Orders, NEW v \in OrderVersions, OrderCanceled(o, v)
        PROVE  Calm
    <2>1. CASE ship[o].status \in {"NONE", "CANCELED"}
      BY <1>2, <2>1 DEF OrderCanceled, Calm, Gone
    <2>2. CASE ship[o].status \notin {"NONE", "CANCELED"}
      <3> DEFINE row == IF ship[o].status \in Gone THEN ship[o]
                        ELSE [ship[o] EXCEPT !.status = "CANCELED"]
      <3>1. row \in ShipRow
        BY Rows DEF ShipRow, Terminal
      <3>2. ship[o].status \in Gone \cup Terminal => row.status = ship[o].status
        BY <2>2 DEF Gone, Terminal
      <3>3. /\ ship' = [ship EXCEPT ![o] = Bumped(row)]
            /\ UNCHANGED <<result, applying>>
        BY <1>2, <2>2 DEF OrderCanceled, Write, Gone
      <3> HIDE DEF row
      <3>4. QED
        BY <3>1, <3>2, <3>3, CalmWrite
    <2>3. QED
      BY <2>1, <2>2
  <1>3. ASSUME NEW o \in Orders, NEW to \in {"PICKING", "READY_TO_SHIP"}, Transition(o, to)
        PROVE  Calm
    <2> DEFINE row == [ship[o] EXCEPT !.status = to]
    <2>1. row \in ShipRow
      BY Rows DEF ShipRow
    <2>2. /\ ship' = [ship EXCEPT ![o] = Bumped(row)]
          /\ UNCHANGED <<result, applying>>
      BY <1>3 DEF Transition, Write
    <2>3. ship[o].status \notin Gone \cup Terminal
      BY <1>3 DEF Transition, canMove, TRANSITIONS, Gone, Terminal
    <2> HIDE DEF row
    <2>4. QED
      BY <2>1, <2>2, <2>3, CalmWrite
  <1>4. ASSUME NEW o \in Orders, NEW r \in Requests, CommitDispatch(o, r)
        PROVE  Calm
    <2> DEFINE row == [ship[o] EXCEPT !.status = "DISPATCHED"]
    <2>1. row \in ShipRow
      BY Rows DEF ShipRow, Gone
    <2>2. /\ ship' = [ship EXCEPT ![o] = Bumped(row)]
          /\ UNCHANGED <<result, applying>>
      BY <1>4 DEF CommitDispatch, Write
    <2>3. ship[o].status \notin Gone \cup Terminal
      BY <1>4 DEF CommitDispatch, canMove, TRANSITIONS, Gone, Terminal
    <2> HIDE DEF row
    <2>4. QED
      BY <2>1, <2>2, <2>3, CalmWrite
  <1>5. ASSUME NEW o \in Orders, NEW c \in Claims, NEW t \in Trips, NEW a \in Actors,
               Claim(c, o, t, a, ship[o].version)
        PROVE  Calm
    <2> DEFINE row == [ship[o] EXCEPT !.trip = t, !.claim = c]
    <2>1. row \in ShipRow /\ row.status = ship[o].status
      BY Rows DEF ShipRow
    <2>2. /\ ship' = [ship EXCEPT ![o] = Bumped(row)]
          /\ UNCHANGED <<result, applying>>
      BY <1>5 DEF Claim, Write
    <2> HIDE DEF row
    <2>3. QED
      BY <2>1, <2>2, CalmWrite
  <1>6. ASSUME NEW o \in Orders, NEW c \in Claims, NEW t \in Trips, NEW a \in Actors,
               Release(c, o, t, a, ship[o].version, 1)
        PROVE  Calm
    <2> DEFINE row == [ship[o] EXCEPT !.trip = NoTrip, !.claim = NoClaim]
    <2>1. row \in ShipRow /\ row.status = ship[o].status
      BY Rows DEF ShipRow
    <2>2. /\ ship' = [ship EXCEPT ![o] = Bumped(row)]
          /\ UNCHANGED <<result, applying>>
      BY <1>6 DEF Release, Write
    <2> HIDE DEF row
    <2>3. QED
      BY <2>1, <2>2, CalmWrite
  <1>7. ASSUME NEW b \in Batches, CommitBatch(b)
        PROVE  Calm
    <2>1. \A o \in Members(dispatch[b].child) : ship[o].status = "READY_TO_SHIP"
      BY <1>7 DEF CommitBatch, Bound
    <2>2. \A o \in Orders : o \notin Members(dispatch[b].child) => ship'[o] = ship[o]
      BY <1>7 DEF CommitBatch
    <2>3. UNCHANGED <<result, applying>>
      BY <1>7 DEF CommitBatch
    <2>4. QED
      BY <2>1, <2>2, <2>3 DEF Calm, Gone, Terminal
  <1>8. ASSUME UNCHANGED <<ship, result, applying>>
        PROVE  Calm
    BY <1>8 DEF Calm
  <1>9. ASSUME NEW e \in Results, NEW outcome, outcome # "APPLIED", Receipt(e, outcome)
        PROVE  Calm
    BY <1>9 DEF Receipt, Calm, FulInv, FulfillmentTypeOK
  <1>10. ASSUME NEW e \in Results, HandleResult(e)
         PROVE  Calm \/ ResultRead(e) \/ ResultWrite(e)
    <2>1. CASE ResultConflict(e)
      <3>1. PICK f \in Rivals(e) :
               result' = [result EXCEPT ![e] = "CONFLICT",
                                        ![f] = IF @ = "DEFERRED" THEN "CONFLICT" ELSE @]
        BY <2>1 DEF ResultConflict
      <3>2. f \in Results /\ f # e
        BY DEF Rivals
      <3>3. \A g \in Results : result'[g] = "APPLIED" => result[g] = "APPLIED"
        BY <3>1, <3>2 DEF FulInv, FulfillmentTypeOK
      <3>4. QED
        BY <2>1, <3>3 DEF ResultConflict, Calm
    <2>2. CASE ResultAbort(e)
      BY <2>2 DEF ResultAbort, Calm
    <2>3. QED
      BY <1>9, <1>10, <2>1, <2>2
      DEF HandleResult, ResultDuplicate, ResultMisplaced, ResultDefer
  <1>11. ASSUME NEW o \in Orders, NEW r \in Requests,
                \/ \E quoted \in Quotes : StartDispatch(o, r, quoted)
                \/ RejectDispatch(o, r)
         PROVE  Calm
    BY <1>8, <1>11 DEF StartDispatch, RejectDispatch
  <1>12. ASSUME NEW b \in Batches,
                \/ \E t \in Trips, child \in Children, stale \in SUBSET Orders,
                      quoted \in [Orders -> Quotes] : StartBatch(b, t, child, quoted, stale)
                \/ \E d \in {"GRANTED", "REJECTED"} : StoreDecision(b, d)
                \/ RejectBatch(b)
         PROVE  Calm
    BY <1>8, <1>12 DEF StartBatch, StoreDecision, RejectBatch
  <1>13. QED
    BY <1>1, <1>2, <1>3, <1>4, <1>5, <1>6, <1>7, <1>10, <1>11, <1>12 DEF FulfillmentNext

\* A calm step keeps what a result has read or written.
LEMMA CalmStep ==
    ASSUME ResultInv, Calm
    PROVE  ReadStands' /\ AppliedResultShows'
  <1>1. \A e \in applying : e \in Results
    BY DEF ResultInv, FulInv, FulfillmentTypeOK
  <1>2. ReadStands'
    BY <1>1, ResultOrder DEF ResultInv, ReadStands, Calm, Gone
  <1>3. AppliedResultShows'
    BY ResultOrder DEF ResultInv, AppliedResultShows, Calm
  <1>4. QED
    BY <1>2, <1>3

\* A result of the shipment's own stop is written once, over DISPATCHED.
LEMMA ResultInvStep ==
    ASSUME ~ManualOnTrip, ResultInv, FulfillmentNext
    PROVE  /\ ResultInv'
           /\ \A o \in Orders : ship[o].status \in Terminal =>
                 ship'[o].status = ship[o].status
  <1>1. FulInv /\ FulInv'
    BY FulStep DEF ResultInv
  <1>2. \A e \in applying : e \in Results /\ ship[ResultOf[e].order].status = "DISPATCHED"
                            /\ ship[ResultOf[e].order].trip = ResultOf[e].trip
    BY <1>1 DEF ResultInv, FulInv, FulfillmentTypeOK, ReadStands, ReadResults
  <1>3. \A e \in Results : result[e] = "APPLIED" =>
           ship[ResultOf[e].order].status = ResultOf[e].outcome
    BY DEF ResultInv, AppliedResultShows
  <1>4. CASE Calm
    BY <1>1, <1>4, CalmStep DEF ResultInv, Calm
  <1>5. ASSUME NEW o \in Orders, NEW to \in Outcomes, Transition(o, to)
        PROVE  /\ ReadStands' /\ AppliedResultShows'
               /\ \A p \in Orders : ship[p].status \in Terminal =>
                     ship'[p].status = ship[p].status
    <2>1. /\ ship[o].status = "DISPATCHED" /\ ship[o].trip = NoTrip
          /\ UNCHANGED <<result, applying>>
          /\ \A p \in Orders : p # o => ship'[p] = ship[p]
      BY <1>1, <1>5 DEF Transition, canMove, TRANSITIONS, Outcomes, Write,
                        FulInv, FulfillmentTypeOK
    <2>2. \A e \in applying : ResultOf[e].order # o
      BY <1>2, <2>1, ResultOrder
    <2>3. \A e \in Results : result[e] = "APPLIED" => ResultOf[e].order # o
      BY <1>3, <2>1, ResultOrder
    <2>4. QED
      BY <1>2, <1>3, <2>1, <2>2, <2>3, ResultOrder
      DEF ReadStands, AppliedResultShows, Terminal
  <1>6. ASSUME NEW e \in Results, ResultRead(e)
        PROVE  ReadStands' /\ AppliedResultShows' /\ ship' = ship
    BY <1>1, <1>2, <1>3, <1>6, ResultReadStep DEF ResultRead, ReadStands, AppliedResultShows
  <1>7. ASSUME NEW e \in Results, ResultWrite(e)
        PROVE  /\ ReadStands' /\ AppliedResultShows'
               /\ \A p \in Orders : ship[p].status \in Terminal =>
                     ship'[p].status = ship[p].status
    <2> DEFINE o == ResultOf[e].order
               row == [ship[o] EXCEPT !.status = ResultOf[e].outcome]
    <2>1. o \in Orders /\ row \in ShipRow /\ row.status = ResultOf[e].outcome
      BY <1>1, ResultOrder, Rows DEF ShipRow
    <2>2. /\ ship' = [ship EXCEPT ![o] = Bumped(row)]
          /\ result' = [result EXCEPT ![e] = "APPLIED"]
          /\ e \in applying /\ applying' = applying \ {e}
      BY <1>7 DEF ResultWrite, Write
    <2>3. ship[o].status = "DISPATCHED"
      BY <1>2, <2>2
    <2>4. \A f \in applying' : ResultOf[f].order # o
      <3> SUFFICES ASSUME NEW f \in applying', ResultOf[f].order = o
                   PROVE  FALSE
        OBVIOUS
      <3>1. ResultOf[f].trip = ResultOf[e].trip
        BY <1>2, <2>2
      <3>2. Stop(f) = Stop(e)
        BY <3>1 DEF Stop
      <3>3. QED
        BY <1>1, <2>2, <3>2 DEF FulInv, ReadResults
    <2>5. \A f \in Results : result[f] = "APPLIED" => ResultOf[f].order # o
      BY <1>3, <2>3, ResultOrder
    <2> HIDE DEF row
    <2>6. /\ ship'[o].status = ResultOf[e].outcome
          /\ \A p \in Orders : p # o => ship'[p] = ship[p]
      BY <1>1, <2>1, <2>2, BumpedRow DEF FulInv, FulfillmentTypeOK
    <2>7. ReadStands'
      BY <1>2, <2>2, <2>4, <2>6, ResultOrder DEF ReadStands
    <2>8. ASSUME NEW f \in Results, result'[f] = "APPLIED"
          PROVE  ship'[ResultOf[f].order].status = ResultOf[f].outcome
      <3>1. CASE f = e
        BY <2>6, <3>1
      <3>2. CASE f # e
        <4>1. result[f] = "APPLIED"
          BY <1>1, <2>2, <2>8, <3>2 DEF FulInv, FulfillmentTypeOK
        <4>2. QED
          BY <1>3, <2>5, <2>6, <4>1, ResultOrder
      <3>3. QED
        BY <3>1, <3>2
    <2>9. QED
      BY <2>3, <2>6, <2>7, <2>8 DEF AppliedResultShows, Terminal
  <1>8. QED
    BY <1>1, <1>4, <1>5, <1>6, <1>7, Steps DEF ResultInv

\* The invariant of all behaviours in which only drivers report results of trips.
LEMMA ResultAlways == ~ManualOnTrip => (FulfillmentSpec => []ResultInv)
  <1> SUFFICES ASSUME ~ManualOnTrip
               PROVE  FulfillmentSpec => []ResultInv
    OBVIOUS
  <1>1. FulfillmentInit => ResultInv
    <2> SUFFICES ASSUME FulfillmentInit
                 PROVE  ResultInv
      OBVIOUS
    <2>1. ReadStands /\ AppliedResultShows
      BY DEF FulfillmentInit, ReadStands, AppliedResultShows
    <2>2. QED
      BY <2>1, FulInit DEF ResultInv
  <1>2. ResultInv /\ [FulfillmentNext]_fulfillmentVars => ResultInv'
    <2> SUFFICES ASSUME ResultInv, [FulfillmentNext]_fulfillmentVars
                 PROVE  ResultInv'
      OBVIOUS
    <2>1. CASE UNCHANGED fulfillmentVars
      <3>1. FulInv'
        BY <2>1, FulStep DEF ResultInv
      <3>2. Calm
        BY <2>1 DEF fulfillmentVars, Calm
      <3>3. QED
        BY <3>1, <3>2, CalmStep DEF ResultInv
    <2>2. CASE FulfillmentNext
      BY <2>2, ResultInvStep
    <2>3. QED
      BY <2>1, <2>2
  <1>3. QED
    BY <1>1, <1>2, PTL DEF FulfillmentSpec

(***************************************************************************)
(* Where only the driver of a trip reports the outcome of its shipments,   *)
(* an applied result is the one the shipment shows for ever, although the  *)
(* handler does not lock the row between reading and writing it.           *)
(***************************************************************************)
THEOREM AppliedResultStands == ~ManualOnTrip => (FulfillmentSpec => []AppliedResultShows)
  <1>1. ResultInv => AppliedResultShows
    BY DEF ResultInv
  <1>2. QED
    BY <1>1, ResultAlways, PTL

(***************************************************************************)
(* Under the same condition no step rewrites a terminal shipment.  (With   *)
(* mark-delivered and mark-failed on a trip's shipment one does: the       *)
(* handler overwrites the row it read earlier.)                            *)
(***************************************************************************)
THEOREM TerminalShipmentsStay == ~ManualOnTrip => (FulfillmentSpec => TerminalStays)
  <1> SUFFICES ASSUME ~ManualOnTrip
               PROVE  FulfillmentSpec => TerminalStays
    OBVIOUS
  <1>1. ResultInv /\ [FulfillmentNext]_fulfillmentVars =>
           [\A o \in Orders : ship[o].status \in Terminal
               => ship'[o].status = ship[o].status]_fulfillmentVars
    BY ResultInvStep
  <1>2. QED
    BY <1>1, ResultAlways, PTL DEF FulfillmentSpec, TerminalStays

-----------------------------------------------------------------------------
(* What the other services see of picking, claims, releases and results *)

(***************************************************************************)
(* A step that dispatches nothing and leaves the intents alone: no         *)
(* shipment appears or disappears, one with a pending intent stays ready,  *)
(* and the events are about shipments that exist.                          *)
(***************************************************************************)
Moved ==
    /\ UNCHANGED <<intent, dispatch>>
    /\ \A o \in Orders :
          /\ ship'[o].group = ship[o].group
          /\ ship'[o].status = "NONE" <=> ship[o].status = "NONE"
          /\ intent[o].status = "PENDING" /\ ship[o].status = "READY_TO_SHIP"
                => ship'[o].status = "READY_TO_SHIP"
    /\ \A e \in shipLog' \ shipLog :
          /\ e.type # "ShipmentDispatched"
          /\ ship[e.order].status # "NONE"
          /\ e.group = ship[e.order].group

\* A write of one existing row, with or without its event.
LEMMA MovedWrite ==
    ASSUME FulInv, NEW o \in Orders, NEW row \in ShipRow,
           ship' = [ship EXCEPT ![o] = Bumped(row)],
           row.group = ship[o].group,
           ship[o].status # "NONE" /\ row.status # "NONE",
           intent[o].status = "PENDING" => row.status = ship[o].status,
           UNCHANGED <<intent, dispatch>>,
           NEW type, type # "ShipmentDispatched",
           \/ shipLog' = shipLog
           \/ Record(type, o, NoRequest)
    PROVE  Moved
  <1>1. /\ \A p \in Orders \ {o} : ship'[p] = ship[p]
        /\ ship'[o].group = ship[o].group /\ ship'[o].status = row.status
    BY BumpedRow DEF FulInv, FulfillmentTypeOK
  <1>2. \A e \in shipLog' \ shipLog :
            e.type # "ShipmentDispatched" /\ e.order = o /\ e.group = ship[o].group
    BY DEF Record, Event
  <1>3. QED
    BY <1>1, <1>2 DEF Moved

\* Picking and the manual end of a delivery.
LEMMA TransitionMoved ==
    ASSUME FulInv, NEW o \in Orders,
           NEW to \in {"PICKING", "READY_TO_SHIP"} \cup Outcomes, Transition(o, to)
    PROVE  Moved
  <1> DEFINE row == [ship[o] EXCEPT !.status = to]
  <1>1. row \in ShipRow /\ row.status = to /\ row.group = ship[o].group
    BY Rows DEF ShipRow, Outcomes, Terminal
  <1>2. /\ ship' = [ship EXCEPT ![o] = Bumped(row)]
        /\ UNCHANGED <<intent, dispatch>>
        /\ intent[o].status # "PENDING"
        /\ Record(EventOf(to), o, NoRequest)
    BY DEF Transition, Write
  <1>3. ship[o].status # "NONE" /\ to # "NONE"
    BY DEF Transition, canMove, TRANSITIONS, Outcomes
  <1>4. EventOf(to) # "ShipmentDispatched"
    BY DEF EventOf, Outcomes
  <1> HIDE DEF row
  <1>5. QED
    BY <1>1, <1>2, <1>3, <1>4, MovedWrite

\* A claim assigns the shipment and leaves the rest of it alone.
LEMMA ClaimMoved ==
    ASSUME FulInv, NEW c \in Claims, NEW o \in Orders, NEW t \in Trips, NEW a \in Actors,
           NEW v, Claim(c, o, t, a, v)
    PROVE  Moved
  <1> DEFINE row == [ship[o] EXCEPT !.trip = t, !.claim = c]
  <1>1. row \in ShipRow /\ row.status = ship[o].status /\ row.group = ship[o].group
    BY Rows DEF ShipRow
  <1>2. /\ ship' = [ship EXCEPT ![o] = Bumped(row)]
        /\ UNCHANGED <<intent, dispatch, shipLog>>
        /\ ship[o].status # "NONE"
    BY DEF Claim, Claimable, Write
  <1>3. "ShipmentReady" # "ShipmentDispatched"
    OBVIOUS
  <1> HIDE DEF row
  <1>4. QED
    BY <1>1, <1>2, <1>3, MovedWrite

\* A release ends the assignment and leaves the rest of it alone.
LEMMA ReleaseMoved ==
    ASSUME FulInv, NEW c \in Claims, NEW o \in Orders, NEW t \in Trips, NEW a \in Actors,
           NEW v, NEW n, Release(c, o, t, a, v, n)
    PROVE  Moved
  <1> DEFINE row == [ship[o] EXCEPT !.trip = NoTrip, !.claim = NoClaim]
  <1>1. row \in ShipRow /\ row.status = ship[o].status /\ row.group = ship[o].group
    BY Rows DEF ShipRow
  <1>2. /\ ship' = [ship EXCEPT ![o] = Bumped(row)]
        /\ UNCHANGED <<intent, dispatch, shipLog>>
        /\ ship[o].status # "NONE"
    BY DEF Release, Releasable, Write
  <1>3. "ShipmentReady" # "ShipmentDispatched"
    OBVIOUS
  <1> HIDE DEF row
  <1>4. QED
    BY <1>1, <1>2, <1>3, MovedWrite

\* A result overwrites a shipment that has left.
LEMMA ResultMoved ==
    ASSUME FulInv, NEW e \in Results, HandleResult(e)
    PROVE  Moved
  <1>1. CASE UNCHANGED <<ship, intent, dispatch, shipLog>>
    BY <1>1 DEF Moved
  <1>2. CASE ResultWrite(e)
    <2> DEFINE o == ResultOf[e].order
               row == [ship[o] EXCEPT !.status = ResultOf[e].outcome]
    <2>1. o \in Orders /\ ResultOf[e].outcome \in Outcomes
      BY ResultOrder
    <2>2. row \in ShipRow /\ row.status = ResultOf[e].outcome /\ row.group = ship[o].group
      BY <2>1, Rows DEF ShipRow, Outcomes, Terminal
    <2>3. ship[o].status \in Gone
      BY <1>2 DEF ResultWrite, FulInv, ReadResults
    <2>4. intent[o].status = "COMPLETED"
      BY <2>1, <2>3, Rows
    <2>5. ship[o].status # "NONE" /\ row.status # "NONE"
      BY <2>1, <2>2, <2>3 DEF Gone, Outcomes
    <2>6. /\ ship' = [ship EXCEPT ![o] = Bumped(row)]
          /\ UNCHANGED <<intent, dispatch>>
          /\ Record(EventOf(ResultOf[e].outcome), o, NoRequest)
      BY <1>2 DEF ResultWrite, Write
    <2>7. EventOf(ResultOf[e].outcome) # "ShipmentDispatched"
      BY <2>1 DEF EventOf, Outcomes
    <2> HIDE DEF row, o
    <2>8. QED
      BY <2>1, <2>2, <2>4, <2>5, <2>6, <2>7, MovedWrite
  <1>3. QED
    BY <1>1, <1>2 DEF HandleResult, ResultDuplicate, ResultConflict, ResultMisplaced,
                      ResultDefer, ResultRead, ResultAbort, Receipt
=============================================================================
