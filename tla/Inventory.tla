------------------------------ MODULE Inventory ------------------------------
(***************************************************************************)
(* The inventory-service: stock balances, reservation groups and stock     *)
(* movements.  Every operation is one database transaction of the service. *)
(* Reserve, release, acknowledge and issue of an order are serialised by   *)
(* the advisory lock on that order and balances are locked row by row in   *)
(* product order, so each transaction is one step here.                    *)
(*                                                                         *)
(* A product stands for one balance row (warehouse, product).  The group   *)
(* <<o, v>> is the reservation group with the idempotency key order:o:v    *)
(* (key and group are one to one).  The stock events of the outbox are     *)
(* determined by this state: StockReceived of a receipt exists once it is  *)
(* applied and StockReleased of a group exists once it is RELEASED.        *)
(***************************************************************************)
EXTENDS Integers, FiniteSets

CONSTANTS
    MaxQty,        \* bound on the quantity of one line or one movement
    Orders,        \* order ids
    MaxVersion,    \* bound on an order's version, hence on its group keys
    Products,      \* balance rows
    Demands,       \* what the lines of an order may ask for
    Requests,      \* dispatch request ids
    Movements,     \* idempotency keys of receipts and manual adjustments
    Delta,         \* Delta[m][p]: the quantityDelta of movement m on p
    NoRequest      \* the null dispatch request

Versions == 1 .. MaxVersion
Groups == Orders \X Versions
NoLines == [p \in Products |-> 0]

ASSUME MaxQtyAssumption == MaxQty \in Nat

ASSUME InventoryAssumption ==
    /\ IsFiniteSet(Orders)
    /\ MaxVersion \in Nat
    /\ Demands \subseteq [Products -> 0 .. MaxQty]
    /\ NoLines \notin Demands
    /\ IsFiniteSet(Movements)
    /\ Delta \in [Movements -> [Products -> (-MaxQty) .. MaxQty]]
    /\ NoRequest \notin Requests

(***************************************************************************)
(* The service stores aggregates beside the rows they aggregate:           *)
(* reserved_quantity beside the lines of the ACTIVE groups,                *)
(* on_hand_quantity beside the stock movements.  Total(G, q) is the sum of *)
(* q over the finite set G, as the number of units its members hold:       *)
(* member g holds the units 1 .. q[g].                                     *)
(***************************************************************************)
UnitSet(G, q) == {z \in G \X (1 .. MaxQty) : z[2] <= q[z[1]]}

Total(G, q) == Cardinality(UnitSet(G, q))

VARIABLES
    onHand,      \* inventory_balances.on_hand_quantity
    reserved,    \* inventory_balances.reserved_quantity
    rsv,         \* reservation_groups with their inventory_reservations lines
    applied      \* idempotency keys found in stock_movements

inventoryVars == <<onHand, reserved, rsv, applied>>

GroupStatus == {"NONE", "ACTIVE", "RELEASED", "ISSUED"}

GroupRow == [status : GroupStatus,
             lines  : [Products -> 0 .. MaxQty],
             ack    : BOOLEAN,
             issue  : Requests \cup {NoRequest}]

NoGroupRow ==
    [status |-> "NONE", lines |-> NoLines, ack |-> FALSE, issue |-> NoRequest]

InventoryTypeOK ==
    /\ onHand \in [Products -> Nat]
    /\ reserved \in [Products -> Nat]
    /\ rsv \in [Groups -> GroupRow]
    /\ applied \subseteq Movements

InventoryInit ==
    /\ onHand = [p \in Products |-> 0]
    /\ reserved = [p \in Products |-> 0]
    /\ rsv = [g \in Groups |-> NoGroupRow]
    /\ applied = {}

-----------------------------------------------------------------------------
With(status) == {g \in Groups : rsv[g].status = status}
\* Mutant: release does not look at the status of the groups.
EveryGroup(o) == {g \in Groups : g[1] = o /\ rsv[g].status # "NONE"}

Active(o) == {g \in With("ACTIVE") : g[1] = o}
LineOf(p) == [g \in Groups |-> rsv[g].lines[p]]
Available(p) == onHand[p] - reserved[p]

(***************************************************************************)
(* reserve: the answer for key <<o, v>> and its effect.  A known key       *)
(* replays its group only while that is ACTIVE with the same lines; any    *)
(* other ACTIVE group of the order conflicts; all lines are reserved or    *)
(* none.                                                                   *)
(***************************************************************************)
\* Mutant: another ACTIVE group of the order is no conflict.
ReserveTwice(o, v, lines) ==
    IF rsv[<<o, v>>].status # "NONE" THEN "CONFLICT"
    ELSE IF \E p \in Products : Available(p) < lines[p] THEN "INSUFFICIENT"
    ELSE "RESERVED"

ReserveOutcome(o, v, lines) ==
    LET g == <<o, v>> IN
    IF rsv[g].status # "NONE"
    THEN IF rsv[g].status = "ACTIVE" /\ rsv[g].lines = lines
         THEN "RESERVED" ELSE "CONFLICT"
    ELSE IF Active(o) # {} THEN "CONFLICT"
    ELSE IF \E p \in Products : Available(p) < lines[p] THEN "INSUFFICIENT"
    ELSE "RESERVED"

\* Mutant: a RELEASED group is made ACTIVE again by its key.
ReviveGroup(o, v, lines) ==
    /\ rsv[<<o, v>>].status # "ACTIVE" /\ Active(o) = {}
    /\ \A p \in Products : Available(p) >= lines[p]
    /\ reserved' = [p \in Products |-> reserved[p] + lines[p]]
    /\ rsv' = [rsv EXCEPT ![<<o, v>>].status = "ACTIVE", ![<<o, v>>].lines = lines]
    /\ UNCHANGED <<onHand, applied>>

CreateGroup(o, v, lines) ==
    /\ rsv[<<o, v>>].status = "NONE"
    /\ ReserveOutcome(o, v, lines) = "RESERVED"
    /\ reserved' = [p \in Products |-> reserved[p] + lines[p]]
    /\ rsv' = [rsv EXCEPT ![<<o, v>>].status = "ACTIVE", ![<<o, v>>].lines = lines]
    /\ UNCHANGED <<onHand, applied>>

\* A replay, a conflict or a shortage changes nothing.
Reserve(o, v, lines) ==
    \/ CreateGroup(o, v, lines)
    \/ /\ \/ rsv[<<o, v>>].status # "NONE"
          \/ ReserveOutcome(o, v, lines) # "RESERVED"
       /\ UNCHANGED <<onHand, reserved, rsv, applied>>

(***************************************************************************)
(* release: gives back the ACTIVE groups among G.  The transaction fails   *)
(* as a whole when a balance holds less than the lines to give back.       *)
(***************************************************************************)
CanRelease(G) == \A p \in Products : reserved[p] >= Total(G, LineOf(p))

ReleaseGroups(G) ==
    /\ CanRelease(G)
    /\ reserved' = [p \in Products |-> reserved[p] - Total(G, LineOf(p))]
    /\ rsv' = [g \in Groups |->
                 IF g \in G THEN [rsv[g] EXCEPT !.status = "RELEASED"] ELSE rsv[g]]
    /\ UNCHANGED <<onHand, applied>>

\* Without a group id: every ACTIVE group of the order.
ReleaseOrder(o) == ReleaseGroups(Active(o))

\* With a group id (the reconciler): that group, if it is still ACTIVE.
ReleaseGroup(o, v) == ReleaseGroups(Active(o) \cap {<<o, v>>})

(***************************************************************************)
(* Acknowledgement: by the OrderConfirmed event, whatever the status of    *)
(* the group, or by the reconciler, for an ACTIVE one only.                *)
(***************************************************************************)
AckByEvent(o, v) ==
    /\ rsv[<<o, v>>].status # "NONE"
    /\ rsv' = [rsv EXCEPT ![<<o, v>>].ack = TRUE]
    /\ UNCHANGED <<onHand, reserved, applied>>

AckByReconciler(o, v) ==
    /\ rsv' = IF rsv[<<o, v>>].status = "ACTIVE"
              THEN [rsv EXCEPT ![<<o, v>>].ack = TRUE] ELSE rsv
    /\ UNCHANGED <<onHand, reserved, applied>>

(***************************************************************************)
(* ShipmentDispatched: the group's lines leave reserved and on hand in one *)
(* transaction.  A group already issued by the same dispatch is a replay;  *)
(* any other status makes the handler throw, and so does a movement of the *)
(* same shipment (an order has one shipment) without a matching group.     *)
(***************************************************************************)
Issue(o, v, r) ==
    LET g == <<o, v>> IN
    /\ rsv[g].status = "ACTIVE"
    /\ \A h \in With("ISSUED") : h[1] # o
    /\ \A p \in Products : reserved[p] >= rsv[g].lines[p]
    /\ \A p \in Products :
          onHand[p] - rsv[g].lines[p] >= reserved[p] - rsv[g].lines[p]
    /\ reserved' = [p \in Products |-> reserved[p] - rsv[g].lines[p]]
    /\ onHand' = [p \in Products |-> onHand[p] - rsv[g].lines[p]]
    /\ rsv' = [rsv EXCEPT ![g].status = "ISSUED", ![g].issue = r]
    /\ UNCHANGED applied

(***************************************************************************)
(* A receipt (all its lines or none) or a manual adjustment.  A replayed   *)
(* key changes nothing; on hand may not drop below zero or below reserved. *)
(***************************************************************************)
\* Mutants: on hand may go below zero, or below what is reserved, or a key
\* is applied again.
MoveBelowZero(m) ==
    /\ m \notin applied
    /\ onHand' = [p \in Products |-> onHand[p] + Delta[m][p]]
    /\ applied' = applied \cup {m}
    /\ UNCHANGED <<reserved, rsv>>

MoveBelowReserved(m) ==
    /\ m \notin applied
    /\ \A p \in Products : onHand[p] + Delta[m][p] >= 0
    /\ onHand' = [p \in Products |-> onHand[p] + Delta[m][p]]
    /\ applied' = applied \cup {m}
    /\ UNCHANGED <<reserved, rsv>>

MoveAgain(m) ==
    /\ \A p \in Products : onHand[p] + Delta[m][p] >= reserved[p]
    /\ onHand' = [p \in Products |-> onHand[p] + Delta[m][p]]
    /\ applied' = applied \cup {m}
    /\ UNCHANGED <<reserved, rsv>>

ApplyMovement(m) ==
    /\ m \notin applied
    /\ \A p \in Products : /\ onHand[p] + Delta[m][p] >= 0
                           /\ onHand[p] + Delta[m][p] >= reserved[p]
    /\ onHand' = [p \in Products |-> onHand[p] + Delta[m][p]]
    /\ applied' = applied \cup {m}
    /\ UNCHANGED <<reserved, rsv>>

InventoryNext ==
    \/ \E o \in Orders, v \in Versions :
          \/ \E lines \in Demands : CreateGroup(o, v, lines)
          \/ ReleaseGroup(o, v)
          \/ AckByEvent(o, v)
          \/ AckByReconciler(o, v)
          \/ \E r \in Requests : Issue(o, v, r)
    \/ \E o \in Orders : ReleaseOrder(o)
    \/ \E m \in Movements : ApplyMovement(m)

InventorySpec == InventoryInit /\ [][InventoryNext]_inventoryVars

-----------------------------------------------------------------------------
(***************************************************************************)
(* The reserved quantity of a balance is exactly what the lines of the     *)
(* ACTIVE groups ask of it, through every reserve, release and issue.      *)
(***************************************************************************)
ReservedIsActiveLines ==
    \A p \in Products : reserved[p] = Total(With("ACTIVE"), LineOf(p))

\* Stock on hand always covers what is promised to orders.
ReservedOnHand == \A p \in Products : reserved[p] <= onHand[p]

(***************************************************************************)
(* Conservation of stock: every unit a receipt or an adjustment brought in *)
(* is on hand, was adjusted out, or left with exactly one issued group.    *)
(***************************************************************************)
StockConserved ==
    \A p \in Products :
        onHand[p] + Total(With("ISSUED"), LineOf(p))
                  + Total(applied, [m \in Movements |-> -Delta[m][p]])
            = Total(applied, [m \in Movements |-> Delta[m][p]])

\* reserve and release under the order's lock keep one ACTIVE group per order.
OneActiveGroup ==
    \A g, h \in With("ACTIVE") : g[1] = h[1] => g = h

(***************************************************************************)
(* A group that ended (RELEASED or ISSUED) never comes back and never      *)
(* changes its lines: a released key is not reported as reserved again.    *)
(***************************************************************************)
EndedGroupsStay ==
    [][\A g \in Groups : rsv[g].status \in {"RELEASED", "ISSUED"}
          => /\ rsv'[g].status = rsv[g].status
             /\ rsv'[g].lines = rsv[g].lines
             /\ rsv'[g].issue = rsv[g].issue]_inventoryVars
=============================================================================
