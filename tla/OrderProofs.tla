----------------------------- MODULE OrderProofs -----------------------------
(***************************************************************************)
(* Proofs about the order-service, for every set of orders, requests and   *)
(* batches and every bound on versions.  The row invariant OrderRows with  *)
(* the two facts about dispatch requests is inductive; the properties of   *)
(* module Order follow from it.                                            *)
(***************************************************************************)
EXTENDS Order, TLAPS

(***************************************************************************)
(* What the columns of one order row, and the transaction that holds its   *)
(* lock, say about each other.  This is the inductive core of the          *)
(* properties below: a cancellation intent pins the order before dispatch, *)
(* a running confirm or update has an order nobody granted or cancels, and *)
(* delivery, grant and reservation come in that order.                     *)
(***************************************************************************)
OrderRows ==
    \A o \in Orders :
        /\ Exists(o) => order[o].version > 0
        /\ order[o].cancelling => order[o].status \in CANCELABLE /\ ~Granted(o)
        /\ ~Unlocked(o) => /\ order[o].status \in EDITABLE
                           /\ ~order[o].cancelling
        /\ order[o].status \in {"IN_DELIVERY", "COMPLETED", "DELIVERY_FAILED"} => Granted(o)
        /\ Granted(o) => /\ order[o].group # 0
                         /\ order[o].status \in {"READY_TO_SHIP", "IN_DELIVERY",
                                                 "COMPLETED", "DELIVERY_FAILED"}

\* The inductive invariant.
OrderInv == OrderTypeOK /\ OrderRows /\ RequestGrantedOnce /\ BatchStands

-----------------------------------------------------------------------------
\* The columns of a row after its version is incremented.
LEMMA BumpedRow ==
    ASSUME NEW row \in Row
    PROVE  /\ Bumped(row) \in Row
           /\ Bumped(row).status = row.status
           /\ Bumped(row).version = row.version + 1
           /\ Bumped(row).cancelling = row.cancelling
           /\ Bumped(row).group = row.group
           /\ Bumped(row).grant = row.grant
  BY DEF Row, Bumped

(***************************************************************************)
(* A write of one row leaves the other rows alone and stores the given     *)
(* columns with the next version.                                          *)
(***************************************************************************)
LEMMA WriteRow ==
    ASSUME OrderTypeOK, NEW o \in Orders, NEW row \in Row, Write(o, row)
    PROVE  /\ order' \in [Orders -> Row]
           /\ \A x \in Orders : x # o => order'[x] = order[x]
           /\ order'[o].status = row.status
           /\ order'[o].version = row.version + 1
           /\ order'[o].cancelling = row.cancelling
           /\ order'[o].group = row.group
           /\ order'[o].grant = row.grant
  <1>1. /\ \A x \in Orders : x # o => order'[x] = order[x]
        /\ order'[o] = Bumped(row)
        /\ order' \in [Orders -> Row]
    BY BumpedRow DEF Write, OrderTypeOK
  <1>2. QED
    BY <1>1, BumpedRow

\* An emitted event is an event of the row's order.
LEMMA EmitType ==
    ASSUME OrderTypeOK, NEW o \in Orders, NEW row \in Row,
           NEW type \in {"OrderCreated", "OrderUpdated", "OrderConfirmed",
                         "OrderPendingStock", "OrderCanceled"},
           Emit(type, o, row)
    PROVE  orderLog' \subseteq Event
  <1>1. order[o].version + 1 \in Nat /\ row.status \in Status /\ row.group \in Nat
    BY DEF OrderTypeOK, Row
  <1>2. [type |-> type, order |-> o, version |-> order[o].version + 1,
         status |-> row.status, group |-> row.group] \in Event
    BY <1>1 DEF Event
  <1>3. QED
    BY <1>2 DEF Emit, OrderTypeOK

LEMMA UnlockType ==
    ASSUME OrderTypeOK, NEW o \in Orders, Unlock(o)
    PROVE  /\ tx' \in [Orders -> Transaction]
           /\ \A x \in Orders : tx'[x].kind = IF x = o THEN "none" ELSE tx[x].kind
  BY DEF OrderTypeOK, Unlock, Transaction

\* A step that changes no grant and no batch keeps what requests promise.
LEMMA SameGrants ==
    ASSUME OrderInv, batch' = batch,
           \A x \in Orders : order'[x].grant = order[x].grant
    PROVE  RequestGrantedOnce' /\ BatchStands'
  BY DEF OrderInv, RequestGrantedOnce, BatchStands, Granted, Members

(***************************************************************************)
(* The step of an action that writes the row of one order without granting *)
(* it: the invariant holds again if the new row fits the lock's new state. *)
(***************************************************************************)
LEMMA RowStep ==
    ASSUME OrderInv, NEW o \in Orders, NEW row \in Row, Write(o, row),
           orderLog' \subseteq Event, clock' \in Nat, batch' = batch,
           tx' \in [Orders -> Transaction],
           \A x \in Orders : x # o => tx'[x].kind = tx[x].kind,
           tx'[o].kind = "none",
           row.grant = order[o].grant,
           row.cancelling => row.status \in CANCELABLE /\ row.grant = NoRequest,
           row.status \in {"IN_DELIVERY", "COMPLETED", "DELIVERY_FAILED"}
               => row.grant # NoRequest,
           row.grant # NoRequest
               => row.group # 0 /\ row.status \in {"READY_TO_SHIP", "IN_DELIVERY",
                                                   "COMPLETED", "DELIVERY_FAILED"}
    PROVE  OrderInv'
  <1>1. OrderTypeOK
    BY DEF OrderInv
  <1>2. /\ order' \in [Orders -> Row]
        /\ \A x \in Orders : x # o => order'[x] = order[x]
        /\ order'[o].status = row.status
        /\ order'[o].version = row.version + 1
        /\ order'[o].cancelling = row.cancelling
        /\ order'[o].group = row.group
        /\ order'[o].grant = row.grant
    BY <1>1, WriteRow
  <1>3. OrderTypeOK'
    BY <1>1, <1>2 DEF OrderTypeOK
  <1>4. order'[o].version > 0
    BY <1>2 DEF Row
  <1>5. OrderRows'
    <2>1. ASSUME NEW x \in Orders, x # o
          PROVE  /\ Exists(x)' => order'[x].version > 0
                 /\ order'[x].cancelling => order'[x].status \in CANCELABLE /\ ~Granted(x)'
                 /\ ~Unlocked(x)' => /\ order'[x].status \in EDITABLE
                                     /\ ~order'[x].cancelling
                 /\ order'[x].status \in {"IN_DELIVERY", "COMPLETED", "DELIVERY_FAILED"}
                       => Granted(x)'
                 /\ Granted(x)' => /\ order'[x].group # 0
                                   /\ order'[x].status \in {"READY_TO_SHIP", "IN_DELIVERY",
                                                            "COMPLETED", "DELIVERY_FAILED"}
      BY <1>2, <2>1 DEF OrderInv, OrderRows, Exists, Granted, Unlocked
    <2>2. QED
      BY <1>2, <1>4, <2>1 DEF OrderRows, Exists, Granted, Unlocked
  <1>6. RequestGrantedOnce' /\ BatchStands'
    BY <1>2, SameGrants
  <1>7. QED
    BY <1>3, <1>5, <1>6 DEF OrderInv

-----------------------------------------------------------------------------
(***************************************************************************)
(* One lemma for each operation of the service.                            *)
(***************************************************************************)
LEMMA CreateStep ==
    ASSUME OrderInv, NEW o \in Orders, NEW lines \in Demands, Create(o, lines)
    PROVE  OrderInv'
  <1> DEFINE row == [order[o] EXCEPT !.status = "DRAFT", !.lines = lines]
  <1>1. OrderTypeOK /\ order[o] \in Row /\ order[o].status = "NONE"
    BY DEF OrderInv, OrderTypeOK, Create, Exists
  <1>2. /\ row \in Row /\ row.status = "DRAFT"
        /\ row.cancelling = order[o].cancelling /\ row.grant = order[o].grant
    BY <1>1 DEF Row, Status
  <1>3. ~order[o].cancelling /\ order[o].grant = NoRequest /\ tx[o].kind = "none"
    BY <1>1 DEF OrderInv, OrderRows, CANCELABLE, EDITABLE, Granted, Unlocked
  <1>4. Write(o, row) /\ Emit("OrderCreated", o, row) /\ UNCHANGED <<tx, clock, batch>>
    BY DEF Create
  <1> HIDE DEF row
  <1>5. orderLog' \subseteq Event
    BY <1>1, <1>2, <1>4, EmitType
  <1>6. QED
    BY <1>1, <1>2, <1>3, <1>4, <1>5, RowStep DEF OrderTypeOK

LEMMA BeginStep ==
    ASSUME OrderInv, NEW o \in Orders, NEW lines \in Demands,
           NEW kind \in {"confirm", "update"},
           order[o].status \in EDITABLE, ~order[o].cancelling,
           tx' = [tx EXCEPT ![o] = [kind |-> kind, lines |-> lines]],
           UNCHANGED <<order, clock, orderLog, batch>>
    PROVE  OrderInv'
  <1>1. tx' \in [Orders -> Transaction] /\ \A x \in Orders : x # o => tx'[x] = tx[x]
    BY DEF OrderInv, OrderTypeOK, Transaction
  <1>2. OrderTypeOK'
    BY <1>1 DEF OrderInv, OrderTypeOK
  <1>3. OrderRows'
    BY <1>1 DEF OrderInv, OrderRows, Exists, Granted, Unlocked
  <1>4. QED
    BY <1>2, <1>3, SameGrants DEF OrderInv

LEMMA BeginConfirmStep ==
    ASSUME OrderInv, NEW o \in Orders, NEW v, NEW retryOnly \in BOOLEAN,
           BeginConfirm(o, v, retryOnly)
    PROVE  OrderInv'
  <1>1. order[o].lines \in Demands
    BY DEF OrderInv, OrderTypeOK, Row
  <1>2. order[o].status \in EDITABLE /\ ~order[o].cancelling
    BY DEF BeginConfirm, assertConfirmable, EDITABLE
  <1>3. QED
    BY <1>1, <1>2, BeginStep DEF BeginConfirm

LEMMA BeginUpdateStep ==
    ASSUME OrderInv, NEW o \in Orders, NEW lines \in Demands, BeginUpdate(o, lines)
    PROVE  OrderInv'
  BY BeginStep DEF BeginUpdate, assertWritable

LEMMA AbortStep ==
    ASSUME OrderInv, NEW o \in Orders, Abort(o)
    PROVE  OrderInv'
  <1>1. OrderTypeOK /\ Unlock(o)
    BY DEF OrderInv, Abort
  <1>2. /\ tx' \in [Orders -> Transaction]
        /\ \A x \in Orders : tx'[x].kind = IF x = o THEN "none" ELSE tx[x].kind
    BY <1>1, UnlockType
  <1>3. OrderTypeOK'
    BY <1>1, <1>2 DEF OrderTypeOK, Abort
  <1>4. OrderRows'
    BY <1>2 DEF OrderInv, OrderRows, Abort, Exists, Granted, Unlocked
  <1>5. QED
    BY <1>3, <1>4, SameGrants DEF OrderInv, Abort

LEMMA CommitReservedStep ==
    ASSUME OrderInv, NEW o \in Orders, CommitReserved(o)
    PROVE  OrderInv'
  <1> DEFINE row == [order[o] EXCEPT !.status = "CONFIRMED", !.group = order[o].version]
  <1>1. OrderTypeOK /\ order[o] \in Row /\ order[o].status \in EDITABLE
        /\ ~order[o].cancelling /\ order[o].grant = NoRequest
    BY DEF OrderInv, OrderTypeOK, OrderRows, CommitReserved, Unlocked, Granted, EDITABLE
  <1>2. /\ row \in Row /\ row.status = "CONFIRMED"
        /\ row.cancelling = order[o].cancelling /\ row.grant = order[o].grant
    BY <1>1 DEF Row, Status
  <1>3. /\ Write(o, row) /\ Emit("OrderConfirmed", o, row)
        /\ Unlock(o) /\ UNCHANGED <<clock, batch>>
    BY DEF CommitReserved
  <1> HIDE DEF row
  <1>4. orderLog' \subseteq Event
    BY <1>1, <1>2, <1>3, EmitType
  <1>5. /\ tx' \in [Orders -> Transaction]
        /\ \A x \in Orders : tx'[x].kind = IF x = o THEN "none" ELSE tx[x].kind
    BY <1>1, <1>3, UnlockType
  <1>6. QED
    BY <1>1, <1>2, <1>3, <1>4, <1>5, RowStep DEF OrderTypeOK

LEMMA CommitInsufficientStep ==
    ASSUME OrderInv, NEW o \in Orders, CommitInsufficient(o)
    PROVE  OrderInv'
  <1> DEFINE since == IF order[o].since = 0 THEN clock + 1 ELSE order[o].since
             row == [order[o] EXCEPT !.status = "PENDING_STOCK", !.since = since]
  <1>1. OrderTypeOK /\ order[o] \in Row /\ order[o].status \in EDITABLE
        /\ ~order[o].cancelling /\ order[o].grant = NoRequest
    BY DEF OrderInv, OrderTypeOK, OrderRows, CommitInsufficient, Unlocked, Granted, EDITABLE
  <1>2. since \in Nat /\ clock' \in Nat
    BY <1>1 DEF OrderTypeOK, Row, CommitInsufficient
  <1>3. /\ Write(o, row) /\ (UNCHANGED orderLog \/ Emit("OrderPendingStock", o, row))
        /\ Unlock(o) /\ UNCHANGED batch
    BY DEF CommitInsufficient
  <1> HIDE DEF since
  <1>4. /\ row \in Row /\ row.status = "PENDING_STOCK"
        /\ row.cancelling = order[o].cancelling /\ row.grant = order[o].grant
    BY <1>1, <1>2 DEF Row, Status
  <1> HIDE DEF row
  <1>5. orderLog' \subseteq Event
    <2>1. CASE UNCHANGED orderLog
      BY <1>1, <2>1 DEF OrderTypeOK
    <2>2. CASE Emit("OrderPendingStock", o, row)
      BY <1>1, <1>4, <2>2, EmitType
    <2>3. QED
      BY <1>3, <2>1, <2>2
  <1>6. /\ tx' \in [Orders -> Transaction]
        /\ \A x \in Orders : tx'[x].kind = IF x = o THEN "none" ELSE tx[x].kind
    BY <1>1, <1>3, UnlockType
  <1>7. QED
    BY <1>1, <1>2, <1>3, <1>4, <1>5, <1>6, RowStep DEF OrderTypeOK

LEMMA CommitUpdateStep ==
    ASSUME OrderInv, NEW o \in Orders, NEW content \in BOOLEAN, CommitUpdate(o, content)
    PROVE  OrderInv'
  <1> DEFINE lines == IF content THEN tx[o].lines ELSE order[o].lines
             restart == content /\ order[o].status = "PENDING_STOCK"
             since == IF restart THEN clock + 1 ELSE order[o].since
             row == [order[o] EXCEPT !.lines = lines, !.since = since]
  <1>1. OrderTypeOK /\ order[o] \in Row /\ order[o].status \in EDITABLE
        /\ ~order[o].cancelling /\ order[o].grant = NoRequest
    BY DEF OrderInv, OrderTypeOK, OrderRows, CommitUpdate, Unlocked, Granted, EDITABLE
  <1>2. lines \in Demands /\ since \in Nat /\ clock' \in Nat
    BY <1>1 DEF OrderTypeOK, Row, Transaction, CommitUpdate
  <1>3. /\ Write(o, row) /\ Emit("OrderUpdated", o, row)
        /\ Unlock(o) /\ UNCHANGED batch
    BY DEF CommitUpdate
  <1> HIDE DEF lines, since
  <1>4. /\ row \in Row /\ row.status = order[o].status
        /\ row.cancelling = order[o].cancelling /\ row.grant = order[o].grant
    BY <1>1, <1>2 DEF Row
  <1> HIDE DEF row
  <1>5. orderLog' \subseteq Event
    BY <1>1, <1>3, <1>4, EmitType
  <1>6. /\ tx' \in [Orders -> Transaction]
        /\ \A x \in Orders : tx'[x].kind = IF x = o THEN "none" ELSE tx[x].kind
    BY <1>1, <1>3, UnlockType
  <1>7. QED
    BY <1>1, <1>2, <1>3, <1>4, <1>5, <1>6, RowStep DEF OrderTypeOK, EDITABLE

LEMMA RequestCancelStep ==
    ASSUME OrderInv, NEW o \in Orders, RequestCancel(o)
    PROVE  OrderInv'
  <1> DEFINE row == [order[o] EXCEPT !.cancelling = TRUE]
  <1>1. /\ OrderTypeOK /\ order[o] \in Row /\ order[o].status \in CANCELABLE
        /\ order[o].grant = NoRequest /\ tx[o].kind = "none"
    BY DEF OrderInv, OrderTypeOK, RequestCancel, assertWritable, Granted, Unlocked
  <1>2. row \in Row /\ row.status = order[o].status /\ row.grant = order[o].grant
    BY <1>1 DEF Row
  <1>3. Write(o, row) /\ UNCHANGED <<tx, clock, orderLog, batch>>
    BY DEF RequestCancel
  <1> HIDE DEF row
  <1>4. QED
    BY <1>1, <1>2, <1>3, RowStep DEF OrderTypeOK, CANCELABLE

LEMMA FinishCancelStep ==
    ASSUME OrderInv, NEW o \in Orders, FinishCancel(o)
    PROVE  OrderInv'
  <1> DEFINE row == [order[o] EXCEPT !.status = "CANCELED", !.cancelling = FALSE]
  <1>1. /\ OrderTypeOK /\ order[o] \in Row
        /\ order[o].grant = NoRequest /\ tx[o].kind = "none"
    BY DEF OrderInv, OrderTypeOK, FinishCancel, CanFinishCancel, Granted, Unlocked
  <1>2. /\ row \in Row /\ row.status = "CANCELED" /\ row.cancelling = FALSE
        /\ row.grant = order[o].grant
    BY <1>1 DEF Row, Status
  <1>3. Write(o, row) /\ Emit("OrderCanceled", o, row) /\ UNCHANGED <<tx, clock, batch>>
    BY DEF FinishCancel
  <1> HIDE DEF row
  <1>4. orderLog' \subseteq Event
    BY <1>1, <1>2, <1>3, EmitType
  <1>5. QED
    BY <1>1, <1>2, <1>3, <1>4, RowStep DEF OrderTypeOK

\* A shipment event reaches delivery only through the grant it names.
LEMMA ApplyShipmentStep ==
    ASSUME OrderInv, NEW o \in Orders, NEW target \in TARGETS, NEW sv \in Nat,
           NEW g, NEW r, ApplyShipment(o, target, sv, g, r)
    PROVE  OrderInv'
  <1> DEFINE row == [order[o] EXCEPT !.status = target, !.seen = sv]
  <1>1. OrderTypeOK /\ order[o] \in Row /\ tx[o].kind = "none"
    BY DEF OrderInv, OrderTypeOK, ApplyShipment, Unlocked
  <1>2. /\ row \in Row /\ row.status = target /\ row.cancelling = order[o].cancelling
        /\ row.grant = order[o].grant /\ row.group = order[o].group
    BY <1>1 DEF Row, Status, TARGETS
  <1>3. Write(o, row) /\ UNCHANGED <<tx, clock, orderLog, batch>>
    BY DEF ApplyShipment
  <1> HIDE DEF row
  <1>4. /\ ~order[o].cancelling
        /\ target \in ALLOWED_TRANSITIONS[order[o].status]
        /\ target = "IN_DELIVERY" => order[o].grant # NoRequest
    BY DEF ApplyShipment, ShipmentVerdict, canTransition, Granted
  <1>5. order[o].status \in Status
    BY <1>1 DEF Row
  <1>6. /\ target \in {"COMPLETED", "DELIVERY_FAILED"} => order[o].status = "IN_DELIVERY"
        /\ target \in {"PICKING", "READY_TO_SHIP"}
              => order[o].status \in {"CONFIRMED", "PICKING"}
    BY <1>4, <1>5 DEF ALLOWED_TRANSITIONS, Status
  <1>7. /\ order[o].grant # NoRequest
              => order[o].group # 0 /\ order[o].status \notin {"CONFIRMED", "PICKING"}
        /\ order[o].status = "IN_DELIVERY" => order[o].grant # NoRequest
    BY DEF OrderInv, OrderRows, Granted
  <1>8. QED
    BY <1>1, <1>2, <1>3, <1>4, <1>6, <1>7, RowStep DEF OrderTypeOK, TARGETS

\* A new grant goes to an ungranted order and names an unused request.
LEMMA AuthorizeStep ==
    ASSUME OrderInv, NEW o \in Orders, NEW r \in Requests, NEW v, NEW g,
           Authorize(o, r, v, g)
    PROVE  OrderInv'
  <1> DEFINE row == [order[o] EXCEPT !.grant = r]
  <1>1. /\ OrderTypeOK /\ order[o] \in Row /\ tx[o].kind = "none"
        /\ order[o].grant = NoRequest /\ ~order[o].cancelling
        /\ order[o].status = "READY_TO_SHIP" /\ order[o].group # 0
        /\ \A x \in Orders : order[x].grant # r
    BY DEF OrderInv, OrderTypeOK, Authorize, Dispatchable, RequestUsed, Granted, Unlocked
  <1>2. /\ row \in Row /\ row.status = order[o].status /\ row.grant = r
        /\ row.cancelling = order[o].cancelling /\ row.group = order[o].group
        /\ row.version = order[o].version
    BY <1>1 DEF Row
  <1>3. Write(o, row) /\ UNCHANGED <<tx, clock, orderLog, batch>>
    BY DEF Authorize
  <1> HIDE DEF row
  <1>4. /\ order' \in [Orders -> Row]
        /\ \A x \in Orders : x # o => order'[x] = order[x]
        /\ order'[o].status = row.status
        /\ order'[o].version = row.version + 1
        /\ order'[o].cancelling = row.cancelling
        /\ order'[o].group = row.group
        /\ order'[o].grant = row.grant
    BY <1>1, <1>2, <1>3, WriteRow
  <1>5. OrderTypeOK'
    BY <1>1, <1>3, <1>4 DEF OrderTypeOK
  <1>6. order'[o].version > 0
    BY <1>2, <1>4 DEF Row
  <1>7. OrderRows'
    BY <1>1, <1>2, <1>3, <1>4, <1>6
    DEF OrderInv, OrderRows, Exists, Granted, Unlocked, EDITABLE
  <1>8. RequestGrantedOnce'
    BY <1>1, <1>2, <1>4 DEF OrderInv, RequestGrantedOnce, Granted
  <1>9. BatchStands'
    BY <1>1, <1>3, <1>4 DEF OrderInv, BatchStands, Members
  <1>10. QED
    BY <1>5, <1>7, <1>8, <1>9 DEF OrderInv

LEMMA AuthorizeBatchStep ==
    ASSUME OrderInv, NEW b \in Batches, NEW child \in Children, NEW ver, NEW grp,
           DistinctChildren(child), AuthorizeBatch(b, child, ver, grp)
    PROVE  OrderInv'
  <1> DEFINE granted == BatchDispatchable(child, ver, grp)
             new == [decision |-> IF granted THEN "GRANTED" ELSE "REJECTED",
                     child |-> child]
  <1>1. /\ OrderTypeOK /\ \A x \in Orders : order[x] \in Row
        /\ batch' = [batch EXCEPT ![b] = new]
        /\ UNCHANGED <<tx, clock, orderLog>>
        /\ batch[b].decision = "NONE"
    BY DEF OrderInv, OrderTypeOK, AuthorizeBatch
  <1>2. /\ new \in BatchRow /\ new.child = child
        /\ new.decision = "GRANTED" => granted
    BY DEF BatchRow
  <1>3. batch' \in [Batches -> BatchRow]
    BY <1>1, <1>2 DEF OrderTypeOK
  <1>4. ASSUME NEW x \in Orders, ~(granted /\ x \in Members(child))
        PROVE  order'[x] = order[x]
    BY <1>4 DEF AuthorizeBatch
  <1>5. ASSUME NEW x \in Orders, granted, x \in Members(child)
        PROVE  /\ order[x].grant = NoRequest /\ ~order[x].cancelling
               /\ order[x].status = "READY_TO_SHIP" /\ order[x].group # 0
               /\ tx[x].kind = "none"
               /\ \A y \in Orders : order[y].grant # child[x]
               /\ order'[x] \in Row
               /\ order'[x].status = order[x].status
               /\ order'[x].version > 0
               /\ order'[x].cancelling = order[x].cancelling
               /\ order'[x].group = order[x].group
               /\ order'[x].grant = child[x]
    <2> DEFINE row == [order[x] EXCEPT !.grant = child[x]]
    <2>1. order'[x] = Bumped(row)
      BY <1>5 DEF AuthorizeBatch
    <2>2. /\ order[x] \in Row /\ child[x] \in Requests
          /\ row \in Row /\ row.status = order[x].status /\ row.grant = child[x]
          /\ row.version = order[x].version /\ row.cancelling = order[x].cancelling
          /\ row.group = order[x].group
      BY <1>1, <1>5 DEF Members, Children, Row
    <2> HIDE DEF row
    <2>3. /\ Dispatchable(x, ver[x], grp[x]) /\ ~RequestUsed(child[x]) /\ Unlocked(x)
      BY <1>5 DEF BatchDispatchable, AuthorizeBatch
    <2>4. /\ order'[x] \in Row
          /\ order'[x].status = order[x].status
          /\ order'[x].version = order[x].version + 1
          /\ order'[x].cancelling = order[x].cancelling
          /\ order'[x].group = order[x].group
          /\ order'[x].grant = child[x]
      BY <2>1, <2>2, BumpedRow
    <2>5. order'[x].version > 0
      BY <2>2, <2>4 DEF Row
    <2>6. QED
      BY <2>3, <2>4, <2>5 DEF Dispatchable, RequestUsed, Granted, Unlocked
  <1> HIDE DEF granted
  <1>6. order' \in [Orders -> Row]
    <2> DEFINE row(x) == IF granted /\ x \in Members(child)
                         THEN Bumped([order[x] EXCEPT !.grant = child[x]])
                         ELSE order[x]
    <2>1. order' = [x \in Orders |-> row(x)]
      BY DEF AuthorizeBatch, granted
    <2> HIDE DEF row
    <2>2. \A x \in Orders : order'[x] \in Row
      BY <1>1, <1>4, <1>5
    <2>3. QED
      BY <2>1, <2>2
  <1>7. OrderTypeOK'
    BY <1>1, <1>3, <1>6 DEF OrderTypeOK
  <1>8. OrderRows'
    <2>1. ASSUME NEW x \in Orders
          PROVE  /\ Exists(x)' => order'[x].version > 0
                 /\ order'[x].cancelling => order'[x].status \in CANCELABLE /\ ~Granted(x)'
                 /\ ~Unlocked(x)' => /\ order'[x].status \in EDITABLE
                                     /\ ~order'[x].cancelling
                 /\ order'[x].status \in {"IN_DELIVERY", "COMPLETED", "DELIVERY_FAILED"}
                       => Granted(x)'
                 /\ Granted(x)' => /\ order'[x].group # 0
                                   /\ order'[x].status \in {"READY_TO_SHIP", "IN_DELIVERY",
                                                            "COMPLETED", "DELIVERY_FAILED"}
      <3>1. CASE granted /\ x \in Members(child)
        BY <1>1, <1>5, <3>1 DEF Members, Exists, Granted, Unlocked
      <3>2. CASE ~(granted /\ x \in Members(child))
        BY <1>1, <1>4, <3>2 DEF OrderInv, OrderRows, Exists, Granted, Unlocked
      <3>3. QED
        BY <3>1, <3>2
    <2>2. QED
      BY <2>1 DEF OrderRows
  <1>9. RequestGrantedOnce'
    <2>1. ASSUME NEW x \in Orders, NEW y \in Orders, order'[x].grant # NoRequest,
                 order'[x].grant = order'[y].grant
          PROVE  x = y
      <3>1. CASE (granted /\ x \in Members(child)) /\ (granted /\ y \in Members(child))
        BY <1>5, <2>1, <3>1 DEF DistinctChildren
      <3>2. CASE (granted /\ x \in Members(child)) /\ ~(granted /\ y \in Members(child))
        BY <1>4, <1>5, <2>1, <3>2
      <3>3. CASE ~(granted /\ x \in Members(child)) /\ (granted /\ y \in Members(child))
        BY <1>4, <1>5, <2>1, <3>3
      <3>4. CASE ~(granted /\ x \in Members(child)) /\ ~(granted /\ y \in Members(child))
        BY <1>4, <2>1, <3>4 DEF OrderInv, RequestGrantedOnce, Granted
      <3>5. QED
        BY <3>1, <3>2, <3>3, <3>4
    <2>2. QED
      BY <2>1 DEF RequestGrantedOnce, Granted
  <1>10. BatchStands'
    <2>1. ASSUME NEW c \in Batches, batch'[c].decision = "GRANTED",
                 NEW x \in Members(batch'[c].child)
          PROVE  order'[x].grant = batch'[c].child[x]
      <3>1. CASE c = b
        <4>1. batch'[c] = new
          BY <1>1, <3>1 DEF OrderTypeOK
        <4>2. granted /\ x \in Members(child) /\ x \in Orders
          BY <1>2, <2>1, <4>1 DEF Members
        <4>3. QED
          BY <1>2, <1>5, <4>1, <4>2
      <3>2. CASE c # b
        <4>1. batch'[c] = batch[c]
          BY <1>1, <3>2 DEF OrderTypeOK
        <4>2. x \in Orders /\ order[x].grant = batch[c].child[x] /\ order[x].grant # NoRequest
          BY <2>1, <4>1 DEF OrderInv, BatchStands, Members
        <4>3. order'[x] = order[x]
          BY <1>4, <1>5, <4>2
        <4>4. QED
          BY <4>1, <4>2, <4>3
      <3>3. QED
        BY <3>1, <3>2
    <2>2. QED
      BY <2>1 DEF BatchStands, Members
  <1>11. QED
    BY <1>7, <1>8, <1>9, <1>10 DEF OrderInv

-----------------------------------------------------------------------------
LEMMA OrderInitially == OrderInit => OrderInv
  <1> SUFFICES ASSUME OrderInit PROVE OrderInv
    OBVIOUS
  <1>1. AnyLines \in Demands
    BY OrderAssumption DEF AnyLines
  <1>2. OrderTypeOK
    BY <1>1 DEF OrderInit, OrderTypeOK, Row, Transaction, Event, BatchRow, Children,
                NoChildren, Status
  <1>3. OrderRows
    BY DEF OrderInit, OrderRows, Exists, Granted, Unlocked
  <1>4. RequestGrantedOnce
    BY DEF OrderInit, RequestGrantedOnce, Granted
  <1>5. BatchStands
    BY DEF OrderInit, BatchStands
  <1>6. QED
    BY <1>2, <1>3, <1>4, <1>5 DEF OrderInv

LEMMA OrderStep == OrderInv /\ [OrderNext]_orderVars => OrderInv'
  <1> SUFFICES ASSUME OrderInv, [OrderNext]_orderVars PROVE OrderInv'
    OBVIOUS
  <1>1. ASSUME NEW o \in Orders, NEW lines \in Demands,
               Create(o, lines) \/ BeginUpdate(o, lines)
        PROVE  OrderInv'
    BY <1>1, CreateStep, BeginUpdateStep
  <1>2. ASSUME NEW o \in Orders, NEW retryOnly \in BOOLEAN,
               BeginConfirm(o, order[o].version, retryOnly)
        PROVE  OrderInv'
    BY <1>2, BeginConfirmStep
  <1>3. ASSUME NEW o \in Orders,
               \/ CommitReserved(o) \/ CommitInsufficient(o) \/ Abort(o)
               \/ RequestCancel(o) \/ FinishCancel(o)
        PROVE  OrderInv'
    BY <1>3, CommitReservedStep, CommitInsufficientStep, AbortStep,
       RequestCancelStep, FinishCancelStep
  <1>4. ASSUME NEW o \in Orders, NEW content \in BOOLEAN, CommitUpdate(o, content)
        PROVE  OrderInv'
    BY <1>4, CommitUpdateStep
  <1>5. ASSUME NEW o \in Orders, NEW r \in Requests,
               Authorize(o, r, order[o].version, order[o].group)
        PROVE  OrderInv'
    BY <1>5, AuthorizeStep
  <1>6. ASSUME NEW o \in Orders, NEW target \in TARGETS,
               NEW sv \in 1 .. (order[o].seen + 1), NEW r \in Requests,
               ApplyShipment(o, target, sv, order[o].group, r)
        PROVE  OrderInv'
    <2>1. sv \in Nat
      BY DEF OrderInv, OrderTypeOK, Row
    <2>2. QED
      BY <1>6, <2>1, ApplyShipmentStep
  <1>7. ASSUME NEW b \in Batches, NEW child \in Children, NEW stale \in SUBSET Orders,
               DistinctChildren(child),
               AuthorizeBatch(b, child, CallerVersions(stale),
                              [o \in Orders |-> order[o].group])
        PROVE  OrderInv'
    BY <1>7, AuthorizeBatchStep
  <1>8. CASE UNCHANGED orderVars
    BY <1>8 DEF OrderInv, OrderTypeOK, OrderRows, RequestGrantedOnce, BatchStands,
                orderVars, Exists, Granted, Unlocked, Members
  <1>9. QED
    BY <1>1, <1>2, <1>3, <1>4, <1>5, <1>6, <1>7, <1>8 DEF OrderNext

\* The inductive invariant holds in every state the service reaches.
THEOREM OrderInvariant == OrderSpec => []OrderInv
  <1>1. QED
    BY OrderInitially, OrderStep, PTL DEF OrderSpec

\* Type correctness of the order-service.
THEOREM OrderTypeCorrect == OrderSpec => []OrderTypeOK
  <1>1. OrderInv => OrderTypeOK
    BY DEF OrderInv
  <1>2. QED
    BY <1>1, OrderInvariant, PTL

(***************************************************************************)
(* A dispatch grant and a cancellation exclude each other, in whatever     *)
(* order authorize, cancel and completeCancellation run.                   *)
(***************************************************************************)
THEOREM GrantXorCancel == OrderSpec => []GrantExcludesCancellation
  <1>1. OrderInv => GrantExcludesCancellation
    BY DEF OrderInv, OrderRows, GrantExcludesCancellation, Granted
  <1>2. QED
    BY <1>1, OrderInvariant, PTL

\* No order is under way or delivered without a grant for reserved goods.
THEOREM DeliveryIsGranted == OrderSpec => []DeliveryUnderGrant
  <1>1. OrderInv => DeliveryUnderGrant
    BY DEF OrderInv, OrderRows, DeliveryUnderGrant, Granted
  <1>2. QED
    BY <1>1, OrderInvariant, PTL

\* A dispatch request authorises one order only, batches included.
THEOREM RequestsAreUnique == OrderSpec => []RequestGrantedOnce
  <1>1. OrderInv => RequestGrantedOnce
    BY DEF OrderInv
  <1>2. QED
    BY <1>1, OrderInvariant, PTL

\* What a batch decision granted stays granted, to every order of the batch.
THEOREM BatchGrantsStand == OrderSpec => []BatchStands
  <1>1. OrderInv => BatchStands
    BY DEF OrderInv
  <1>2. QED
    BY <1>1, OrderInvariant, PTL

-----------------------------------------------------------------------------
(***************************************************************************)
(* No step of the service takes a grant back or changes the reservation    *)
(* group of a granted order: confirm, the only writer of the group, runs   *)
(* on editable orders, and those are not granted.                          *)
(***************************************************************************)
LEMMA GrantStep ==
    OrderInv /\ [OrderNext]_orderVars
        => [\A o \in Orders : Granted(o) => /\ order'[o].grant = order[o].grant
                                            /\ order'[o].group = order[o].group]_orderVars
  <1> SUFFICES ASSUME OrderInv, OrderNext, NEW o \in Orders, Granted(o)
              PROVE  /\ order'[o].grant = order[o].grant
                     /\ order'[o].group = order[o].group
    OBVIOUS
  <1>1. /\ order \in [Orders -> Row]
        /\ Unlocked(o)
        /\ Exists(o)
    BY DEF OrderInv, OrderTypeOK, OrderRows, Granted, EDITABLE, Exists
  <1> DEFINE Kept(x, row) == x = o => /\ row.grant = order[o].grant
                                      /\ row.group = order[o].group
  <1>2. ASSUME NEW x \in Orders, NEW row \in Row, Write(x, row), Kept(x, row)
        PROVE  order'[o].grant = order[o].grant /\ order'[o].group = order[o].group
    BY <1>2, WriteRow DEF OrderInv
  <1>3. ASSUME NEW x \in Orders, NEW lines \in Demands, Create(x, lines)
        PROVE  order'[o].grant = order[o].grant /\ order'[o].group = order[o].group
    BY <1>1, <1>3 DEF Create, Write
  <1>4. ASSUME NEW x \in Orders,
               \/ \E lines \in Demands : BeginUpdate(x, lines)
               \/ \E retryOnly \in BOOLEAN : BeginConfirm(x, order[x].version, retryOnly)
               \/ Abort(x)
        PROVE  order' = order
    BY <1>4 DEF BeginUpdate, BeginConfirm, Abort
  <1>5. ASSUME NEW x \in Orders,
               \/ CommitReserved(x) \/ CommitInsufficient(x)
               \/ \E content \in BOOLEAN : CommitUpdate(x, content)
        PROVE  order'[o].grant = order[o].grant /\ order'[o].group = order[o].group
    <2>1. x # o
      BY <1>1, <1>5 DEF CommitReserved, CommitInsufficient, CommitUpdate, Unlocked
    <2>2. QED
      BY <1>1, <1>5, <2>1 DEF CommitReserved, CommitInsufficient, CommitUpdate, Write
  <1>6. ASSUME NEW x \in Orders, RequestCancel(x)
        PROVE  order'[o].grant = order[o].grant /\ order'[o].group = order[o].group
    <2>1. [order[x] EXCEPT !.cancelling = TRUE] \in Row
      BY <1>1 DEF Row
    <2>2. Kept(x, [order[x] EXCEPT !.cancelling = TRUE])
      BY <1>1 DEF Row
    <2>3. QED
      BY <1>2, <1>6, <2>1, <2>2 DEF RequestCancel
  <1>7. ASSUME NEW x \in Orders, FinishCancel(x)
        PROVE  order'[o].grant = order[o].grant /\ order'[o].group = order[o].group
    <2>1. x # o
      BY <1>7 DEF FinishCancel, CanFinishCancel
    <2>2. QED
      BY <1>1, <1>7, <2>1 DEF FinishCancel, Write
  <1>8. ASSUME NEW x \in Orders, NEW r \in Requests,
               Authorize(x, r, order[x].version, order[x].group)
        PROVE  order'[o].grant = order[o].grant /\ order'[o].group = order[o].group
    <2>1. x # o
      BY <1>8 DEF Authorize, Dispatchable
    <2>2. QED
      BY <1>1, <1>8, <2>1 DEF Authorize, Write
  <1>9. ASSUME NEW x \in Orders, NEW target \in TARGETS, NEW sv \in 1 .. (order[x].seen + 1),
               NEW r \in Requests, ApplyShipment(x, target, sv, order[x].group, r)
        PROVE  order'[o].grant = order[o].grant /\ order'[o].group = order[o].group
    <2> DEFINE row == [order[x] EXCEPT !.status = target, !.seen = sv]
    <2>1. sv \in Nat /\ target \in Status
      BY <1>1 DEF Row, TARGETS, Status
    <2>2. row \in Row /\ row.grant = order[x].grant /\ row.group = order[x].group
      BY <1>1, <2>1 DEF Row
    <2>3. Write(x, row)
      BY <1>9 DEF ApplyShipment
    <2> HIDE DEF row
    <2>4. QED
      BY <1>2, <2>2, <2>3
  <1>10. ASSUME NEW b \in Batches, NEW child \in Children, NEW ver, NEW grp,
                AuthorizeBatch(b, child, ver, grp)
         PROVE  order'[o] = order[o]
    <2>1. BatchDispatchable(child, ver, grp) => o \notin Members(child)
      BY DEF BatchDispatchable, Dispatchable
    <2>2. QED
      BY <1>1, <1>10, <2>1 DEF AuthorizeBatch
  <1>11. QED
    BY <1>3, <1>4, <1>5, <1>6, <1>7, <1>8, <1>9, <1>10 DEF OrderNext

(***************************************************************************)
(* A dispatch grant is irrevocable, and so is the reservation it is for.   *)
(***************************************************************************)
THEOREM GrantsAreFinal == OrderSpec => GrantIrrevocable
  <1>1. QED
    BY OrderInvariant, GrantStep, PTL DEF OrderSpec, GrantIrrevocable

\* The transitions that writers take without asking the state machine.
LEMMA UnaskedTransitions ==
    /\ \A s \in EDITABLE : canTransition(s, "CONFIRMED")
    /\ \A s \in EDITABLE : s # "PENDING_STOCK" => canTransition(s, "PENDING_STOCK")
    /\ \A s \in CANCELABLE : canTransition(s, "CANCELED")
  BY DEF EDITABLE, CANCELABLE, canTransition, ALLOWED_TRANSITIONS, Status

\* Every step of the service, for the status of one order.
LEMMA StatusStep ==
    OrderInv /\ [OrderNext]_orderVars
        => [\A o \in Orders : order'[o].status # order[o].status
              => \/ order[o].status = "NONE" /\ order'[o].status = "DRAFT"
                 \/ canTransition(order[o].status, order'[o].status)]_orderVars
  <1> DEFINE Follows(o) == \/ order'[o].status = order[o].status
                           \/ order[o].status = "NONE" /\ order'[o].status = "DRAFT"
                           \/ canTransition(order[o].status, order'[o].status)
  <1> SUFFICES ASSUME OrderInv, OrderNext, NEW o \in Orders
              PROVE  Follows(o)
    OBVIOUS
  <1>1. /\ OrderTypeOK /\ order \in [Orders -> Row]
        /\ ~Unlocked(o) => order[o].status \in EDITABLE
        /\ order[o].cancelling => order[o].status \in CANCELABLE
    BY DEF OrderInv, OrderTypeOK, OrderRows
  <1>2. ASSUME NEW x \in Orders, NEW row \in Row, Write(x, row),
               x = o => \/ row.status = order[o].status
                        \/ order[o].status = "NONE" /\ row.status = "DRAFT"
                        \/ canTransition(order[o].status, row.status)
        PROVE  Follows(o)
    <2>1. order'[x].status = row.status /\ (x # o => order'[o] = order[o])
      BY <1>1, <1>2, WriteRow
    <2>2. QED
      BY <1>2, <2>1
  <1>3. ASSUME NEW x \in Orders, NEW lines \in Demands, Create(x, lines)
        PROVE  Follows(o)
    <2> DEFINE row == [order[x] EXCEPT !.status = "DRAFT", !.lines = lines]
    <2>1. row \in Row /\ row.status = "DRAFT"
      BY <1>1 DEF Row, Status
    <2>2. Write(x, row) /\ order[x].status = "NONE"
      BY <1>3 DEF Create, Exists
    <2> HIDE DEF row, Follows
    <2>3. QED
      BY <1>2, <2>1, <2>2
  <1>4. ASSUME NEW x \in Orders,
               \/ \E lines \in Demands : BeginUpdate(x, lines)
               \/ \E retryOnly \in BOOLEAN : BeginConfirm(x, order[x].version, retryOnly)
               \/ Abort(x)
        PROVE  Follows(o)
    BY <1>4 DEF BeginUpdate, BeginConfirm, Abort
  <1>5. ASSUME NEW x \in Orders, CommitReserved(x)
        PROVE  Follows(o)
    <2> DEFINE row == [order[x] EXCEPT !.status = "CONFIRMED", !.group = order[x].version]
    <2>1. row \in Row /\ row.status = "CONFIRMED"
      BY <1>1 DEF Row, Status
    <2>2. Write(x, row) /\ ~Unlocked(x)
      BY <1>5 DEF CommitReserved, Unlocked
    <2> HIDE DEF row, Follows
    <2>3. QED
      BY <1>1, <1>2, <2>1, <2>2, UnaskedTransitions
  <1>6. ASSUME NEW x \in Orders, CommitInsufficient(x)
        PROVE  Follows(o)
    <2> DEFINE since == IF order[x].since = 0 THEN clock + 1 ELSE order[x].since
               row == [order[x] EXCEPT !.status = "PENDING_STOCK", !.since = since]
    <2>1. since \in Nat
      BY <1>1 DEF Row, OrderTypeOK
    <2>2. row \in Row /\ row.status = "PENDING_STOCK"
      BY <1>1, <2>1 DEF Row, Status
    <2>3. Write(x, row) /\ ~Unlocked(x)
      BY <1>1, <1>6 DEF CommitInsufficient, Unlocked, Row
    <2> HIDE DEF row, since, Follows
    <2>4. QED
      BY <1>1, <1>2, <2>2, <2>3, UnaskedTransitions
  <1>7. ASSUME NEW x \in Orders, NEW content \in BOOLEAN, CommitUpdate(x, content)
        PROVE  Follows(o)
    <2> DEFINE lines == IF content THEN tx[x].lines ELSE order[x].lines
               since == IF content /\ order[x].status = "PENDING_STOCK"
                        THEN clock + 1 ELSE order[x].since
               row == [order[x] EXCEPT !.lines = lines, !.since = since]
    <2>1. since \in Nat /\ lines \in Demands
      BY <1>1 DEF Row, OrderTypeOK, Transaction
    <2>2. row \in Row /\ row.status = order[x].status
      BY <1>1, <2>1 DEF Row
    <2>3. Write(x, row)
      BY <1>1, <1>7 DEF CommitUpdate, Row
    <2> HIDE DEF row, since, lines, Follows
    <2>4. QED
      BY <1>2, <2>2, <2>3
  <1>8. ASSUME NEW x \in Orders, RequestCancel(x)
        PROVE  Follows(o)
    <2> DEFINE row == [order[x] EXCEPT !.cancelling = TRUE]
    <2>1. row \in Row /\ row.status = order[x].status
      BY <1>1 DEF Row
    <2>2. Write(x, row)
      BY <1>8 DEF RequestCancel
    <2> HIDE DEF row, Follows
    <2>3. QED
      BY <1>2, <2>1, <2>2
  <1>9. ASSUME NEW x \in Orders, FinishCancel(x)
        PROVE  Follows(o)
    <2> DEFINE row == [order[x] EXCEPT !.status = "CANCELED", !.cancelling = FALSE]
    <2>1. row \in Row /\ row.status = "CANCELED"
      BY <1>1 DEF Row, Status
    <2>2. Write(x, row) /\ order[x].cancelling
      BY <1>9 DEF FinishCancel, CanFinishCancel
    <2> HIDE DEF row, Follows
    <2>3. QED
      BY <1>1, <1>2, <2>1, <2>2, UnaskedTransitions
  <1>10. ASSUME NEW x \in Orders, NEW r \in Requests,
                Authorize(x, r, order[x].version, order[x].group)
         PROVE  Follows(o)
    <2> DEFINE row == [order[x] EXCEPT !.grant = r]
    <2>1. row \in Row /\ row.status = order[x].status
      BY <1>1 DEF Row
    <2>2. Write(x, row)
      BY <1>10 DEF Authorize
    <2> HIDE DEF row, Follows
    <2>3. QED
      BY <1>2, <2>1, <2>2
  <1>11. ASSUME NEW x \in Orders, NEW target \in TARGETS,
                NEW sv \in 1 .. (order[x].seen + 1), NEW r \in Requests,
                ApplyShipment(x, target, sv, order[x].group, r)
         PROVE  Follows(o)
    <2> DEFINE row == [order[x] EXCEPT !.status = target, !.seen = sv]
    <2>1. sv \in Nat /\ target \in Status
      BY <1>1 DEF Row, TARGETS, Status
    <2>2. row \in Row /\ row.status = target
      BY <1>1, <2>1 DEF Row
    <2>3. Write(x, row) /\ canTransition(order[x].status, target)
      BY <1>11 DEF ApplyShipment, ShipmentVerdict
    <2> HIDE DEF row, Follows
    <2>4. QED
      BY <1>2, <2>2, <2>3
  <1>12. ASSUME NEW b \in Batches, NEW child \in Children, NEW ver, NEW grp,
                AuthorizeBatch(b, child, ver, grp)
         PROVE  Follows(o)
    <2> DEFINE row == [order[o] EXCEPT !.grant = child[o]]
    <2>1. order'[o] = order[o] \/ order'[o] = Bumped(row)
      BY <1>12 DEF AuthorizeBatch
    <2>2. row \in Row /\ row.status = order[o].status
      BY <1>1 DEF Row, Children
    <2> HIDE DEF row
    <2>3. QED
      BY <2>1, <2>2, BumpedRow
  <1> HIDE DEF Follows
  <1>13. QED
    BY <1>3, <1>4, <1>5, <1>6, <1>7, <1>8, <1>9, <1>10, <1>11, <1>12 DEF OrderNext

(***************************************************************************)
(* Every change of status is one the state machine allows, also where the  *)
(* writer does not ask it: a lock holder works on an editable order, and a *)
(* cancellation is finished only from a status that can be canceled.       *)
(***************************************************************************)
THEOREM StatusMovesAsAllowed == OrderSpec => StatusFollowsStateMachine
  <1>1. QED
    BY OrderInvariant, StatusStep, PTL DEF OrderSpec, StatusFollowsStateMachine
=============================================================================
