-------------------------- MODULE ReservationProofs --------------------------
(***************************************************************************)
(* Proofs about the reservation protocol, for any number of orders, any    *)
(* stock and any loss, delay and reordering of calls.  The argument rests  *)
(* on the idempotency key: every write of the order row makes a new key,   *)
(* so a request or a group that carries the current key was made for the   *)
(* row as it is, and one with an older key can never be taken over.        *)
(***************************************************************************)
EXTENDS OrderReservation, OrderProofs

Request == [order : Orders, version : Inv!Versions, lines : Demands, late : BOOLEAN]

LinkTypeOK ==
    /\ rsv \in [Inv!Groups -> Inv!GroupRow]
    /\ reserveNet \subseteq Request
    /\ answer \in [Orders -> {"none", "RESERVED", "INSUFFICIENT", "CONFLICT"}]
    /\ releaseNet \subseteq Orders
    /\ plan \in [Inv!Groups -> {"none", "RELEASE", "ACKNOWLEDGE", "CONFIRM", "CONFIRMING"}]

\* A key <<o, v>> is not ahead of the order, and when it is the current one the
\* order can still be confirmed with exactly the lines the key was made for.
Fits(o, v, lines) ==
    /\ v <= order[o].version
    /\ v = order[o].version => /\ order[o].status \in EDITABLE
                               /\ ~order[o].cancelling
                               /\ lines = order[o].lines

KeysFit ==
    \A g \in Inv!Groups : rsv[g].status # "NONE" =>
        /\ Fits(g[1], g[2], rsv[g].lines)
        /\ g[2] = order[g[1]].version => rsv[g].status = "ACTIVE"

\* A request whose caller still waits is the one of the confirm in progress.
RequestsFit ==
    \A q \in reserveNet :
        /\ Fits(q.order, q.version, q.lines)
        /\ ~q.late => /\ q.version = order[q.order].version
                      /\ tx[q.order].kind = "confirm"
                      /\ answer[q.order] = "none"

\* The answer RESERVED speaks of the key of the confirm in progress.
AnswersHold ==
    \A o \in Orders : tx[o].kind = "confirm" =>
        /\ order[o].version \in Inv!Versions
        /\ answer[o] = "RESERVED" => rsv[<<o, order[o].version>>].status # "NONE"

Ending(o) == order[o].cancelling \/ order[o].status = "CANCELED"

\* The order has moved past the group without taking it over.
PassedBy(g) == g[2] < order[g[1]].version /\ order[g[1]].group # g[2]

\* Whoever is about to release goods does it for an order that ends or for a
\* group the order cannot take over any more.
ReleasesMeant ==
    /\ \A o \in releaseNet : Ending(o)
    /\ \A e \in orderLog : e.type = "OrderCanceled" => order[e.order].status = "CANCELED"
    /\ \A g \in Inv!Groups : plan[g] = "RELEASE" =>
          order[g[1]].status = "CANCELED" \/ PassedBy(g)

\* ConfirmedHoldsStock for one order, whose group is one of the groups.
Holds(o) ==
    /\ order[o].status = "NONE" => order[o].version = 0
    /\ order[o].status = "CONFIRMED" =>
        LET g == <<o, order[o].group>> IN
        /\ order[o].group \in Inv!Versions
        /\ ~order[o].cancelling => rsv[g].status = "ACTIVE" /\ rsv[g].lines = order[o].lines

ResInv ==
    /\ OrderInv
    /\ LinkTypeOK
    /\ KeysFit
    /\ RequestsFit
    /\ AnswersHold
    /\ ReleasesMeant
    /\ \A o \in Orders : Holds(o)

-----------------------------------------------------------------------------
(* Facts about rows and keys *)

\* The parts of a group key, and the keys made of an order and a version.
LEMMA Keys ==
    /\ \A g \in Inv!Groups : g[1] \in Orders /\ g[2] \in Inv!Versions /\ g = <<g[1], g[2]>>
    /\ \A o \in Orders, v \in Inv!Versions : <<o, v>> \in Inv!Groups
    /\ \A o, p, v, w : <<o, v>> = <<p, w>> => o = p /\ v = w
    /\ \A o, v : <<o, v>>[1] = o /\ <<o, v>>[2] = v
    /\ \A v \in Inv!Versions : v \in Nat /\ v >= 1 /\ v <= MaxVersion
    /\ \A v \in Nat : v >= 1 /\ v <= MaxVersion => v \in Inv!Versions
  BY OrderAssumption DEF Inv!Groups, Inv!Versions

\* What OrderInv says of one order.
LEMMA OrderRow ==
    ASSUME OrderInv, NEW o \in Orders
    PROVE  /\ order[o] \in Row /\ order[o].version \in Nat /\ order[o].lines \in Demands
           /\ order[o].status \in Status /\ order[o].group \in Nat
           /\ order[o].cancelling \in BOOLEAN
           /\ tx[o].kind \in {"none", "confirm", "update"} /\ tx[o].lines \in Demands
           /\ order[o].status # "NONE" => order[o].version > 0
           /\ tx[o].kind # "none" => order[o].status \in EDITABLE /\ ~order[o].cancelling
           /\ order[o].cancelling => order[o].status \in CANCELABLE
  BY DEF OrderInv, OrderTypeOK, OrderRows, Row, Transaction, Exists, Unlocked

\* The types of a group's row.
LEMMA GroupRowOf ==
    ASSUME LinkTypeOK, NEW g \in Inv!Groups
    PROVE  /\ rsv[g] \in Inv!GroupRow
           /\ rsv[g].status \in {"NONE", "ACTIVE", "RELEASED", "ISSUED"}
  BY DEF LinkTypeOK, Inv!GroupRow, Inv!GroupStatus

(***************************************************************************)
(* A write of one order row passes every key made so far: groups and late  *)
(* requests stay behind.                                                   *)
(***************************************************************************)
LEMMA WriteKeeps ==
    ASSUME ResInv, OrderInv', NEW o \in Orders,
           \A x \in Orders : x # o => order'[x] = order[x] /\ tx'[x] = tx[x],
           order'[o].version = order[o].version + 1,
           order'[o].group \in {order[o].group, order[o].version},
           tx'[o].kind = "none",
           \A q \in reserveNet : q.order = o => q.late,
           Ending(o) => Ending(o)',
           order[o].status = "CANCELED" => order'[o].status = "CANCELED",
           \A e \in orderLog' : e.type = "OrderCanceled" =>
              e \in orderLog \/ (e.order = o /\ order'[o].status = "CANCELED"),
           Holds(o)',
           UNCHANGED <<rsv, reserveNet, answer, releaseNet>>,
           plan' \in [Inv!Groups -> {"none", "RELEASE", "ACKNOWLEDGE", "CONFIRM", "CONFIRMING"}],
           \A g \in Inv!Groups : plan'[g] = "RELEASE" => plan[g] = "RELEASE"
    PROVE  ResInv'
  <1>1. order[o].version \in Nat /\ OrderInv /\ LinkTypeOK
    BY OrderRow DEF ResInv
  <1>2. LinkTypeOK'
    BY <1>1 DEF LinkTypeOK
  <1>3. ASSUME NEW p \in Orders, NEW v \in Nat, NEW lines, Fits(p, v, lines)
        PROVE  Fits(p, v, lines)' /\ (p = o => v < order'[p].version)
    BY <1>1, <1>3 DEF Fits
  <1>4. KeysFit'
    <2> SUFFICES ASSUME NEW g \in Inv!Groups, rsv'[g].status # "NONE"
                 PROVE  /\ Fits(g[1], g[2], rsv[g].lines)'
                        /\ g[2] = order'[g[1]].version => rsv'[g].status = "ACTIVE"
      BY DEF KeysFit
    <2>1. /\ g[1] \in Orders /\ g[2] \in Nat /\ Fits(g[1], g[2], rsv[g].lines)
          /\ g[2] = order[g[1]].version => rsv[g].status = "ACTIVE"
      BY Keys DEF ResInv, KeysFit
    <2>2. Fits(g[1], g[2], rsv[g].lines)' /\ (g[1] = o => g[2] < order'[g[1]].version)
      BY <1>1, <2>1 DEF Fits
    <2>3. QED
      BY <1>1, <2>1, <2>2
  <1>5. RequestsFit'
    <2> SUFFICES ASSUME NEW q \in reserveNet
                 PROVE  /\ Fits(q.order, q.version, q.lines)'
                        /\ ~q.late => /\ q.version = order'[q.order].version
                                      /\ tx'[q.order].kind = "confirm"
                                      /\ answer'[q.order] = "none"
      BY DEF RequestsFit
    <2>1. q.order \in Orders /\ q.version \in Inv!Versions
      BY <1>1 DEF LinkTypeOK, Request
    <2>2. /\ Fits(q.order, q.version, q.lines)
          /\ ~q.late => /\ q.version = order[q.order].version
                        /\ tx[q.order].kind = "confirm"
                        /\ answer[q.order] = "none"
      BY DEF ResInv, RequestsFit
    <2>3. Fits(q.order, q.version, q.lines)'
      BY <1>3, <2>1, <2>2, Keys
    <2>4. QED
      BY <2>1, <2>2, <2>3
  <1>6. AnswersHold'
    BY DEF ResInv, AnswersHold
  <1>7. ReleasesMeant'
    <2>1. \A p \in Orders : Ending(p) => Ending(p)'
      BY DEF Ending
    <2>2. \A p \in releaseNet' : Ending(p)'
      BY <1>1, <2>1 DEF ResInv, ReleasesMeant, LinkTypeOK
    <2>3. \A e \in orderLog' : e.type = "OrderCanceled" => order'[e.order].status = "CANCELED"
      <3> SUFFICES ASSUME NEW e \in orderLog', e.type = "OrderCanceled", e \in orderLog
                   PROVE  order'[e.order].status = "CANCELED"
        OBVIOUS
      <3>1. e.order \in Orders /\ order[e.order].status = "CANCELED"
        BY <1>1 DEF ResInv, ReleasesMeant, OrderInv, OrderTypeOK, Event
      <3>2. QED
        BY <3>1
    <2>4. ASSUME NEW g \in Inv!Groups, plan'[g] = "RELEASE"
          PROVE  order'[g[1]].status = "CANCELED" \/ PassedBy(g)'
      <3>1. order[g[1]].status = "CANCELED" \/ PassedBy(g)
        BY <2>4 DEF ResInv, ReleasesMeant
      <3>2. g[1] \in Orders /\ g[2] \in Nat
        BY Keys
      <3>3. CASE g[1] = o
        BY <1>1, <3>1, <3>2, <3>3 DEF PassedBy
      <3>4. CASE g[1] # o
        BY <3>1, <3>2, <3>4 DEF PassedBy
      <3>5. QED
        BY <3>3, <3>4
    <2>5. QED
      BY <2>2, <2>3, <2>4 DEF ReleasesMeant
  <1>8. \A p \in Orders : Holds(p)'
    BY DEF ResInv, Holds
  <1>9. QED
    BY <1>2, <1>4, <1>5, <1>6, <1>7, <1>8 DEF ResInv

\* A step that writes no order row and changes no group.
LEMMA LinkKeeps ==
    ASSUME ResInv, OrderInv', LinkTypeOK', order' = order, orderLog' = orderLog, rsv' = rsv,
           RequestsFit', AnswersHold',
           \A o \in releaseNet' : o \in releaseNet \/ Ending(o),
           \A g \in Inv!Groups : plan'[g] = "RELEASE" =>
              plan[g] = "RELEASE" \/ order[g[1]].status = "CANCELED" \/ PassedBy(g)
    PROVE  ResInv'
  <1>1. KeysFit'
    BY DEF ResInv, KeysFit, Fits
  <1>2. ReleasesMeant'
    BY DEF ResInv, ReleasesMeant, Ending, PassedBy
  <1>3. \A o \in Orders : Holds(o)'
    BY DEF ResInv, Holds
  <1>4. QED
    BY <1>1, <1>2, <1>3 DEF ResInv

\* A release of groups that no order needs or will need.
LEMMA ReleaseKeeps ==
    ASSUME ResInv, NEW G, Inv!ReleaseGroups(G),
           \A g \in G : /\ g \in Inv!Groups /\ rsv[g].status = "ACTIVE"
                        /\ Ending(g[1]) \/ PassedBy(g),
           UNCHANGED <<orderVars, reserveNet, answer>>,
           releaseNet' \subseteq releaseNet,
           plan' \in [Inv!Groups -> {"none", "RELEASE", "ACKNOWLEDGE", "CONFIRM", "CONFIRMING"}],
           \A g \in Inv!Groups : plan'[g] = "RELEASE" => plan[g] = "RELEASE"
    PROVE  ResInv'
  <1>1. OrderInv /\ LinkTypeOK
    BY DEF ResInv
  <1>2. ASSUME NEW g \in Inv!Groups
        PROVE  /\ rsv'[g] \in Inv!GroupRow
               /\ rsv'[g].lines = rsv[g].lines
               /\ rsv'[g].status = "NONE" <=> rsv[g].status = "NONE"
               /\ g \notin G => rsv'[g] = rsv[g]
    BY <1>1, GroupRowOf DEF Inv!ReleaseGroups, Inv!GroupRow, Inv!GroupStatus
  <1>3. LinkTypeOK'
    <2>1. rsv' \in [Inv!Groups -> Inv!GroupRow]
      BY <1>2 DEF Inv!ReleaseGroups
    <2>2. QED
      BY <1>1, <2>1 DEF LinkTypeOK
  <1>4. OrderInv'
    BY <1>1, OrderStep DEF orderVars
  <1>5. UNCHANGED <<order, tx, orderLog>>
    BY DEF orderVars
  <1>6. ASSUME NEW g \in Inv!Groups, g \in G
        PROVE  g[2] # order[g[1]].version
    <2>1. Fits(g[1], g[2], rsv[g].lines) /\ (Ending(g[1]) \/ PassedBy(g))
      BY <1>6 DEF ResInv, KeysFit
    <2>2. g[2] \in Nat /\ order[g[1]].version \in Nat
      BY <1>1, Keys, OrderRow
    <2>3. QED
      BY <2>1, <2>2 DEF Fits, Ending, PassedBy, EDITABLE
  <1>7. KeysFit'
    BY <1>2, <1>5, <1>6 DEF ResInv, KeysFit, Fits
  <1>8. RequestsFit'
    BY <1>5 DEF ResInv, RequestsFit, Fits
  <1>9. AnswersHold'
    BY <1>2, <1>5, Keys DEF ResInv, AnswersHold
  <1>10. ReleasesMeant'
    BY <1>5 DEF ResInv, ReleasesMeant, Ending, PassedBy
  <1>11. \A o \in Orders : Holds(o)'
    <2>0. \A o \in Orders : order[o].status = "NONE" => order[o].version = 0
      BY DEF ResInv, Holds
    <2> SUFFICES ASSUME NEW o \in Orders, order[o].status = "CONFIRMED"
                 PROVE  /\ order[o].group \in Inv!Versions
                        /\ ~order[o].cancelling =>
                              /\ rsv'[<<o, order[o].group>>].status = "ACTIVE"
                              /\ rsv'[<<o, order[o].group>>].lines = order[o].lines
      BY <1>5, <2>0 DEF Holds
    <2> DEFINE g == <<o, order[o].group>>
    <2>1. /\ order[o].group \in Inv!Versions
          /\ ~order[o].cancelling => rsv[g].status = "ACTIVE" /\ rsv[g].lines = order[o].lines
      BY DEF ResInv, Holds
    <2>2. g \in Inv!Groups /\ g[1] = o /\ g[2] = order[o].group
      BY <2>1, Keys
    <2>3. ~order[o].cancelling => g \notin G
      BY <2>2 DEF Ending, PassedBy
    <2> HIDE DEF g
    <2>4. QED
      BY <1>2, <2>1, <2>2, <2>3 DEF g
  <1>12. QED
    BY <1>3, <1>4, <1>7, <1>8, <1>9, <1>10, <1>11 DEF ResInv

-----------------------------------------------------------------------------
(* The steps of order-service *)

\* Nobody waits for a request of an order that is not being confirmed, or whose
\* confirm has its answer.
LEMMA NoCaller ==
    ASSUME ResInv, NEW o \in Orders, tx[o].kind # "confirm" \/ answer[o] # "none"
    PROVE  \A q \in reserveNet : q.order = o => q.late
  BY DEF ResInv, RequestsFit, LinkTypeOK, Request

\* The end of a confirm makes no plan to release.
LEMMA EndedPlan ==
    ASSUME ResInv, NEW o, NEW next \in {"none", "ACKNOWLEDGE"}, EndPlan(o, next)
    PROVE  /\ plan' \in [Inv!Groups -> {"none", "RELEASE", "ACKNOWLEDGE", "CONFIRM",
                                        "CONFIRMING"}]
           /\ \A g \in Inv!Groups : plan'[g] = "RELEASE" => plan[g] = "RELEASE"
  BY DEF EndPlan, ResInv, LinkTypeOK

\* A write of the row of o, by the columns this module speaks of.
LEMMA Written ==
    ASSUME OrderInv, NEW o \in Orders, NEW row \in Row, Write(o, row)
    PROVE  /\ \A x \in Orders : x # o => order'[x] = order[x]
           /\ order'[o].status = row.status
           /\ order'[o].version = row.version + 1
           /\ order'[o].cancelling = row.cancelling
           /\ order'[o].group = row.group
           /\ order'[o].lines = row.lines
  <1>1. order'[o] = Bumped(row)
    BY DEF Write, OrderInv, OrderTypeOK
  <1>2. Bumped(row).lines = row.lines
    BY DEF Bumped, Row
  <1>3. QED
    BY <1>1, <1>2, WriteRow DEF OrderInv

\* A new order starts at version 1, for which no key was ever used.
LEMMA NewOrderStep ==
    ASSUME ResInv, NEW o \in Orders, NewOrder(o)
    PROVE  ResInv'
  <1>1. PICK lines \in Demands : Create(o, lines)
    BY DEF NewOrder
  <1> DEFINE row == [order[o] EXCEPT !.status = "DRAFT", !.lines = lines]
  <1>2. OrderInv /\ order[o] \in Row /\ order[o].status = "NONE"
    BY <1>1, OrderRow DEF ResInv, Create, Exists
  <1>3. /\ row \in Row /\ row.status = "DRAFT" /\ row.version = order[o].version
        /\ row.group = order[o].group /\ row.cancelling = order[o].cancelling
    BY <1>2 DEF Row, Status
  <1>4. /\ Write(o, row) /\ Emit("OrderCreated", o, row)
        /\ UNCHANGED tx /\ UNCHANGED <<stockVars, linkVars>>
    BY <1>1 DEF Create, NewOrder
  <1> HIDE DEF row
  <1>5. /\ \A x \in Orders : x # o => order'[x] = order[x]
        /\ order'[o].status = "DRAFT" /\ order'[o].version = order[o].version + 1
        /\ order'[o].group = order[o].group /\ order'[o].cancelling = order[o].cancelling
    BY <1>2, <1>3, <1>4, Written
  <1>6. OrderInv'
    BY <1>1, <1>2, CreateStep
  <1>7. tx[o].kind = "none" /\ tx' = tx
    BY <1>2, <1>4, OrderRow DEF EDITABLE
  <1>8. \A q \in reserveNet : q.order = o => q.late
    BY <1>7, NoCaller
  <1>9. \A e \in orderLog' : e.type = "OrderCanceled" => e \in orderLog
    BY <1>4 DEF Emit
  <1>10. /\ UNCHANGED <<rsv, reserveNet, answer, releaseNet>>
         /\ plan' = plan
    BY <1>4 DEF stockVars, linkVars
  <1>11. plan' \in [Inv!Groups -> {"none", "RELEASE", "ACKNOWLEDGE", "CONFIRM", "CONFIRMING"}]
    BY <1>10 DEF ResInv, LinkTypeOK
  <1>12. Holds(o)'
    BY <1>5 DEF Holds
  <1>13. (Ending(o) => Ending(o)') /\ order[o].status # "CANCELED"
    BY <1>2, <1>5 DEF Ending
  <1>14. QED
    BY <1>5, <1>6, <1>7, <1>8, <1>9, <1>10, <1>11, <1>12, <1>13, WriteKeeps

\* The request that confirm sends carries the current key.
LEMMA SendStep ==
    ASSUME ResInv, NEW o \in Orders, BeginConfirm(o, order[o].version, FALSE),
           SendReserve(o, order[o].version),
           UNCHANGED <<rsv, releaseNet>>,
           plan' \in [Inv!Groups -> {"none", "RELEASE", "ACKNOWLEDGE", "CONFIRM", "CONFIRMING"}],
           \A g \in Inv!Groups : plan'[g] = "RELEASE" => plan[g] = "RELEASE"
    PROVE  ResInv'
  <1> DEFINE q == [order |-> o, version |-> order[o].version,
                   lines |-> order[o].lines, late |-> FALSE]
  <1>1. OrderInv /\ OrderInv'
    BY BeginConfirmStep DEF ResInv
  <1>2. /\ order[o].status \in EDITABLE /\ ~order[o].cancelling
        /\ order[o].version \in Inv!Versions /\ order[o].lines \in Demands
        /\ tx[o].kind = "none"
    BY <1>1, OrderRow, Keys DEF BeginConfirm, assertConfirmable, EDITABLE, Unlocked
  <1>3. /\ order' = order /\ orderLog' = orderLog
        /\ \A x \in Orders : x # o => tx'[x] = tx[x]
        /\ tx'[o].kind = "confirm"
    BY <1>1 DEF BeginConfirm, OrderInv, OrderTypeOK
  <1>4. /\ reserveNet' = reserveNet \cup {q}
        /\ \A x \in Orders : x # o => answer'[x] = answer[x]
        /\ answer'[o] = "none"
        /\ answer' \in [Orders -> {"none", "RESERVED", "INSUFFICIENT", "CONFLICT"}]
    BY DEF SendReserve, ResInv, LinkTypeOK
  <1>5. /\ q \in Request /\ q.order = o /\ q.version = order[o].version
        /\ q.lines = order[o].lines
    BY <1>2 DEF Request
  <1>6. \A p \in reserveNet : p.order = o => p.late
    BY <1>2, NoCaller
  <1> HIDE DEF q
  <1>7. LinkTypeOK'
    BY <1>4, <1>5 DEF ResInv, LinkTypeOK
  <1>8. RequestsFit'
    <2> SUFFICES ASSUME NEW p \in reserveNet'
                 PROVE  /\ Fits(p.order, p.version, p.lines)'
                        /\ ~p.late => /\ p.version = order'[p.order].version
                                      /\ tx'[p.order].kind = "confirm"
                                      /\ answer'[p.order] = "none"
      BY DEF RequestsFit
    <2>1. CASE p = q
      BY <1>1, <1>2, <1>3, <1>4, <1>5, <2>1, OrderRow DEF Fits
    <2>2. CASE p \in reserveNet
      <3>1. p.order \in Orders
        BY <2>2 DEF ResInv, LinkTypeOK, Request
      <3>2. /\ Fits(p.order, p.version, p.lines)
            /\ ~p.late => /\ p.version = order[p.order].version
                          /\ tx[p.order].kind = "confirm"
                          /\ answer[p.order] = "none"
        BY <2>2 DEF ResInv, RequestsFit
      <3>3. QED
        BY <1>3, <1>4, <1>6, <2>2, <3>1, <3>2 DEF Fits
    <2>3. QED
      BY <1>4, <2>1, <2>2
  <1>9. AnswersHold'
    BY <1>2, <1>3, <1>4 DEF ResInv, AnswersHold
  <1>10. QED
    BY <1>1, <1>3, <1>7, <1>8, <1>9, LinkKeeps

\* confirm takes the lock and asks for the goods of the version it read.
LEMMA ConfirmStep ==
    ASSUME ResInv, NEW o \in Orders, Confirm(o)
    PROVE  ResInv'
  <1>1. plan' = plan /\ UNCHANGED <<rsv, releaseNet>>
    BY DEF Confirm, stockVars
  <1>2. plan' \in [Inv!Groups -> {"none", "RELEASE", "ACKNOWLEDGE", "CONFIRM", "CONFIRMING"}]
    BY <1>1 DEF ResInv, LinkTypeOK
  <1>3. QED
    BY <1>1, <1>2, SendStep DEF Confirm

\* The order takes over the group that was reserved under its key.
LEMMA ConfirmedStep ==
    ASSUME ResInv, NEW o \in Orders, Confirmed(o)
    PROVE  ResInv'
  <1> DEFINE row == [order[o] EXCEPT !.status = "CONFIRMED", !.group = order[o].version]
             g == <<o, order[o].version>>
  <1>1. OrderInv /\ order[o] \in Row /\ order[o].version \in Nat
    BY OrderRow DEF ResInv
  <1>2. /\ row \in Row /\ row.status = "CONFIRMED" /\ row.version = order[o].version
        /\ row.group = order[o].version /\ row.cancelling = order[o].cancelling
        /\ row.lines = order[o].lines
    BY <1>1 DEF Row, Status
  <1>3. /\ Write(o, row) /\ Emit("OrderConfirmed", o, row) /\ Unlock(o)
        /\ tx[o].kind = "confirm" /\ answer[o] = "RESERVED"
        /\ EndPlan(o, "ACKNOWLEDGE")
        /\ UNCHANGED <<rsv, reserveNet, answer, releaseNet>>
    BY DEF Confirmed, CommitReserved, stockVars
  <1> HIDE DEF row
  <1>4. /\ \A x \in Orders : x # o => order'[x] = order[x]
        /\ order'[o].status = "CONFIRMED" /\ order'[o].version = order[o].version + 1
        /\ order'[o].group = order[o].version /\ order'[o].cancelling = order[o].cancelling
        /\ order'[o].lines = order[o].lines
    BY <1>1, <1>2, <1>3, Written
  <1>5. OrderInv'
    BY <1>1, CommitReservedStep DEF Confirmed
  <1>6. /\ \A x \in Orders : x # o => tx'[x] = tx[x]
        /\ tx'[o].kind = "none"
    BY <1>1, <1>3 DEF Unlock, OrderInv, OrderTypeOK, Transaction
  <1>7. \A q \in reserveNet : q.order = o => q.late
    BY <1>3, NoCaller
  <1>8. \A e \in orderLog' : e.type = "OrderCanceled" => e \in orderLog
    BY <1>3 DEF Emit
  <1>9. order[o].version \in Inv!Versions /\ rsv[g].status # "NONE"
    BY <1>3 DEF ResInv, AnswersHold
  <1>10. rsv[g].status = "ACTIVE" /\ rsv[g].lines = order[o].lines
    <2>1. g \in Inv!Groups /\ g[1] = o /\ g[2] = order[o].version
      BY <1>9, Keys
    <2> HIDE DEF g
    <2>2. QED
      BY <1>9, <2>1 DEF ResInv, KeysFit, Fits
  <1>11. Holds(o)'
    BY <1>3, <1>4, <1>9, <1>10 DEF Holds
  <1>12. order[o].status # "CANCELED" /\ ~order[o].cancelling
    BY <1>1, <1>3, OrderRow DEF EDITABLE
  <1>13. ~Ending(o)
    BY <1>12 DEF Ending
  <1>14. QED
    BY <1>3, <1>4, <1>5, <1>6, <1>7, <1>8, <1>11, <1>12, <1>13, EndedPlan, WriteKeeps

\* A shortage moves the order to a version with a fresh key.
LEMMA ShortageStep ==
    ASSUME ResInv, NEW o \in Orders, Shortage(o)
    PROVE  ResInv'
  <1> DEFINE since == IF order[o].since = 0 THEN clock + 1 ELSE order[o].since
             row == [order[o] EXCEPT !.status = "PENDING_STOCK", !.since = since]
  <1>1. OrderInv /\ order[o] \in Row /\ since \in Nat
    BY OrderRow DEF ResInv, OrderInv, OrderTypeOK, Row
  <1>2. /\ Write(o, row) /\ Unlock(o)
        /\ orderLog' = orderLog \/ Emit("OrderPendingStock", o, row)
        /\ tx[o].kind = "confirm" /\ answer[o] = "INSUFFICIENT"
        /\ EndPlan(o, "none")
        /\ UNCHANGED <<rsv, reserveNet, answer, releaseNet>>
    BY DEF Shortage, CommitInsufficient, stockVars
  <1> HIDE DEF since
  <1>3. /\ row \in Row /\ row.status = "PENDING_STOCK" /\ row.version = order[o].version
        /\ row.group = order[o].group /\ row.cancelling = order[o].cancelling
    BY <1>1 DEF Row, Status
  <1> HIDE DEF row
  <1>4. /\ \A x \in Orders : x # o => order'[x] = order[x]
        /\ order'[o].status = "PENDING_STOCK" /\ order'[o].version = order[o].version + 1
        /\ order'[o].group = order[o].group
    BY <1>1, <1>3, <1>2, Written
  <1>5. OrderInv'
    BY <1>1, CommitInsufficientStep DEF Shortage
  <1>6. /\ \A x \in Orders : x # o => tx'[x] = tx[x]
        /\ tx'[o].kind = "none"
    BY <1>1, <1>2 DEF Unlock, OrderInv, OrderTypeOK, Transaction
  <1>7. \A q \in reserveNet : q.order = o => q.late
    BY <1>2, NoCaller
  <1>8. \A e \in orderLog' : e.type = "OrderCanceled" => e \in orderLog
    BY <1>2 DEF Emit
  <1>9. Holds(o)'
    BY <1>4 DEF Holds
  <1>10. order[o].status # "CANCELED" /\ ~Ending(o)
    BY <1>1, <1>2, OrderRow DEF EDITABLE, Ending
  <1>11. QED
    BY <1>2, <1>4, <1>5, <1>6, <1>7, <1>8, <1>9, <1>10, EndedPlan, WriteKeeps

\* An edit moves the order to a version with a fresh key.
LEMMA EditedStep ==
    ASSUME ResInv, NEW o \in Orders, Edited(o)
    PROVE  ResInv'
  <1>1. PICK content \in BOOLEAN : CommitUpdate(o, content)
    BY DEF Edited
  <1> DEFINE lines == IF content THEN tx[o].lines ELSE order[o].lines
             restart == content /\ order[o].status = "PENDING_STOCK"
             since == IF restart THEN clock + 1 ELSE order[o].since
             row == [order[o] EXCEPT !.lines = lines, !.since = since]
  <1>2. OrderInv /\ order[o] \in Row /\ since \in Nat /\ lines \in Demands
    BY OrderRow DEF ResInv, OrderInv, OrderTypeOK, Row
  <1>3. /\ Write(o, row) /\ Unlock(o) /\ Emit("OrderUpdated", o, row)
        /\ tx[o].kind = "update"
        /\ UNCHANGED <<rsv, reserveNet, answer, releaseNet, plan>>
    BY <1>1 DEF CommitUpdate, Edited, stockVars, linkVars
  <1> HIDE DEF since, lines
  <1>4. /\ row \in Row /\ row.status = order[o].status /\ row.version = order[o].version
        /\ row.group = order[o].group /\ row.cancelling = order[o].cancelling
    BY <1>2 DEF Row
  <1> HIDE DEF row
  <1>5. /\ \A x \in Orders : x # o => order'[x] = order[x]
        /\ order'[o].status = order[o].status /\ order'[o].version = order[o].version + 1
        /\ order'[o].group = order[o].group
    BY <1>2, <1>4, <1>3, Written
  <1>6. OrderInv'
    BY <1>1, <1>2, CommitUpdateStep
  <1>7. /\ \A x \in Orders : x # o => tx'[x] = tx[x]
        /\ tx'[o].kind = "none"
    BY <1>2, <1>3 DEF Unlock, OrderInv, OrderTypeOK, Transaction
  <1>8. \A q \in reserveNet : q.order = o => q.late
    BY <1>3, NoCaller
  <1>9. \A e \in orderLog' : e.type = "OrderCanceled" => e \in orderLog
    BY <1>3 DEF Emit
  <1>10. order[o].status \in EDITABLE /\ ~order[o].cancelling
    BY <1>2, <1>3, OrderRow
  <1>11. Holds(o)' /\ order[o].status # "CANCELED" /\ ~Ending(o)
    BY <1>5, <1>10 DEF Holds, EDITABLE, Ending
  <1>12. plan' \in [Inv!Groups -> {"none", "RELEASE", "ACKNOWLEDGE", "CONFIRM", "CONFIRMING"}]
    BY <1>3 DEF ResInv, LinkTypeOK
  <1>13. QED
    BY <1>3, <1>5, <1>6, <1>7, <1>8, <1>9, <1>11, <1>12, WriteKeeps

\* A cancellation persists its intent: the order is ending from here on.
LEMMA CancelStep ==
    ASSUME ResInv, NEW o \in Orders, Cancel(o)
    PROVE  ResInv'
  <1> DEFINE row == [order[o] EXCEPT !.cancelling = TRUE]
  <1>1. OrderInv /\ order[o] \in Row
    BY OrderRow DEF ResInv
  <1>2. /\ row \in Row /\ row.status = order[o].status /\ row.version = order[o].version
        /\ row.group = order[o].group /\ row.cancelling
    BY <1>1 DEF Row
  <1>3. /\ Write(o, row) /\ tx[o].kind = "none" /\ tx' = tx /\ orderLog' = orderLog
        /\ order[o].status \in CANCELABLE
        /\ UNCHANGED <<rsv, reserveNet, answer, releaseNet, plan>>
    BY DEF RequestCancel, Cancel, assertWritable, Unlocked, stockVars, linkVars
  <1> HIDE DEF row
  <1>4. /\ \A x \in Orders : x # o => order'[x] = order[x]
        /\ order'[o].status = order[o].status /\ order'[o].version = order[o].version + 1
        /\ order'[o].group = order[o].group /\ order'[o].cancelling
    BY <1>1, <1>2, <1>3, Written
  <1>5. OrderInv'
    BY <1>1, RequestCancelStep DEF Cancel
  <1>6. \A q \in reserveNet : q.order = o => q.late
    BY <1>3, NoCaller
  <1>7. Ending(o)' /\ order[o].status # "CANCELED"
    BY <1>3, <1>4 DEF Ending, CANCELABLE
  <1>8. Holds(o)'
    BY <1>3, <1>4 DEF ResInv, Holds, CANCELABLE
  <1>9. plan' \in [Inv!Groups -> {"none", "RELEASE", "ACKNOWLEDGE", "CONFIRM", "CONFIRMING"}]
    BY <1>3 DEF ResInv, LinkTypeOK
  <1>10. QED
    BY <1>3, <1>4, <1>5, <1>6, <1>7, <1>8, <1>9, WriteKeeps

\* A cancellation that completes takes nothing from another order.
LEMMA CanceledStep ==
    ASSUME ResInv, NEW o \in Orders, Canceled(o)
    PROVE  ResInv'
  <1> DEFINE row == [order[o] EXCEPT !.status = "CANCELED", !.cancelling = FALSE]
  <1>1. OrderInv /\ order[o] \in Row
    BY OrderRow DEF ResInv
  <1>2. /\ row \in Row /\ row.status = "CANCELED" /\ row.version = order[o].version
        /\ row.group = order[o].group
    BY <1>1 DEF Row, Status
  <1>3. /\ UNCHANGED <<rsv, reserveNet, answer, releaseNet, plan>>
        /\ tx[o].kind = "none"
    BY DEF Canceled, stockVars, Unlocked
  <1>4. plan' \in [Inv!Groups -> {"none", "RELEASE", "ACKNOWLEDGE", "CONFIRM", "CONFIRMING"}]
    BY <1>3 DEF ResInv, LinkTypeOK
  <1>5. CASE FinishCancel(o)
    <2>1. /\ Write(o, row) /\ tx' = tx /\ Emit("OrderCanceled", o, row)
      BY <1>5 DEF FinishCancel
    <2> HIDE DEF row
    <2>2. /\ \A x \in Orders : x # o => order'[x] = order[x]
          /\ order'[o].status = "CANCELED" /\ order'[o].version = order[o].version + 1
          /\ order'[o].group = order[o].group
      BY <1>1, <1>2, <2>1, Written
    <2>3. OrderInv'
      BY <1>1, <1>5, FinishCancelStep
    <2>4. \A q \in reserveNet : q.order = o => q.late
      BY <1>3, NoCaller
    <2>5. \A e \in orderLog' : e.type = "OrderCanceled" =>
              e \in orderLog \/ (e.order = o /\ order'[o].status = "CANCELED")
      BY <2>1, <2>2 DEF Emit
    <2>6. Ending(o)' /\ Holds(o)'
      BY <2>2 DEF Ending, Holds
    <2>7. QED
      BY <1>3, <1>4, <2>1, <2>2, <2>3, <2>4, <2>5, <2>6, WriteKeeps
  <1>6. CASE UNCHANGED orderVars
    <2>1. OrderInv' /\ order' = order /\ orderLog' = orderLog /\ tx' = tx
      BY <1>1, <1>6, OrderStep DEF orderVars
    <2>2. LinkTypeOK' /\ RequestsFit' /\ AnswersHold'
      BY <1>3, <2>1 DEF ResInv, LinkTypeOK, RequestsFit, AnswersHold, Fits
    <2>3. QED
      BY <1>3, <2>1, <2>2, LinkKeeps
  <1>7. QED
    BY <1>5, <1>6 DEF Canceled

\* The transaction is rolled back and nobody waits for its request any more.
LEMMA GiveUpStep ==
    ASSUME ResInv, NEW o \in Orders, GiveUp(o)
    PROVE  ResInv'
  <1>1. OrderInv /\ OrderInv'
    BY AbortStep DEF ResInv, GiveUp
  <1>2. /\ order' = order /\ orderLog' = orderLog
        /\ \A x \in Orders : x # o => tx'[x] = tx[x]
        /\ tx'[o].kind = "none"
    BY <1>1 DEF GiveUp, Abort, Unlock, OrderInv, OrderTypeOK, Transaction
  <1>3. /\ UNCHANGED <<rsv, answer, releaseNet>> /\ EndPlan(o, "none")
        /\ reserveNet' = {IF q.order = o THEN [q EXCEPT !.late = TRUE] ELSE q : q \in reserveNet}
    BY DEF GiveUp, stockVars
  <1>4. ASSUME NEW p \in reserveNet'
        PROVE  \E q \in reserveNet :
                  /\ p.order = q.order /\ p.version = q.version /\ p.lines = q.lines
                  /\ p \in Request /\ q \in Request
                  /\ p.order = o => p.late
                  /\ p.order # o => p = q
    <2>1. PICK q \in reserveNet : p = IF q.order = o THEN [q EXCEPT !.late = TRUE] ELSE q
      BY <1>3
    <2>2. q \in Request
      BY DEF ResInv, LinkTypeOK
    <2>3. QED
      BY <2>1, <2>2 DEF Request
  <1>5. LinkTypeOK'
    <2>1. reserveNet' \subseteq Request
      BY <1>4
    <2>2. QED
      BY <1>3, <2>1, EndedPlan DEF ResInv, LinkTypeOK
  <1>6. RequestsFit'
    <2> SUFFICES ASSUME NEW p \in reserveNet'
                 PROVE  /\ Fits(p.order, p.version, p.lines)'
                        /\ ~p.late => /\ p.version = order'[p.order].version
                                      /\ tx'[p.order].kind = "confirm"
                                      /\ answer'[p.order] = "none"
      BY DEF RequestsFit
    <2>1. PICK q \in reserveNet :
             /\ p.order = q.order /\ p.version = q.version /\ p.lines = q.lines
             /\ q \in Request
             /\ p.order = o => p.late
             /\ p.order # o => p = q
      BY <1>4
    <2>2. /\ Fits(q.order, q.version, q.lines)
          /\ ~q.late => /\ q.version = order[q.order].version
                        /\ tx[q.order].kind = "confirm"
                        /\ answer[q.order] = "none"
      BY DEF ResInv, RequestsFit
    <2>3. q.order \in Orders
      BY <2>1 DEF Request
    <2>4. QED
      BY <1>2, <1>3, <2>1, <2>2, <2>3 DEF Fits
  <1>7. AnswersHold'
    BY <1>2, <1>3 DEF ResInv, AnswersHold
  <1>8. QED
    BY <1>1, <1>2, <1>3, <1>5, <1>6, <1>7, EndedPlan, LinkKeeps

\* An edit that begins takes the lock and sends nothing.
LEMMA EditStep ==
    ASSUME ResInv, NEW o \in Orders, Edit(o)
    PROVE  ResInv'
  <1>1. PICK lines \in Demands : BeginUpdate(o, lines)
    BY DEF Edit
  <1>2. OrderInv /\ OrderInv'
    BY <1>1, BeginUpdateStep DEF ResInv
  <1>3. /\ order' = order /\ orderLog' = orderLog
        /\ \A x \in Orders : x # o => tx'[x] = tx[x]
        /\ tx'[o].kind = "update" /\ tx[o].kind = "none"
    BY <1>1, <1>2 DEF BeginUpdate, Unlocked, OrderInv, OrderTypeOK
  <1>4. UNCHANGED <<rsv, reserveNet, answer, releaseNet, plan>>
    BY DEF Edit, stockVars, linkVars
  <1>5. LinkTypeOK'
    BY <1>4 DEF ResInv, LinkTypeOK
  <1>6. RequestsFit'
    <2> SUFFICES ASSUME NEW q \in reserveNet
                 PROVE  /\ Fits(q.order, q.version, q.lines)'
                        /\ ~q.late => /\ q.version = order'[q.order].version
                                      /\ tx'[q.order].kind = "confirm"
                                      /\ answer'[q.order] = "none"
      BY <1>4 DEF RequestsFit
    <2>1. q.order \in Orders
      BY DEF ResInv, LinkTypeOK, Request
    <2>2. QED
      BY <1>3, <1>4, <2>1 DEF ResInv, RequestsFit, Fits
  <1>7. AnswersHold'
    BY <1>3, <1>4 DEF ResInv, AnswersHold
  <1>8. QED
    BY <1>2, <1>3, <1>4, <1>5, <1>6, <1>7, LinkKeeps

\* The steps that touch neither orders nor requests nor groups.
LEMMA OnlyLinks ==
    ASSUME ResInv, UNCHANGED <<orderVars, rsv, reserveNet, answer>>,
           releaseNet' \subseteq Orders,
           \A o \in releaseNet' : o \in releaseNet \/ Ending(o),
           plan' \in [Inv!Groups -> {"none", "RELEASE", "ACKNOWLEDGE", "CONFIRM", "CONFIRMING"}],
           \A g \in Inv!Groups : plan'[g] = "RELEASE" =>
              plan[g] = "RELEASE" \/ order[g[1]].status = "CANCELED" \/ PassedBy(g)
    PROVE  ResInv'
  <1>1. OrderInv' /\ order' = order /\ orderLog' = orderLog /\ tx' = tx
    BY OrderStep DEF ResInv, orderVars
  <1>2. LinkTypeOK' /\ RequestsFit' /\ AnswersHold'
    BY <1>1 DEF ResInv, LinkTypeOK, RequestsFit, AnswersHold, Fits
  <1>3. QED
    BY <1>1, <1>2, LinkKeeps

\* A release request leaves for an order whose intent is persisted.
LEMMA CallReleaseStep ==
    ASSUME ResInv, NEW o \in Orders, CallRelease(o) \/ AbandonCancel(o)
    PROVE  ResInv'
  <1>1. /\ UNCHANGED <<orderVars, rsv, reserveNet, answer, plan>>
        /\ \/ releaseNet' = releaseNet \cup {o} /\ order[o].cancelling
           \/ releaseNet' \subseteq releaseNet
    BY DEF CallRelease, AbandonCancel, CanFinishCancel, stockVars
  <1>2. releaseNet' \subseteq Orders /\ \A p \in releaseNet' : p \in releaseNet \/ Ending(p)
    BY <1>1 DEF ResInv, LinkTypeOK, Ending
  <1>3. plan' \in [Inv!Groups -> {"none", "RELEASE", "ACKNOWLEDGE", "CONFIRM", "CONFIRMING"}]
    BY <1>1 DEF ResInv, LinkTypeOK
  <1>4. QED
    BY <1>1, <1>2, <1>3, OnlyLinks

\* A lost request leaves the caller without an answer.
LEMMA LoseReserveStep ==
    ASSUME ResInv, NEW q \in reserveNet, LoseReserve(q)
    PROVE  ResInv'
  <1>1. /\ UNCHANGED <<orderVars, rsv, answer, releaseNet, plan>>
        /\ reserveNet' \subseteq reserveNet
    BY DEF LoseReserve, stockVars
  <1>2. OrderInv' /\ order' = order /\ orderLog' = orderLog /\ tx' = tx
    BY <1>1, OrderStep DEF ResInv, orderVars
  <1>3. LinkTypeOK' /\ RequestsFit' /\ AnswersHold'
    BY <1>1, <1>2 DEF ResInv, LinkTypeOK, RequestsFit, AnswersHold, Fits
  <1>4. QED
    BY <1>1, <1>2, <1>3, LinkKeeps

-----------------------------------------------------------------------------
(* The steps of inventory-service *)

\* A step that leaves the status and the lines of every group alone.
LEMMA SameGroups ==
    ASSUME ResInv, rsv' \in [Inv!Groups -> Inv!GroupRow],
           \A g \in Inv!Groups : rsv'[g].status = rsv[g].status /\ rsv'[g].lines = rsv[g].lines,
           UNCHANGED <<orderVars, reserveNet, answer, releaseNet>>,
           plan' \in [Inv!Groups -> {"none", "RELEASE", "ACKNOWLEDGE", "CONFIRM", "CONFIRMING"}],
           \A g \in Inv!Groups : plan'[g] = "RELEASE" => plan[g] = "RELEASE"
    PROVE  ResInv'
  <1>1. OrderInv' /\ order' = order /\ orderLog' = orderLog /\ tx' = tx
    BY OrderStep DEF ResInv, orderVars
  <1>2. LinkTypeOK' /\ RequestsFit'
    BY <1>1 DEF ResInv, LinkTypeOK, RequestsFit, Fits
  <1>3. KeysFit'
    BY <1>1 DEF ResInv, KeysFit, Fits
  <1>4. AnswersHold'
    BY <1>1, Keys DEF ResInv, AnswersHold
  <1>5. ReleasesMeant'
    BY <1>1 DEF ResInv, ReleasesMeant, Ending, PassedBy
  <1>6. \A o \in Orders : Holds(o)'
    BY <1>1, Keys DEF ResInv, Holds
  <1>7. QED
    BY <1>1, <1>2, <1>3, <1>4, <1>5, <1>6 DEF ResInv

\* An acknowledgement keeps status and lines of every group.
LEMMA Acknowledged ==
    ASSUME ResInv, NEW o, NEW v, Inv!AckByEvent(o, v) \/ Inv!AckByReconciler(o, v)
    PROVE  /\ rsv' \in [Inv!Groups -> Inv!GroupRow]
           /\ \A g \in Inv!Groups : rsv'[g].status = rsv[g].status /\ rsv'[g].lines = rsv[g].lines
  <1>1. rsv \in [Inv!Groups -> Inv!GroupRow]
    BY DEF ResInv, LinkTypeOK
  <1>2. CASE rsv' = rsv
    BY <1>1, <1>2
  <1>3. CASE rsv' = [rsv EXCEPT ![<<o, v>>].ack = TRUE]
    <2>1. ASSUME NEW g \in Inv!Groups
          PROVE  /\ rsv'[g] \in Inv!GroupRow
                 /\ rsv'[g].status = rsv[g].status /\ rsv'[g].lines = rsv[g].lines
      BY <1>1, <1>3 DEF Inv!GroupRow
    <2>2. QED
      BY <1>1, <1>3, <2>1
  <1>4. QED
    BY <1>2, <1>3 DEF Inv!AckByEvent, Inv!AckByReconciler

\* A release request frees the goods of an order that ends.
LEMMA HandleReleaseStep ==
    ASSUME ResInv, NEW o \in Orders, HandleRelease(o)
    PROVE  ResInv'
  <1>1. /\ o \in releaseNet /\ Inv!ReleaseGroups(Inv!Active(o))
        /\ releaseNet' \subseteq releaseNet
        /\ UNCHANGED <<orderVars, reserveNet, answer>> /\ plan' = plan
    BY DEF HandleRelease, Inv!ReleaseOrder
  <1>2. \A g \in Inv!Active(o) : /\ g \in Inv!Groups /\ rsv[g].status = "ACTIVE"
                                 /\ Ending(g[1]) \/ PassedBy(g)
    BY <1>1 DEF ResInv, ReleasesMeant, Inv!Active, Inv!With
  <1>3. plan' \in [Inv!Groups -> {"none", "RELEASE", "ACKNOWLEDGE", "CONFIRM", "CONFIRMING"}]
    BY <1>1 DEF ResInv, LinkTypeOK
  <1>4. QED
    BY <1>1, <1>2, <1>3, ReleaseKeeps

\* An order event acknowledges a group or frees an order that was canceled.
LEMMA HandleEventStep ==
    ASSUME ResInv, NEW e \in orderLog, HandleEvent(e)
    PROVE  ResInv'
  <1>1. /\ UNCHANGED <<orderVars, reserveNet, answer, releaseNet>> /\ plan' = plan
    BY DEF HandleEvent
  <1>2. plan' \in [Inv!Groups -> {"none", "RELEASE", "ACKNOWLEDGE", "CONFIRM", "CONFIRMING"}]
    BY <1>1 DEF ResInv, LinkTypeOK
  <1>3. CASE Inv!AckByEvent(e.order, e.group)
    BY <1>1, <1>2, <1>3, Acknowledged, SameGroups
  <1>4. CASE e.type = "OrderCanceled" /\ Inv!ReleaseOrder(e.order)
    <2>1. order[e.order].status = "CANCELED"
      BY <1>4 DEF ResInv, ReleasesMeant
    <2>2. Inv!ReleaseGroups(Inv!Active(e.order))
      BY <1>4 DEF Inv!ReleaseOrder
    <2>3. \A g \in Inv!Active(e.order) : /\ g \in Inv!Groups /\ rsv[g].status = "ACTIVE"
                                         /\ Ending(g[1]) \/ PassedBy(g)
      BY <2>1 DEF Inv!Active, Inv!With, Ending
    <2>4. QED
      BY <1>1, <1>2, <2>2, <2>3, ReleaseKeeps
  <1>5. QED
    BY <1>3, <1>4 DEF HandleEvent

\* A stock movement leaves the groups alone.
LEMMA MovementStep ==
    ASSUME ResInv, NEW m, Movement(m)
    PROVE  ResInv'
  <1>1. /\ UNCHANGED <<orderVars, rsv, reserveNet, answer, releaseNet, plan>>
    BY DEF Movement, linkVars, Inv!ApplyMovement
  <1>2. /\ plan' \in [Inv!Groups -> {"none", "RELEASE", "ACKNOWLEDGE", "CONFIRM", "CONFIRMING"}]
        /\ releaseNet' \subseteq Orders
    BY <1>1 DEF ResInv, LinkTypeOK
  <1>3. QED
    BY <1>1, <1>2, OnlyLinks

\* A request, late or not, makes a group only under a key that fits.
LEMMA HandleReserveStep ==
    ASSUME ResInv, NEW q \in reserveNet, HandleReserve(q)
    PROVE  ResInv'
  <1> DEFINE o == q.order
             g == <<q.order, q.version>>
             outcome == Inv!ReserveOutcome(q.order, q.version, q.lines)
  <1>1. /\ q \in Request /\ q.order \in Orders /\ q.version \in Inv!Versions
        /\ q.lines \in Demands /\ q.late \in BOOLEAN
    BY DEF ResInv, LinkTypeOK, Request
  <1>2. /\ Fits(q.order, q.version, q.lines)
        /\ ~q.late => /\ q.version = order[q.order].version
                      /\ tx[q.order].kind = "confirm"
                      /\ answer[q.order] = "none"
    BY DEF ResInv, RequestsFit
  <1>3. g \in Inv!Groups /\ g[1] = q.order /\ g[2] = q.version
    BY <1>1, Keys
  <1>4. /\ UNCHANGED <<orderVars, releaseNet, plan>>
        /\ reserveNet' = reserveNet \ {q}
        /\ answer' = IF q.late THEN answer ELSE [answer EXCEPT ![q.order] = outcome]
        /\ Inv!Reserve(q.order, q.version, q.lines)
    BY DEF HandleReserve
  <1>5. OrderInv' /\ order' = order /\ orderLog' = orderLog /\ tx' = tx
    BY <1>4, OrderStep DEF ResInv, orderVars
  <1>6. outcome \in {"RESERVED", "INSUFFICIENT", "CONFLICT"}
    BY DEF Inv!ReserveOutcome
  <1>7. /\ rsv' \in [Inv!Groups -> Inv!GroupRow]
        /\ \A h \in Inv!Groups : h # g => rsv'[h] = rsv[h]
        /\ \/ rsv'[g] = rsv[g]
           \/ /\ rsv[g].status = "NONE"
              /\ rsv'[g].status = "ACTIVE" /\ rsv'[g].lines = q.lines
        /\ outcome = "RESERVED" => rsv'[g].status # "NONE"
    <2>1. CASE rsv' = rsv /\ (rsv[g].status # "NONE" \/ outcome # "RESERVED")
      BY <2>1 DEF ResInv, LinkTypeOK
    <2>2. CASE Inv!CreateGroup(q.order, q.version, q.lines)
      <3> DEFINE new == [rsv[g] EXCEPT !.status = "ACTIVE", !.lines = q.lines]
      <3>1. rsv[g] \in Inv!GroupRow /\ rsv \in [Inv!Groups -> Inv!GroupRow]
        BY <1>3, GroupRowOf DEF ResInv, LinkTypeOK
      <3>2. rsv[g].status = "NONE" /\ rsv' = [rsv EXCEPT ![g] = new]
        BY <1>3, <2>2, <3>1 DEF Inv!CreateGroup, Inv!GroupRow
      <3>3. new \in Inv!GroupRow /\ new.status = "ACTIVE" /\ new.lines = q.lines
        BY <1>1, <3>1, StockAssumption DEF Inv!GroupRow, Inv!GroupStatus
      <3> HIDE DEF new, g
      <3>4. QED
        BY <1>3, <3>1, <3>2, <3>3
    <2>3. QED
      BY <1>4, <2>1, <2>2 DEF Inv!Reserve
  <1> HIDE DEF g, outcome
  <1>8. LinkTypeOK'
    BY <1>1, <1>4, <1>6, <1>7 DEF ResInv, LinkTypeOK
  <1>9. KeysFit'
    <2> SUFFICES ASSUME NEW h \in Inv!Groups, rsv'[h].status # "NONE"
                 PROVE  /\ Fits(h[1], h[2], rsv[h].lines)'
                        /\ h[2] = order'[h[1]].version => rsv'[h].status = "ACTIVE"
      BY DEF KeysFit
    <2>1. CASE rsv'[h] = rsv[h]
      BY <1>5, <2>1 DEF ResInv, KeysFit, Fits
    <2>2. CASE h = g /\ rsv'[g].status = "ACTIVE" /\ rsv'[g].lines = q.lines
      BY <1>2, <1>3, <1>5, <2>2 DEF Fits
    <2>3. QED
      BY <1>7, <2>1, <2>2
  <1>10. RequestsFit'
    <2> SUFFICES ASSUME NEW p \in reserveNet, p # q
                 PROVE  /\ Fits(p.order, p.version, p.lines)'
                        /\ ~p.late => /\ p.version = order'[p.order].version
                                      /\ tx'[p.order].kind = "confirm"
                                      /\ answer'[p.order] = "none"
      BY <1>4 DEF RequestsFit
    <2>1. p \in Request
      BY DEF ResInv, LinkTypeOK
    <2>2. /\ Fits(p.order, p.version, p.lines)
          /\ ~p.late => /\ p.version = order[p.order].version
                        /\ tx[p.order].kind = "confirm"
                        /\ answer[p.order] = "none"
      BY DEF ResInv, RequestsFit
    <2>3. ~p.late /\ ~q.late => p.order # q.order
      <3> SUFFICES ASSUME ~p.late, ~q.late, p.order = q.order
                   PROVE  p = q
        OBVIOUS
      <3>1. p.version = q.version /\ p.lines = q.lines
        BY <1>2, <2>2 DEF Fits
      <3>2. p.late = q.late
        BY <1>1, <2>1 DEF Request
      <3>3. QED
        BY <1>1, <2>1, <3>1, <3>2 DEF Request
    <2>4. p.order \in Orders
      BY <2>1 DEF Request
    <2>5. ~p.late => answer'[p.order] = "none"
      BY <1>4, <2>2, <2>3, <2>4 DEF ResInv, LinkTypeOK
    <2>6. QED
      BY <1>5, <2>2, <2>5 DEF Fits
  <1>11. AnswersHold'
    <2> SUFFICES ASSUME NEW p \in Orders, tx[p].kind = "confirm"
                 PROVE  /\ order[p].version \in Inv!Versions
                        /\ answer'[p] = "RESERVED" =>
                              rsv'[<<p, order[p].version>>].status # "NONE"
      BY <1>5 DEF AnswersHold
    <2>1. /\ order[p].version \in Inv!Versions
          /\ answer[p] = "RESERVED" => rsv[<<p, order[p].version>>].status # "NONE"
      BY DEF ResInv, AnswersHold
    <2>2. <<p, order[p].version>> \in Inv!Groups
      BY <2>1, Keys
    <2>3. rsv[<<p, order[p].version>>].status # "NONE"
             => rsv'[<<p, order[p].version>>].status # "NONE"
      BY <1>7, <2>2
    <2>4. CASE answer'[p] = answer[p]
      BY <2>1, <2>3, <2>4
    <2>5. CASE answer'[p] # answer[p]
      <3>1. ~q.late /\ p = q.order /\ answer'[p] = outcome
        BY <1>1, <1>4, <2>5 DEF ResInv, LinkTypeOK
      <3>2. g = <<p, order[p].version>>
        BY <1>2, <3>1 DEF g
      <3>3. QED
        BY <1>7, <2>1, <3>1, <3>2
    <2>6. QED
      BY <2>4, <2>5
  <1>12. ReleasesMeant'
    BY <1>4, <1>5 DEF ResInv, ReleasesMeant, Ending, PassedBy
  <1>13. ASSUME NEW p \in Orders
         PROVE  Holds(p)'
    <2> DEFINE h == <<p, order[p].group>>
    <2>1. Holds(p)
      BY DEF ResInv
    <2>2. order[p].status = "CONFIRMED" => h \in Inv!Groups
      BY <2>1, Keys DEF Holds
    <2>3. order[p].status = "CONFIRMED" /\ rsv[h].status = "ACTIVE" => rsv'[h] = rsv[h]
      BY <1>7, <2>2
    <2>4. QED
      BY <1>5, <2>1, <2>3 DEF Holds
  <1>14. QED
    BY <1>5, <1>8, <1>9, <1>10, <1>11, <1>12, <1>13 DEF ResInv

-----------------------------------------------------------------------------
(* The steps of the reconciler *)

\* order-service answers RELEASE only for a group the order has passed by.
LEMMA ReconcileStep ==
    ASSUME ResInv, NEW g \in Inv!Groups, Reconcile(g)
    PROVE  ResInv'
  <1> DEFINE d == ReconcileDecision(g)
  <1>1. /\ UNCHANGED <<orderVars, rsv, reserveNet, answer, releaseNet>>
        /\ plan' = [plan EXCEPT ![g] = d] /\ rsv[g].status = "ACTIVE"
    BY DEF Reconcile, stockVars
  <1>2. d \in {"none", "RELEASE", "ACKNOWLEDGE", "CONFIRM"}
    BY DEF ReconcileDecision
  <1>3. d = "RELEASE" => order[g[1]].status = "CANCELED" \/ PassedBy(g)
    <2>1. g[1] \in Orders /\ g[2] \in Nat /\ g[2] >= 1 /\ order[g[1]].version \in Nat
      BY Keys, OrderRow DEF ResInv
    <2>2. Fits(g[1], g[2], rsv[g].lines)
      BY <1>1 DEF ResInv, KeysFit
    <2>3. order[g[1]].status # "NONE"
      <3>1. Holds(g[1])
        BY <2>1 DEF ResInv
      <3>2. order[g[1]].status = "NONE" => order[g[1]].version = 0
        BY <3>1 DEF Holds
      <3>3. g[2] <= order[g[1]].version
        BY <2>2 DEF Fits
      <3>4. QED
        BY <2>1, <3>2, <3>3
    <2>4. QED
      BY <2>1, <2>2, <2>3 DEF ReconcileDecision, Exists, Fits, PassedBy, EDITABLE
  <1> HIDE DEF d
  <1>4. plan' \in [Inv!Groups -> {"none", "RELEASE", "ACKNOWLEDGE", "CONFIRM", "CONFIRMING"}]
    BY <1>1, <1>2 DEF ResInv, LinkTypeOK
  <1>5. \A h \in Inv!Groups : plan'[h] = "RELEASE" =>
              plan[h] = "RELEASE" \/ order[h[1]].status = "CANCELED" \/ PassedBy(h)
    BY <1>1, <1>3 DEF ResInv, LinkTypeOK
  <1>6. releaseNet' \subseteq Orders
    BY <1>1 DEF ResInv, LinkTypeOK
  <1>7. QED
    BY <1>1, <1>4, <1>5, <1>6, OnlyLinks

\* The confirm of the reconciler is a confirm like any other.
LEMMA ReconcileConfirmStep ==
    ASSUME ResInv, NEW g \in Inv!Groups, ReconcileConfirm(g)
    PROVE  ResInv'
  <1>1. g[1] \in Orders
    BY Keys
  <1>2. UNCHANGED <<rsv, releaseNet>>
    BY DEF ReconcileConfirm, stockVars
  <1>3. \E next \in {"none", "CONFIRMING"} : plan' = [plan EXCEPT ![g] = next]
    BY DEF ReconcileConfirm
  <1>4. /\ plan' \in [Inv!Groups -> {"none", "RELEASE", "ACKNOWLEDGE", "CONFIRM", "CONFIRMING"}]
        /\ \A h \in Inv!Groups : plan'[h] = "RELEASE" => plan[h] = "RELEASE"
    BY <1>3 DEF ResInv, LinkTypeOK
  <1>5. CASE BeginConfirm(g[1], g[2], FALSE) /\ SendReserve(g[1], g[2])
    <2>1. g[2] = order[g[1]].version
      BY <1>5 DEF BeginConfirm
    <2>2. /\ BeginConfirm(g[1], order[g[1]].version, FALSE)
          /\ SendReserve(g[1], order[g[1]].version)
      BY <1>5, <2>1
    <2>3. QED
      BY <1>1, <1>2, <1>4, <2>2, SendStep
  <1>6. CASE UNCHANGED <<orderVars, reserveNet, answer>>
    <2>1. releaseNet' \subseteq Orders
      BY <1>2 DEF ResInv, LinkTypeOK
    <2>2. QED
      BY <1>2, <1>4, <1>6, <2>1, OnlyLinks
  <1>7. QED
    BY <1>5, <1>6 DEF ReconcileConfirm

\* A decision is applied although order-service gave it in the past.
LEMMA ReconcileApplyStep ==
    ASSUME ResInv, NEW g \in Inv!Groups, ReconcileApply(g)
    PROVE  ResInv'
  <1>1. /\ UNCHANGED <<orderVars, reserveNet, answer, releaseNet>>
        /\ plan' = [plan EXCEPT ![g] = "none"]
    BY DEF ReconcileApply
  <1>2. /\ plan' \in [Inv!Groups -> {"none", "RELEASE", "ACKNOWLEDGE", "CONFIRM", "CONFIRMING"}]
        /\ \A h \in Inv!Groups : plan'[h] = "RELEASE" => plan[h] = "RELEASE"
    BY <1>1 DEF ResInv, LinkTypeOK
  <1>3. CASE Inv!AckByReconciler(g[1], g[2])
    BY <1>1, <1>2, <1>3, Acknowledged, SameGroups
  <1>4. CASE plan[g] = "RELEASE" /\ Inv!ReleaseGroup(g[1], g[2])
    <2> DEFINE G == Inv!Active(g[1]) \cap {<<g[1], g[2]>>}
    <2>1. Inv!ReleaseGroups(G)
      BY <1>4 DEF Inv!ReleaseGroup
    <2>2. \A h \in G : h = g /\ rsv[h].status = "ACTIVE"
      BY Keys DEF Inv!Active, Inv!With
    <2>3. Ending(g[1]) \/ PassedBy(g)
      BY <1>4 DEF ResInv, ReleasesMeant, Ending
    <2> HIDE DEF G
    <2>4. \A h \in G : /\ h \in Inv!Groups /\ rsv[h].status = "ACTIVE"
                       /\ Ending(h[1]) \/ PassedBy(h)
      BY <2>2, <2>3
    <2>5. QED
      BY <1>1, <1>2, <2>1, <2>4, ReleaseKeeps
  <1>5. QED
    BY <1>3, <1>4 DEF ReconcileApply

\* A decision may be lost.
LEMMA ReconcileFailStep ==
    ASSUME ResInv, NEW g \in Inv!Groups, ReconcileFail(g)
    PROVE  ResInv'
  <1>1. /\ UNCHANGED <<orderVars, rsv, reserveNet, answer, releaseNet>>
        /\ plan' = [plan EXCEPT ![g] = "none"]
    BY DEF ReconcileFail, stockVars
  <1>2. /\ plan' \in [Inv!Groups -> {"none", "RELEASE", "ACKNOWLEDGE", "CONFIRM", "CONFIRMING"}]
        /\ \A h \in Inv!Groups : plan'[h] = "RELEASE" => plan[h] = "RELEASE"
        /\ releaseNet' \subseteq Orders
    BY <1>1 DEF ResInv, LinkTypeOK
  <1>3. QED
    BY <1>1, <1>2, OnlyLinks

-----------------------------------------------------------------------------
(* The theorems *)

\* The invariant holds of the empty services.
LEMMA ResInit == ReservationInit => ResInv
  <1> SUFFICES ASSUME ReservationInit
               PROVE  ResInv
    OBVIOUS
  <1>1. OrderInv
    BY OrderInitially DEF ReservationInit
  <1>2. \A g \in Inv!Groups : rsv[g] = Inv!NoGroupRow
    BY DEF ReservationInit, Inv!InventoryInit
  <1>3. Inv!NoGroupRow \in Inv!GroupRow /\ Inv!NoGroupRow.status = "NONE"
    BY StockAssumption DEF Inv!NoGroupRow, Inv!GroupRow, Inv!GroupStatus, Inv!NoLines
  <1>4. LinkTypeOK
    BY <1>3 DEF ReservationInit, Inv!InventoryInit, LinkTypeOK
  <1>5. KeysFit
    BY <1>2, <1>3 DEF KeysFit
  <1>6. RequestsFit /\ AnswersHold
    BY DEF ReservationInit, OrderInit, RequestsFit, AnswersHold
  <1>7. ReleasesMeant
    BY DEF ReservationInit, OrderInit, ReleasesMeant
  <1>8. \A o \in Orders : Holds(o)
    BY DEF ReservationInit, OrderInit, Holds
  <1>9. QED
    BY <1>1, <1>4, <1>5, <1>6, <1>7, <1>8 DEF ResInv

\* Every step of the two services and of the network preserves it.
LEMMA ResStep == ResInv /\ [ReservationNext]_reservationVars => ResInv'
  <1> SUFFICES ASSUME ResInv, [ReservationNext]_reservationVars
               PROVE  ResInv'
    OBVIOUS
  <1>1. CASE UNCHANGED reservationVars
    <2>1. UNCHANGED <<orderVars, rsv, reserveNet, answer, releaseNet, plan>>
      BY <1>1 DEF reservationVars, stockVars, linkVars
    <2>2. /\ plan' \in [Inv!Groups -> {"none", "RELEASE", "ACKNOWLEDGE", "CONFIRM",
                                       "CONFIRMING"}]
          /\ releaseNet' \subseteq Orders
      BY <2>1 DEF ResInv, LinkTypeOK
    <2>3. QED
      BY <2>1, <2>2, OnlyLinks
  <1>2. ASSUME NEW o \in Orders,
               \/ NewOrder(o) \/ Confirm(o) \/ Confirmed(o) \/ Shortage(o) \/ GiveUp(o)
               \/ Edit(o) \/ Edited(o)
        PROVE  ResInv'
    BY <1>2, NewOrderStep, ConfirmStep, ConfirmedStep, ShortageStep, GiveUpStep, EditStep,
       EditedStep
  <1>3. ASSUME NEW o \in Orders,
               \/ Cancel(o) \/ CallRelease(o) \/ AbandonCancel(o) \/ Canceled(o)
               \/ HandleRelease(o)
        PROVE  ResInv'
    BY <1>3, CancelStep, CallReleaseStep, CanceledStep, HandleReleaseStep
  <1>4. ASSUME NEW q \in reserveNet, HandleReserve(q) \/ LoseReserve(q)
        PROVE  ResInv'
    BY <1>4, HandleReserveStep, LoseReserveStep
  <1>5. ASSUME NEW e \in orderLog, HandleEvent(e)
        PROVE  ResInv'
    BY <1>5, HandleEventStep
  <1>6. ASSUME NEW g \in Inv!Groups,
               Reconcile(g) \/ ReconcileConfirm(g) \/ ReconcileApply(g) \/ ReconcileFail(g)
        PROVE  ResInv'
    BY <1>6, ReconcileStep, ReconcileConfirmStep, ReconcileApplyStep, ReconcileFailStep
  <1>7. ASSUME NEW m \in Movements, Movement(m)
        PROVE  ResInv'
    BY <1>7, MovementStep
  <1>8. QED
    BY <1>1, <1>2, <1>3, <1>4, <1>5, <1>6, <1>7 DEF ReservationNext

\* Hence it always holds.
LEMMA ResAlways == ReservationSpec => []ResInv
  BY ResInit, ResStep, PTL DEF ReservationSpec

(***************************************************************************)
(* A confirmed order that nobody cancels holds its goods, whatever late    *)
(* requests, releases and reconciler decisions are still under way.        *)
(***************************************************************************)
THEOREM ConfirmedOrdersHoldStock == ReservationSpec => []ConfirmedHoldsStock
  <1>1. ResInv => ConfirmedHoldsStock
    BY DEF ResInv, Holds, ConfirmedHoldsStock
  <1>2. QED
    BY <1>1, ResAlways, PTL

(***************************************************************************)
(* The idempotency key of the next confirm is never burnt by a call that   *)
(* was lost, late or repeated: reserve can serve or replay it.             *)
(***************************************************************************)
THEOREM NextKeyIsUsable == ReservationSpec => []NextKeyUsable
  <1>1. ResInv => NextKeyUsable
    <2> SUFFICES ASSUME ResInv, NEW o \in Orders, order[o].version \in Inv!Versions,
                        rsv[<<o, order[o].version>>].status # "NONE"
                 PROVE  /\ rsv[<<o, order[o].version>>].status = "ACTIVE"
                        /\ rsv[<<o, order[o].version>>].lines = order[o].lines
      BY DEF NextKeyUsable
    <2> DEFINE g == <<o, order[o].version>>
    <2>1. g \in Inv!Groups /\ g[1] = o /\ g[2] = order[o].version
      BY Keys
    <2> HIDE DEF g
    <2>2. rsv[g].status # "NONE" => rsv[g].status = "ACTIVE" /\ rsv[g].lines = order[o].lines
      BY <2>1 DEF ResInv, KeysFit, Fits
    <2>3. QED
      BY <2>2 DEF g
  <1>2. QED
    BY <1>1, ResAlways, PTL
=============================================================================
