--------------------------- MODULE OrderReservation ---------------------------
(***************************************************************************)
(* The reservation protocol between order-service and inventory-service.   *)
(*                                                                         *)
(* confirm calls reserve over HTTP while it holds the order's row lock.    *)
(* The call may be lost, answered after the caller gave up (5 s timeout,   *)
(* 15 s transaction limit, crash), or handled late: the reserve request    *)
(* stays in flight when its transaction is rolled back.  A cancellation    *)
(* first persists its intent, then calls release, then completes; the      *)
(* recovery worker repeats the last two.  OrderConfirmed and OrderCanceled *)
(* reach inventory-service through the outbox, in the order of the         *)
(* aggregate; a redelivered event is stopped by the inbox.  A reconciler   *)
(* in inventory-service asks order-service about ACTIVE groups no          *)
(* confirmation has acknowledged; order-service answers from a read        *)
(* without lock and the answer is applied later.                           *)
(***************************************************************************)
EXTENDS Order

CONSTANTS MaxQty, Products, Movements, Delta    \* as in module Inventory

\* The two services agree on the range of a line's quantity.
ASSUME StockAssumption ==
    /\ MaxQty \in Nat
    /\ Demands \subseteq [Products -> 0 .. MaxQty]

VARIABLES
    onHand, reserved, rsv, applied,    \* inventory-service
    reserveNet,    \* reserve requests in flight
    answer,        \* answer[o]: reserve's answer to the confirm in progress
    canceller,     \* canceller[o]: where completeCancellation of o stands
    releaseNet,    \* orders with a release request in flight
    plan,          \* plan[g]: the reconciler's decision about group g
    consumed       \* order events handled by inventory-service (its inbox)

Inv == INSTANCE Inventory

stockVars == <<onHand, reserved, rsv, applied>>
linkVars == <<reserveNet, answer, canceller, releaseNet, plan, consumed>>
reservationVars == <<orderVars, stockVars, linkVars>>

ReservationInit ==
    /\ OrderInit
    /\ Inv!InventoryInit
    /\ reserveNet = {}
    /\ answer = [o \in Orders |-> "none"]
    /\ canceller = [o \in Orders |-> "idle"]
    /\ releaseNet = {}
    /\ plan = [g \in Inv!Groups |-> "none"]
    /\ consumed = {}

-----------------------------------------------------------------------------
(* order-service: commands *)

NewOrder(o) ==
    /\ \E lines \in Demands : Create(o, lines)
    /\ UNCHANGED <<stockVars, linkVars>>

\* The transaction has read and locked the row, and sends the reserve request.
SendReserve(o, v) ==
    /\ reserveNet' = reserveNet \cup {[order |-> o, version |-> v,
                                      lines |-> order[o].lines, late |-> FALSE]}
    /\ answer' = [answer EXCEPT ![o] = "none"]

Confirm(o) ==
    /\ BeginConfirm(o, order[o].version, FALSE)
    /\ SendReserve(o, order[o].version)
    /\ UNCHANGED <<stockVars, canceller, releaseNet, plan, consumed>>

\* The reconciler's confirm, if this is one, ends with its transaction.
EndPlan(o, next) ==
    plan' = [g \in Inv!Groups |->
               IF plan[g] = "CONFIRMING" /\ g[1] = o THEN next ELSE plan[g]]

Confirmed(o) ==
    /\ answer[o] = "RESERVED"
    /\ CommitReserved(o)
    /\ EndPlan(o, "ACKNOWLEDGE")
    /\ UNCHANGED <<stockVars, reserveNet, answer, canceller, releaseNet, consumed>>

\* The reconciler's call fails when the order did not take the group over.
Shortage(o) ==
    /\ answer[o] = "INSUFFICIENT"
    /\ CommitInsufficient(o)
    /\ EndPlan(o, "none")
    /\ UNCHANGED <<stockVars, reserveNet, answer, canceller, releaseNet, consumed>>

(***************************************************************************)
(* A conflict answer, a timeout or a crash rolls the transaction back.  Its *)
(* request may still be handled; late copies of one request act as one.    *)
(***************************************************************************)
GiveUp(o) ==
    /\ Abort(o)
    /\ reserveNet' = {IF q.order = o THEN [q EXCEPT !.late = TRUE] ELSE q : q \in reserveNet}
    /\ EndPlan(o, "none")
    /\ UNCHANGED <<stockVars, answer, canceller, releaseNet, consumed>>

\* update: inventory-service is asked under the lock and answers "no ACTIVE group".
Edit(o) ==
    /\ \E lines \in Demands : BeginUpdate(o, lines)
    /\ Inv!Active(o) = {}
    /\ UNCHANGED <<stockVars, linkVars>>

Edited(o) ==
    /\ \E content \in BOOLEAN : CommitUpdate(o, content)
    /\ UNCHANGED <<stockVars, linkVars>>

-----------------------------------------------------------------------------
(* order-service: cancellation, by its caller or by the recovery worker *)

Cancel(o) ==
    /\ RequestCancel(o)
    /\ UNCHANGED <<stockVars, linkVars>>

\* completeCancellation reads the intent without a lock and calls release.
\* Mutant: the recovery worker only looks at orders with a reservation.
CallReleaseReserved(o) ==
    /\ canceller[o] = "idle"
    /\ CanFinishCancel(o)
    /\ order[o].group # 0
    /\ canceller' = [canceller EXCEPT ![o] = "waiting"]
    /\ releaseNet' = releaseNet \cup {o}
    /\ UNCHANGED <<orderVars, stockVars, reserveNet, answer, plan, consumed>>

CallRelease(o) ==
    /\ canceller[o] = "idle"
    /\ CanFinishCancel(o)
    /\ canceller' = [canceller EXCEPT ![o] = "waiting"]
    /\ releaseNet' = releaseNet \cup {o}
    /\ UNCHANGED <<orderVars, stockVars, reserveNet, answer, plan, consumed>>

\* A timeout or a crash; the release request may be lost or handled later.
AbandonCancel(o) ==
    /\ canceller[o] # "idle"
    /\ canceller' = [canceller EXCEPT ![o] = "idle"]
    /\ releaseNet' \in {releaseNet, releaseNet \ {o}}
    /\ UNCHANGED <<orderVars, stockVars, reserveNet, answer, plan, consumed>>

Canceled(o) ==
    /\ canceller[o] = "released"
    /\ Unlocked(o)
    /\ \/ FinishCancel(o)
       \/ ~CanFinishCancel(o) /\ UNCHANGED orderVars
    /\ canceller' = [canceller EXCEPT ![o] = "idle"]
    /\ UNCHANGED <<stockVars, reserveNet, answer, releaseNet, plan, consumed>>

-----------------------------------------------------------------------------
(* inventory-service: the calls and events of order-service *)

\* The answer reaches the confirm that asked, if it still waits.
HandleReserve(q) ==
    /\ q \in reserveNet
    /\ Inv!Reserve(q.order, q.version, q.lines)
    /\ reserveNet' = reserveNet \ {q}
    /\ answer' = IF q.late THEN answer
                 ELSE [answer EXCEPT ![q.order] =
                         Inv!ReserveOutcome(q.order, q.version, q.lines)]
    /\ UNCHANGED <<orderVars, canceller, releaseNet, plan, consumed>>

LoseReserve(q) ==
    /\ q \in reserveNet
    /\ reserveNet' = reserveNet \ {q}
    /\ UNCHANGED <<orderVars, stockVars, answer, canceller, releaseNet, plan, consumed>>

HandleRelease(o) ==
    /\ o \in releaseNet
    /\ Inv!ReleaseOrder(o)
    /\ releaseNet' = releaseNet \ {o}
    /\ canceller' = IF canceller[o] = "waiting"
                    THEN [canceller EXCEPT ![o] = "released"] ELSE canceller
    /\ UNCHANGED <<orderVars, reserveNet, answer, plan, consumed>>

HandledTypes == {"OrderConfirmed", "OrderCanceled"}

\* The next event of an order, in the order of its versions.
NextEvent(e) ==
    /\ e \in orderLog \ consumed
    /\ e.type \in HandledTypes
    /\ \A f \in orderLog \ consumed :
          f.order = e.order /\ f.type \in HandledTypes => f.version >= e.version

HandleEvent(e) ==
    /\ NextEvent(e)
    /\ \/ e.type = "OrderConfirmed" /\ Inv!AckByEvent(e.order, e.group)
       \/ e.type = "OrderCanceled" /\ Inv!ReleaseOrder(e.order)
    /\ consumed' = consumed \cup {e}
    /\ UNCHANGED <<orderVars, reserveNet, answer, canceller, releaseNet, plan>>

-----------------------------------------------------------------------------
(* the reconciler *)

\* Mutants: a group the order took over is released; a group the order may still
\* take over is released; a group of another version is left alone.
DecideByVersion(g) ==
    IF order[g[1]].version # g[2] THEN "RELEASE" ELSE "CONFIRM"

DecideByGroup(g) ==
    IF order[g[1]].cancelling THEN "none"
    ELSE IF order[g[1]].group = g[2] THEN "ACKNOWLEDGE" ELSE "RELEASE"

DecideLazily(g) ==
    IF order[g[1]].status = "CANCELED" THEN "RELEASE"
    ELSE IF order[g[1]].group = g[2] THEN "ACKNOWLEDGE"
    ELSE IF order[g[1]].version # g[2] THEN "none"
    ELSE "CONFIRM"

\* order-service's decision about the ACTIVE group g = <<o, v>>.
ReconcileDecision(g) ==
    LET o == g[1] IN
    IF ~Exists(o) \/ order[o].status = "CANCELED" THEN "RELEASE"
    ELSE IF order[o].cancelling THEN "none"
    ELSE IF order[o].group = g[2] THEN "ACKNOWLEDGE"
    ELSE IF order[o].status \notin EDITABLE THEN "RELEASE"
    ELSE IF order[o].version # g[2] \/ order[o].lines # rsv[g].lines THEN "RELEASE"
    ELSE "CONFIRM"

Reconcile(g) ==
    /\ rsv[g].status = "ACTIVE" /\ ~rsv[g].ack
    /\ plan[g] = "none"
    /\ ReconcileDecision(g) # "none"
    /\ plan' = [plan EXCEPT ![g] = ReconcileDecision(g)]
    /\ UNCHANGED <<orderVars, stockVars, reserveNet, answer, canceller, releaseNet,
                   consumed>>

\* The order still asks for exactly this group: confirm it at that version.
ReconcileConfirm(g) ==
    /\ plan[g] = "CONFIRM"
    /\ Unlocked(g[1])
    /\ \/ /\ BeginConfirm(g[1], g[2], FALSE)
          /\ SendReserve(g[1], g[2])
          /\ plan' = [plan EXCEPT ![g] = "CONFIRMING"]
       \/ /\ ~(assertConfirmable(g[1], FALSE) /\ order[g[1]].version = g[2])
          /\ plan' = [plan EXCEPT ![g] = "none"]
          /\ UNCHANGED <<orderVars, reserveNet, answer>>
    /\ UNCHANGED <<stockVars, canceller, releaseNet, consumed>>

\* The decision is applied, or it is lost with the answer of order-service.
ReconcileApply(g) ==
    /\ \/ plan[g] = "RELEASE" /\ Inv!ReleaseGroup(g[1], g[2])
       \/ plan[g] = "ACKNOWLEDGE" /\ Inv!AckByReconciler(g[1], g[2])
    /\ plan' = [plan EXCEPT ![g] = "none"]
    /\ UNCHANGED <<orderVars, reserveNet, answer, canceller, releaseNet, consumed>>

ReconcileFail(g) ==
    /\ plan[g] \in {"RELEASE", "ACKNOWLEDGE", "CONFIRM", "CONFIRMING"}
    /\ plan' = [plan EXCEPT ![g] = "none"]
    /\ UNCHANGED <<orderVars, stockVars, reserveNet, answer, canceller, releaseNet,
                   consumed>>

Movement(m) ==
    /\ Inv!ApplyMovement(m)
    /\ UNCHANGED <<orderVars, linkVars>>

ReservationNext ==
    \/ \E o \in Orders :
          \/ NewOrder(o) \/ Confirm(o) \/ Confirmed(o) \/ Shortage(o) \/ GiveUp(o)
          \/ Edit(o) \/ Edited(o)
          \/ Cancel(o) \/ CallRelease(o) \/ AbandonCancel(o) \/ Canceled(o)
          \/ HandleRelease(o)
    \/ \E q \in reserveNet : HandleReserve(q) \/ LoseReserve(q)
    \/ \E e \in orderLog : HandleEvent(e)
    \/ \E g \in Inv!Groups :
          Reconcile(g) \/ ReconcileConfirm(g) \/ ReconcileApply(g) \/ ReconcileFail(g)
    \/ \E m \in Movements : Movement(m)

(***************************************************************************)
(* Fairness.  Workers, relays and timeouts run for ever: weak fairness.  A *)
(* call or an answer may be lost any number of times, but one that is made *)
(* again and again is answered in time in the end: strong fairness.  Users *)
(* are not obliged to do anything.                                         *)
(***************************************************************************)
ReservationFairness ==
    /\ \A o \in Orders :
          /\ WF_reservationVars(Confirmed(o) \/ Shortage(o) \/ Edited(o) \/ GiveUp(o))
          /\ SF_reservationVars(\E q \in reserveNet : q.order = o /\ ~q.late /\ HandleReserve(q))
          /\ SF_reservationVars(Confirmed(o))
          /\ WF_reservationVars(CallRelease(o))
          /\ SF_reservationVars(canceller[o] = "waiting" /\ HandleRelease(o))
          /\ SF_reservationVars(Canceled(o))
          /\ WF_reservationVars(\E e \in orderLog : e.order = o /\ HandleEvent(e))
    /\ \A g \in Inv!Groups :
          /\ WF_reservationVars(Reconcile(g))
          /\ SF_reservationVars(ReconcileConfirm(g))
          /\ SF_reservationVars(ReconcileApply(g))

ReservationSpec ==
    ReservationInit /\ [][ReservationNext]_reservationVars /\ ReservationFairness

-----------------------------------------------------------------------------
(***************************************************************************)
(* A confirmed order that nobody cancels holds its goods: its group is     *)
(* ACTIVE with exactly the order's lines, whatever late requests, releases *)
(* and reconciler decisions are still under way.                           *)
(***************************************************************************)
ConfirmedHoldsStock ==
    \A o \in Orders :
        order[o].status = "CONFIRMED" /\ ~order[o].cancelling
            => LET g == <<o, order[o].group>> IN
               rsv[g].status = "ACTIVE" /\ rsv[g].lines = order[o].lines

(***************************************************************************)
(* The key of the next confirm is never burnt: as long as an order can be  *)
(* confirmed at its version, the group of that key does not exist yet or   *)
(* is ACTIVE with the order's lines, so that reserve can replay it.        *)
(***************************************************************************)
NextKeyUsable ==
    \A o \in Orders :
        assertConfirmable(o, FALSE) /\ order[o].version \in Inv!Versions
            => LET g == <<o, order[o].version>> IN
               \/ rsv[g].status = "NONE"
               \/ rsv[g].status = "ACTIVE" /\ rsv[g].lines = order[o].lines

\* A cancellation, once accepted, is completed whatever calls are lost.
CancellationCompletes ==
    \A o \in Orders : order[o].cancelling ~> order[o].status = "CANCELED"

(***************************************************************************)
(* Goods reserved by a call whose confirm gave up do not stay blocked: the *)
(* order takes the group over or the group is released.                    *)
(***************************************************************************)
OrphanResolved ==
    \A g \in Inv!Groups :
        rsv[g].status = "ACTIVE" /\ order[g[1]].group # g[2]
            ~> rsv[g].status # "ACTIVE" \/ order[g[1]].group = g[2]

=============================================================================
