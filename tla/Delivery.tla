------------------------------ MODULE Delivery ------------------------------
(***************************************************************************)
(* What the services assume of events: the events of an aggregate take     *)
(* effect at a consumer once, in the order they were written, and in the   *)
(* end all of them do, up to one that cannot be published.  Module Outbox  *)
(* implements this; modules OrderReservation, StockRetry, Dispatch and     *)
(* TripFulfillment rely on it.                                             *)
(***************************************************************************)
EXTENDS Naturals, Sequences

CONSTANTS
    Aggregates,
    Refused       \* events <<a, n>> that the broker will not take

VARIABLES
    sent,         \* how many events of an aggregate were written
    handled       \* the events of an aggregate that took effect, in that order

deliveryVars == <<sent, handled>>

DeliveryInit ==
    /\ sent = [a \in Aggregates |-> 0]
    /\ handled = [a \in Aggregates |-> <<>>]

Send(a) == sent' = [sent EXCEPT ![a] = @ + 1] /\ UNCHANGED handled

\* The next event of the aggregate, never an earlier or a later one.
Handle(a) ==
    /\ Len(handled[a]) < sent[a]
    /\ handled' = [handled EXCEPT ![a] = Append(@, Len(@) + 1)]
    /\ UNCHANGED sent

DeliveryNext == \E a \in Aggregates : Send(a) \/ Handle(a)

\* The next event of the aggregate can be published.
Open(a) == <<a, Len(handled[a]) + 1>> \notin Refused

DeliverySpec ==
    /\ DeliveryInit /\ [][DeliveryNext]_deliveryVars
    /\ \A a \in Aggregates : WF_deliveryVars(Open(a) /\ Handle(a))
=============================================================================
