----------------------------- MODULE MCDispatch -----------------------------
(* Order, fulfillment and inventory services from confirmation to issue.   *)
EXTENDS Dispatch, TLC

MCDemands == {"P" :> 1}
MCDelta == [m \in Movements |-> "P" :> 2]
MCQuotes == 0 .. 8
MCResultOf == [e \in Results |-> [order |-> 1, trip |-> "T", outcome |-> "DELIVERED"]]
=============================================================================
