---------------------------- MODULE MCFulfillment ----------------------------
(* The fulfillment-service under arbitrary calls, events and answers.      *)
EXTENDS Fulfillment, TLC

CONSTANT failed    \* the event id of the one DeliveryFailed

\* One result of the stop on trip T says FAILED, the others DELIVERED.
MCResultOf == [e \in Results |->
                 [order |-> 1, trip |-> "T",
                  outcome |-> IF e = failed THEN "FAILED" ELSE "DELIVERED"]]

FulfillmentSymmetry ==
    Permutations(Requests) \cup Permutations(Claims) \cup Permutations(Results \ {failed})
=============================================================================
