------------------------------- MODULE MCOrder -------------------------------
(* The order-service alone, under arbitrary calls and shipment events.     *)
EXTENDS Order, TLC

OrderSymmetry == Permutations(Orders) \cup Permutations(Requests)
=============================================================================
