------------------------- MODULE MCTripFulfillment -------------------------
(* Transport and fulfillment together on small sets of trips and shipments. *)
EXTENDS TripFulfillment, TLC

BothSymmetry == Permutations(Trips) \cup Permutations(Users) \cup Permutations(Workers)
                \cup Permutations(Couriers) \cup Permutations(DirectRequests) \cup Permutations(Batches)
=============================================================================
