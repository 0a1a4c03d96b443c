---------------------------- MODULE MCReservation ----------------------------
(* Order-service and inventory-service over an unreliable network.         *)
EXTENDS OrderReservation, TLC

MCDemands == {"P" :> 1, "P" :> 2}
MCDelta == [m \in Movements |-> "P" :> 2]
=============================================================================
