----------------------------- MODULE MCInventory -----------------------------
(* The inventory-service alone, driven by arbitrary calls of its clients.  *)
EXTENDS Inventory, TLC

\* Two balance rows: one order line each, or both at once.
MCDemands == {p1 :> 1 @@ p2 :> 1 : p1 \in {"A"}, p2 \in {"B"}}
             \cup {"A" :> 2 @@ "B" :> 0}
MCDelta == [m \in Movements |->
              CASE m = "receipt1" -> ("A" :> 2 @@ "B" :> 1)
                [] m = "receipt2" -> ("A" :> 1 @@ "B" :> 0)
                [] m = "adjust"   -> ("A" :> -1 @@ "B" :> 0)]
=============================================================================
