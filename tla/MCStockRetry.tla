---------------------------- MODULE MCStockRetry ----------------------------
(* Stock events racing with the users of the pending orders.               *)
EXTENDS StockRetry

\* An order of one unit of every product; one receipt for each product.
MCDemands == {[p \in Products |-> 1]}
MCDelta == [m \in Movements |-> [p \in Products |-> IF p = m THEN 1 ELSE 0]]
=============================================================================
