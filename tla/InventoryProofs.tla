--------------------------- MODULE InventoryProofs ---------------------------
(* Proofs about the inventory-service ledger, for every set of orders,     *)
(* products and movements and every bound on versions and quantities.      *)
EXTENDS Inventory, FiniteSetTheorems, TLAPS

(* A finite set of rows holds finitely many units.                         *)
LEMMA TotalType ==
    ASSUME NEW G, IsFiniteSet(G), NEW q
    PROVE  IsFiniteSet(UnitSet(G, q)) /\ Total(G, q) \in Nat
<1>1. IsFiniteSet(1 .. MaxQty)
  BY FS_Interval, MaxQtyAssumption
<1>2. IsFiniteSet(G \X (1 .. MaxQty))
  BY <1>1, FS_Product
<1>3. UnitSet(G, q) \in SUBSET (G \X (1 .. MaxQty))
  BY DEF UnitSet
<1> QED
  BY <1>2, <1>3, FS_Subset, FS_CardinalityType DEF Total

(* No rows, no quantity.                                                   *)
LEMMA TotalEmpty == ASSUME NEW q PROVE Total({}, q) = 0
<1>1. UnitSet({}, q) = {}
  BY DEF UnitSet
<1> QED
  BY <1>1, FS_EmptySet DEF Total

(* One row contributes its own quantity.                                   *)
LEMMA TotalSingle ==
    ASSUME NEW g, NEW q, q[g] \in Int, q[g] <= MaxQty
    PROVE  Total({g}, q) = IF q[g] > 0 THEN q[g] ELSE 0
<1>1. UnitSet({g}, q) = {g} \X (1 .. q[g])
  BY MaxQtyAssumption DEF UnitSet
<1>2. IsFiniteSet({g}) /\ Cardinality({g}) = 1
  BY FS_Singleton
<1>3. IsFiniteSet(1 .. q[g])
      /\ Cardinality(1 .. q[g]) = IF 1 > q[g] THEN 0 ELSE q[g] - 1 + 1
  BY FS_Interval
<1>4. Cardinality({g} \X (1 .. q[g])) = 1 * Cardinality(1 .. q[g])
  BY <1>2, <1>3, FS_Product
<1>5. Cardinality(1 .. q[g]) = IF q[g] > 0 THEN q[g] ELSE 0
  <2>1. CASE q[g] > 0
    BY <1>3, <2>1
  <2>2. CASE ~(q[g] > 0)
    BY <1>3, <2>2
  <2> QED
    BY <2>1, <2>2
<1>6. 1 * Cardinality(1 .. q[g]) = IF q[g] > 0 THEN q[g] ELSE 0
  BY <1>5
<1> QED
  BY <1>1, <1>4, <1>6 DEF Total

(* Totals add over disjoint sets of rows.                                  *)
LEMMA TotalUnion ==
    ASSUME NEW G, IsFiniteSet(G), NEW H, IsFiniteSet(H), G \cap H = {}, NEW q
    PROVE  Total(G \cup H, q) = Total(G, q) + Total(H, q)
<1>1. UnitSet(G \cup H, q) = UnitSet(G, q) \cup UnitSet(H, q)
  BY DEF UnitSet
<1>2. UnitSet(G, q) \cap UnitSet(H, q) = {}
  BY DEF UnitSet
<1>3. /\ IsFiniteSet(UnitSet(G, q)) /\ Total(G, q) \in Nat
      /\ IsFiniteSet(UnitSet(H, q)) /\ Total(H, q) \in Nat
  BY TotalType
<1>4. Cardinality(UnitSet(G, q) \cup UnitSet(H, q))
        = Cardinality(UnitSet(G, q)) + Cardinality(UnitSet(H, q)) - 0
  BY <1>2, <1>3, FS_Union, FS_EmptySet
<1>5. Total(G \cup H, q) = Total(G, q) + Total(H, q) - 0
  BY <1>1, <1>4 DEF Total
<1> QED
  BY <1>3, <1>5

(* Only the rows of G matter to the total over G.                          *)
LEMMA TotalSame ==
    ASSUME NEW G, NEW q, NEW r, \A g \in G : q[g] = r[g]
    PROVE  Total(G, q) = Total(G, r)
<1>1. UnitSet(G, q) = UnitSet(G, r)
  BY DEF UnitSet
<1> QED
  BY <1>1 DEF Total

(* A row that joins G adds its quantity, a row that leaves takes it away.  *)
LEMMA TotalAdd ==
    ASSUME NEW G, IsFiniteSet(G), NEW g, g \notin G,
           NEW q, q[g] \in Nat, q[g] <= MaxQty
    PROVE  Total(G \cup {g}, q) = Total(G, q) + q[g]
<1>1. IsFiniteSet({g})
  BY FS_Singleton
<1>2. Total(G \cup {g}, q) = Total(G, q) + Total({g}, q)
  BY <1>1, TotalUnion
<1>3. q[g] \in Int
  OBVIOUS
<1>4. Total({g}, q) = IF q[g] > 0 THEN q[g] ELSE 0
  BY <1>3, TotalSingle
<1>5. Total({g}, q) = q[g]
  BY <1>4
<1> QED
  BY <1>2, <1>5

-----------------------------------------------------------------------------
(* There are finitely many reservation groups.                             *)
LEMMA GroupsFinite ==
    IsFiniteSet(Groups) /\ \A G \in SUBSET Groups : IsFiniteSet(G)
<1>1. IsFiniteSet(Versions)
  BY FS_Interval, InventoryAssumption DEF Versions
<1>2. IsFiniteSet(Groups)
  BY <1>1, FS_Product, InventoryAssumption DEF Groups
<1> QED
  BY <1>2, FS_Subset

(* Every step of the service is one of its transactions, or changes        *)
(* nothing of the ledger.                                                  *)
LEMMA InventoryCases ==
    ASSUME [InventoryNext]_inventoryVars
    PROVE  \/ \E o \in Orders, v \in Versions, lines \in Demands : CreateGroup(o, v, lines)
           \/ \E G \in SUBSET With("ACTIVE") : ReleaseGroups(G)
           \/ \E g \in Groups : /\ rsv' = [rsv EXCEPT ![g].ack = TRUE]
                                /\ UNCHANGED <<onHand, reserved, applied>>
           \/ \E o \in Orders, v \in Versions, r \in Requests : Issue(o, v, r)
           \/ \E m \in Movements : ApplyMovement(m)
           \/ UNCHANGED inventoryVars
<1>1. ASSUME NEW o \in Orders, NEW v \in Versions, ReleaseGroup(o, v)
      PROVE  \E G \in SUBSET With("ACTIVE") : ReleaseGroups(G)
  BY <1>1 DEF ReleaseGroup, Active
<1>2. ASSUME NEW o \in Orders, ReleaseOrder(o)
      PROVE  \E G \in SUBSET With("ACTIVE") : ReleaseGroups(G)
  BY <1>2 DEF ReleaseOrder, Active
<1>3. ASSUME NEW o \in Orders, NEW v \in Versions,
             AckByEvent(o, v) \/ AckByReconciler(o, v)
      PROVE  \/ \E g \in Groups : /\ rsv' = [rsv EXCEPT ![g].ack = TRUE]
                                  /\ UNCHANGED <<onHand, reserved, applied>>
             \/ UNCHANGED inventoryVars
  BY <1>3 DEF AckByEvent, AckByReconciler, Groups, inventoryVars
<1> QED
  BY <1>1, <1>2, <1>3 DEF InventoryNext

(* Rows keep their types: balances never go negative because every         *)
(* decrement is guarded.                                                   *)
LEMMA TypeStep ==
    InventoryTypeOK /\ [InventoryNext]_inventoryVars => InventoryTypeOK'
<1> SUFFICES ASSUME InventoryTypeOK, [InventoryNext]_inventoryVars
             PROVE  InventoryTypeOK'
  OBVIOUS
<1> USE InventoryAssumption, MaxQtyAssumption DEF InventoryTypeOK
<1>1. CASE \E o \in Orders, v \in Versions, lines \in Demands : CreateGroup(o, v, lines)
  <2> PICK o \in Orders, v \in Versions, lines \in Demands : CreateGroup(o, v, lines)
    BY <1>1
  <2>1. <<o, v>> \in Groups /\ lines \in [Products -> 0 .. MaxQty]
    BY DEF Groups
  <2>2. reserved' \in [Products -> Nat]
    BY <2>1 DEF CreateGroup
  <2>3. [rsv[<<o, v>>] EXCEPT !.status = "ACTIVE", !.lines = lines] \in GroupRow
    BY <2>1 DEF GroupRow, GroupStatus
  <2>4. rsv' \in [Groups -> GroupRow]
    BY <2>1, <2>3 DEF CreateGroup
  <2> QED
    BY <2>2, <2>4 DEF CreateGroup
<1>2. CASE \E G \in SUBSET With("ACTIVE") : ReleaseGroups(G)
  <2> PICK G \in SUBSET With("ACTIVE") : ReleaseGroups(G)
    BY <1>2
  <2>1. IsFiniteSet(G)
    BY GroupsFinite DEF With
  <2>2. \A p \in Products : Total(G, LineOf(p)) \in Nat
    BY <2>1, TotalType
  <2>3. reserved' \in [Products -> Nat]
    BY <2>2 DEF ReleaseGroups, CanRelease
  <2>4. rsv' \in [Groups -> GroupRow]
    BY DEF ReleaseGroups, GroupRow, GroupStatus
  <2> QED
    BY <2>3, <2>4 DEF ReleaseGroups
<1>3. CASE \E g \in Groups : /\ rsv' = [rsv EXCEPT ![g].ack = TRUE]
                             /\ UNCHANGED <<onHand, reserved, applied>>
  <2> PICK g \in Groups : /\ rsv' = [rsv EXCEPT ![g].ack = TRUE]
                          /\ UNCHANGED <<onHand, reserved, applied>>
    BY <1>3
  <2>1. [rsv[g] EXCEPT !.ack = TRUE] \in GroupRow
    BY DEF GroupRow
  <2> QED
    BY <2>1
<1>4. CASE \E o \in Orders, v \in Versions, r \in Requests : Issue(o, v, r)
  <2> PICK o \in Orders, v \in Versions, r \in Requests : Issue(o, v, r)
    BY <1>4
  <2>1. <<o, v>> \in Groups /\ \A p \in Products : rsv[<<o, v>>].lines[p] \in Nat
    BY DEF Groups, GroupRow
  <2>2. ASSUME NEW p \in Products
        PROVE  /\ onHand[p] - rsv[<<o, v>>].lines[p] \in Nat
               /\ reserved[p] - rsv[<<o, v>>].lines[p] \in Nat
    <3> DEFINE l == rsv[<<o, v>>].lines[p]
    <3>1. l \in Nat /\ onHand[p] \in Nat /\ reserved[p] \in Nat
      BY <2>1
    <3>2. reserved[p] >= l /\ onHand[p] - l >= reserved[p] - l
      BY DEF Issue
    <3> HIDE DEF l
    <3>3. onHand[p] - l \in Nat /\ reserved[p] - l \in Nat
      BY <3>1, <3>2
    <3> QED
      BY <3>3 DEF l
  <2>4. onHand' \in [Products -> Nat] /\ reserved' \in [Products -> Nat]
    BY <2>2 DEF Issue
  <2>3. rsv' \in [Groups -> GroupRow]
    BY <2>1 DEF Issue, GroupRow, GroupStatus
  <2> QED
    BY <2>3, <2>4 DEF Issue
<1>5. CASE \E m \in Movements : ApplyMovement(m)
  BY <1>5 DEF ApplyMovement
<1>6. CASE UNCHANGED inventoryVars
  BY <1>6 DEF inventoryVars
<1> QED
  BY <1>1, <1>2, <1>3, <1>4, <1>5, <1>6, InventoryCases

(* The type invariant of the inventory-service.                            *)
THEOREM InventoryTypeCorrect == InventorySpec => []InventoryTypeOK
<1>1. InventoryInit => InventoryTypeOK
  BY InventoryAssumption, MaxQtyAssumption
     DEF InventoryInit, InventoryTypeOK, NoGroupRow, GroupRow, GroupStatus, NoLines
<1> QED
  BY <1>1, TypeStep, PTL DEF InventorySpec

-----------------------------------------------------------------------------
(* The rows of a product, as functions on the groups and on the movements. *)
InDelta(p) == [m \in Movements |-> Delta[m][p]]
OutDelta(p) == [m \in Movements |-> -Delta[m][p]]

(* The inductive invariant: the totals agree with the rows, and they do so *)
(* for ACTIVE and ISSUED groups at once because an issue moves a group     *)
(* from one total to the other.                                            *)
LedgerInv ==
    /\ InventoryTypeOK
    /\ ReservedIsActiveLines
    /\ ReservedOnHand
    /\ StockConserved
    /\ OneActiveGroup

(* reserve: the new group joins the ACTIVE ones, so its lines join both    *)
(* the balance and the sum.                                                *)
LEMMA CreateStep ==
    ASSUME LedgerInv, InventoryTypeOK',
           NEW o \in Orders, NEW v \in Versions, NEW lines \in Demands,
           CreateGroup(o, v, lines)
    PROVE  LedgerInv'
<1> DEFINE g == <<o, v>>
<1> USE InventoryAssumption, MaxQtyAssumption
<1>1. g \in Groups /\ rsv \in [Groups -> GroupRow] /\ lines \in [Products -> 0 .. MaxQty]
  BY DEF LedgerInv, InventoryTypeOK, Groups
<1>2. rsv[g].status = "NONE" /\ Active(o) = {}
      /\ \A p \in Products : ~(Available(p) < lines[p])
  BY DEF CreateGroup, ReserveOutcome
<1>3. /\ \A h \in Groups : h # g => rsv'[h] = rsv[h]
      /\ rsv'[g].status = "ACTIVE" /\ rsv'[g].lines = lines
  BY <1>1 DEF CreateGroup, GroupRow
<1>4. With("ACTIVE")' = With("ACTIVE") \cup {g} /\ With("ISSUED")' = With("ISSUED")
      /\ g \notin With("ACTIVE") /\ g \notin With("ISSUED")
  BY <1>1, <1>2, <1>3 DEF With
<1>5. IsFiniteSet(With("ACTIVE"))
  BY GroupsFinite DEF With
<1>6. ASSUME NEW p \in Products
      PROVE  /\ Total(With("ACTIVE"), LineOf(p)') = Total(With("ACTIVE"), LineOf(p))
             /\ Total(With("ISSUED"), LineOf(p)') = Total(With("ISSUED"), LineOf(p))
             /\ LineOf(p)'[g] = lines[p]
  <2>1. \A h \in With("ACTIVE") \cup With("ISSUED") : LineOf(p)'[h] = LineOf(p)[h]
    BY <1>1, <1>2, <1>3 DEF LineOf, With
  <2>2. LineOf(p)'[g] = lines[p]
    BY <1>1, <1>3 DEF LineOf
  <2> QED
    BY <2>1, <2>2, TotalSame
<1>7. ASSUME NEW p \in Products
      PROVE  Total(With("ACTIVE"), LineOf(p))' = Total(With("ACTIVE"), LineOf(p)) + lines[p]
  <2>1. lines[p] \in Nat /\ lines[p] <= MaxQty
    BY <1>1
  <2>2. Total(With("ACTIVE") \cup {g}, LineOf(p)') = Total(With("ACTIVE"), LineOf(p)') + lines[p]
    <3> DEFINE q == LineOf(p)'
               A == With("ACTIVE")
    <3>1. q[g] \in Nat /\ q[g] <= MaxQty /\ q[g] = lines[p]
      BY <1>6, <2>1
    <3>2. IsFiniteSet(A) /\ g \notin A
      BY <1>4, <1>5
    <3> HIDE DEF g, q, A
    <3>3. Total(A \cup {g}, q) = Total(A, q) + q[g]
      BY <3>1, <3>2, TotalAdd
    <3> QED
      BY <3>1, <3>3 DEF q, A
  <2> QED
    BY <1>4, <1>6, <2>2
<1>8. ReservedIsActiveLines'
  BY <1>7 DEF ReservedIsActiveLines, LedgerInv, CreateGroup
<1>9. ReservedOnHand'
  BY <1>1, <1>2 DEF ReservedOnHand, LedgerInv, CreateGroup, Available, InventoryTypeOK
<1>10. StockConserved'
  BY <1>4, <1>6 DEF StockConserved, LedgerInv, CreateGroup
<1>11. OneActiveGroup'
  BY <1>2, <1>4 DEF OneActiveGroup, LedgerInv, Active
<1> QED
  BY <1>8, <1>9, <1>10, <1>11 DEF LedgerInv

(* release: the groups given back leave the ACTIVE total, and the balance  *)
(* loses exactly their lines.                                              *)
LEMMA ReleaseStep ==
    ASSUME LedgerInv, InventoryTypeOK',
           NEW G \in SUBSET With("ACTIVE"), ReleaseGroups(G)
    PROVE  LedgerInv'
<1>1. rsv \in [Groups -> GroupRow] /\ G \subseteq Groups
  BY DEF LedgerInv, InventoryTypeOK, With
<1>2. /\ \A h \in Groups : rsv'[h].lines = rsv[h].lines
      /\ \A h \in Groups \ G : rsv'[h] = rsv[h]
      /\ \A h \in G : rsv'[h].status = "RELEASED"
  BY <1>1 DEF ReleaseGroups, GroupRow
<1>3. With("ACTIVE")' = With("ACTIVE") \ G /\ With("ISSUED")' = With("ISSUED")
  BY <1>1, <1>2 DEF With
<1>4. \A p \in Products : LineOf(p)' = LineOf(p)
  BY <1>2 DEF LineOf
<1>5. IsFiniteSet(With("ACTIVE") \ G) /\ IsFiniteSet(G)
  BY GroupsFinite, <1>1 DEF With
<1>6. ASSUME NEW p \in Products
      PROVE  Total(With("ACTIVE"), LineOf(p))
               = Total(With("ACTIVE") \ G, LineOf(p)) + Total(G, LineOf(p))
  <2>1. (With("ACTIVE") \ G) \cup G = With("ACTIVE")
    OBVIOUS
  <2>2. Total((With("ACTIVE") \ G) \cup G, LineOf(p))
          = Total(With("ACTIVE") \ G, LineOf(p)) + Total(G, LineOf(p))
    BY <1>5, TotalUnion
  <2> QED
    BY <2>1, <2>2
<1>7. ASSUME NEW p \in Products
      PROVE  /\ Total(With("ACTIVE") \ G, LineOf(p)) \in Nat
             /\ Total(G, LineOf(p)) \in Nat
  BY <1>5, TotalType
<1>8. ReservedIsActiveLines'
  <2> SUFFICES ASSUME NEW p \in Products
               PROVE  reserved'[p] = Total(With("ACTIVE"), LineOf(p))'
    BY DEF ReservedIsActiveLines
  <2>1. reserved[p] = Total(With("ACTIVE"), LineOf(p))
    BY DEF ReservedIsActiveLines, LedgerInv
  <2>2. reserved'[p] = reserved[p] - Total(G, LineOf(p))
    BY DEF ReleaseGroups
  <2>3. Total(With("ACTIVE"), LineOf(p))' = Total(With("ACTIVE") \ G, LineOf(p))
    BY <1>3, <1>4
  <2> QED
    BY <1>6, <1>7, <2>1, <2>2, <2>3
<1>9. ReservedOnHand'
  BY <1>7 DEF ReservedOnHand, LedgerInv, ReleaseGroups, InventoryTypeOK
<1>10. StockConserved'
  BY <1>3, <1>4 DEF StockConserved, LedgerInv, ReleaseGroups
<1>11. OneActiveGroup'
  BY <1>3 DEF OneActiveGroup, LedgerInv
<1> QED
  BY <1>8, <1>9, <1>10, <1>11 DEF LedgerInv

(* issue: the group moves from the ACTIVE to the ISSUED total, and its     *)
(* lines leave reserved and on hand together.                              *)
LEMMA IssueStep ==
    ASSUME LedgerInv, InventoryTypeOK',
           NEW o \in Orders, NEW v \in Versions, NEW r \in Requests, Issue(o, v, r)
    PROVE  LedgerInv'
<1> DEFINE g == <<o, v>>
<1>1. g \in Groups /\ rsv \in [Groups -> GroupRow] /\ rsv[g].status = "ACTIVE"
  BY DEF LedgerInv, InventoryTypeOK, Groups, Issue
<1>2. /\ \A h \in Groups : rsv'[h].lines = rsv[h].lines
      /\ \A h \in Groups \ {g} : rsv'[h] = rsv[h]
      /\ rsv'[g].status = "ISSUED"
  BY <1>1 DEF Issue, GroupRow
<1>3. /\ With("ACTIVE")' = With("ACTIVE") \ {g} /\ g \in With("ACTIVE")
      /\ With("ISSUED")' = With("ISSUED") \cup {g} /\ g \notin With("ISSUED")
  BY <1>1, <1>2 DEF With
<1>4. \A p \in Products : LineOf(p)' = LineOf(p)
  BY <1>2 DEF LineOf
<1>5. IsFiniteSet(With("ACTIVE") \ {g}) /\ IsFiniteSet(With("ISSUED"))
  BY GroupsFinite DEF With
<1>6. ASSUME NEW p \in Products
      PROVE  /\ Total(With("ACTIVE"), LineOf(p))
                  = Total(With("ACTIVE") \ {g}, LineOf(p)) + rsv[g].lines[p]
             /\ Total(With("ISSUED") \cup {g}, LineOf(p))
                  = Total(With("ISSUED"), LineOf(p)) + rsv[g].lines[p]
             /\ rsv[g].lines[p] \in Nat
             /\ Total(With("ACTIVE") \ {g}, LineOf(p)) \in Nat
             /\ Total(With("ISSUED"), LineOf(p)) \in Nat
  <2>1. LineOf(p)[g] = rsv[g].lines[p] /\ rsv[g].lines[p] \in Nat /\ rsv[g].lines[p] <= MaxQty
    BY <1>1, MaxQtyAssumption DEF LineOf, GroupRow
  <2>2. (With("ACTIVE") \ {g}) \cup {g} = With("ACTIVE")
    BY <1>3
  <2> DEFINE q == LineOf(p)
             A == With("ACTIVE") \ {g}
             B == With("ISSUED")
  <2>5. q[g] \in Nat /\ q[g] <= MaxQty /\ q[g] = rsv[g].lines[p]
    BY <2>1
  <2>6. IsFiniteSet(A) /\ g \notin A /\ IsFiniteSet(B) /\ g \notin B
    BY <1>3, <1>5
  <2> HIDE DEF g, q, A, B
  <2>7. Total(A \cup {g}, q) = Total(A, q) + q[g] /\ Total(B \cup {g}, q) = Total(B, q) + q[g]
    BY <2>5, <2>6, TotalAdd
  <2>3. Total((With("ACTIVE") \ {g}) \cup {g}, LineOf(p))
          = Total(With("ACTIVE") \ {g}, LineOf(p)) + rsv[g].lines[p]
    BY <2>5, <2>7 DEF q, A
  <2>4. Total(With("ISSUED") \cup {g}, LineOf(p))
          = Total(With("ISSUED"), LineOf(p)) + rsv[g].lines[p]
    BY <2>5, <2>7 DEF q, B
  <2> QED
    BY <1>5, <2>1, <2>2, <2>3, <2>4, TotalType
<1>7. ReservedIsActiveLines'
  <2> SUFFICES ASSUME NEW p \in Products
               PROVE  reserved'[p] = Total(With("ACTIVE"), LineOf(p))'
    BY DEF ReservedIsActiveLines
  <2>1. reserved[p] = Total(With("ACTIVE"), LineOf(p))
    BY DEF ReservedIsActiveLines, LedgerInv
  <2>2. reserved'[p] = reserved[p] - rsv[g].lines[p]
    BY DEF Issue
  <2>3. Total(With("ACTIVE"), LineOf(p))' = Total(With("ACTIVE") \ {g}, LineOf(p))
    BY <1>3, <1>4
  <2> QED
    BY <1>6, <2>1, <2>2, <2>3
<1>8. ReservedOnHand'
  BY <1>6 DEF ReservedOnHand, LedgerInv, Issue, InventoryTypeOK
<1>9. StockConserved'
  <2> SUFFICES ASSUME NEW p \in Products
               PROVE  onHand'[p] + Total(With("ISSUED"), LineOf(p))'
                        + Total(applied, OutDelta(p)) = Total(applied, InDelta(p))
    BY DEF StockConserved, Issue, OutDelta, InDelta
  <2>1. IsFiniteSet(applied)
    BY InventoryAssumption, FS_Subset DEF LedgerInv, InventoryTypeOK
  <2>2. Total(applied, OutDelta(p)) \in Nat /\ Total(applied, InDelta(p)) \in Nat
    BY <2>1, TotalType
  <2>3. onHand[p] \in Nat /\ onHand'[p] = onHand[p] - rsv[g].lines[p]
    BY DEF Issue, LedgerInv, InventoryTypeOK
  <2>4. onHand[p] + Total(With("ISSUED"), LineOf(p)) + Total(applied, OutDelta(p))
          = Total(applied, InDelta(p))
    BY DEF LedgerInv, StockConserved, OutDelta, InDelta
  <2>5. Total(With("ISSUED"), LineOf(p))' = Total(With("ISSUED"), LineOf(p)) + rsv[g].lines[p]
    BY <1>3, <1>4, <1>6
  <2> QED
    BY <1>6, <2>2, <2>3, <2>4, <2>5
<1>10. OneActiveGroup'
  BY <1>3 DEF OneActiveGroup, LedgerInv
<1> QED
  BY <1>7, <1>8, <1>9, <1>10 DEF LedgerInv

(* A receipt or an adjustment: its delta joins on hand and the movement    *)
(* totals, once, because a known key is not applied again.                 *)
LEMMA MovementStep ==
    ASSUME LedgerInv, InventoryTypeOK', NEW m \in Movements, ApplyMovement(m)
    PROVE  LedgerInv'
<1>1. /\ With("ACTIVE")' = With("ACTIVE") /\ With("ISSUED")' = With("ISSUED")
      /\ \A p \in Products : LineOf(p)' = LineOf(p)
  BY DEF ApplyMovement, With, LineOf
<1>2. ReservedIsActiveLines' /\ OneActiveGroup' /\ ReservedOnHand'
  BY <1>1 DEF LedgerInv, ReservedIsActiveLines, OneActiveGroup, ReservedOnHand, ApplyMovement
<1>3. StockConserved'
  <2> SUFFICES ASSUME NEW p \in Products
               PROVE  onHand'[p] + Total(With("ISSUED"), LineOf(p))'
                        + Total(applied \cup {m}, OutDelta(p))
                          = Total(applied \cup {m}, InDelta(p))
    BY DEF StockConserved, ApplyMovement, OutDelta, InDelta
  <2>1. IsFiniteSet(applied) /\ IsFiniteSet({m}) /\ applied \cap {m} = {}
    BY InventoryAssumption, FS_Subset, FS_Singleton
       DEF LedgerInv, InventoryTypeOK, ApplyMovement
  <2>2. /\ Total(applied, OutDelta(p)) \in Nat /\ Total(applied, InDelta(p)) \in Nat
        /\ Total(applied \cup {m}, OutDelta(p)) = Total(applied, OutDelta(p)) + Total({m}, OutDelta(p))
        /\ Total(applied \cup {m}, InDelta(p)) = Total(applied, InDelta(p)) + Total({m}, InDelta(p))
    BY <2>1, TotalType, TotalUnion
  <2>3. Delta[m][p] \in Int /\ Delta[m][p] <= MaxQty /\ -Delta[m][p] <= MaxQty
    BY InventoryAssumption, MaxQtyAssumption
  <2>4. InDelta(p)[m] = Delta[m][p] /\ OutDelta(p)[m] = -Delta[m][p]
    BY DEF InDelta, OutDelta
  <2>5. /\ Total({m}, InDelta(p)) = IF Delta[m][p] > 0 THEN Delta[m][p] ELSE 0
        /\ Total({m}, OutDelta(p)) = IF -Delta[m][p] > 0 THEN -Delta[m][p] ELSE 0
    BY <2>3, <2>4, TotalSingle
  <2>6. onHand[p] \in Nat /\ onHand'[p] = onHand[p] + Delta[m][p]
    BY DEF ApplyMovement, LedgerInv, InventoryTypeOK
  <2>7. onHand[p] + Total(With("ISSUED"), LineOf(p)) + Total(applied, OutDelta(p))
          = Total(applied, InDelta(p))
    BY DEF LedgerInv, StockConserved, OutDelta, InDelta
  <2>8. Total(With("ISSUED"), LineOf(p)) \in Nat
    BY GroupsFinite, TotalType DEF With
  <2> QED
    BY <1>1, <2>2, <2>3, <2>5, <2>6, <2>7, <2>8
<1> QED
  BY <1>2, <1>3 DEF LedgerInv

(* An acknowledgement touches no quantity and no status.                   *)
LEMMA AckStep ==
    ASSUME LedgerInv, InventoryTypeOK', NEW g \in Groups,
           rsv' = [rsv EXCEPT ![g].ack = TRUE], UNCHANGED <<onHand, reserved, applied>>
    PROVE  LedgerInv'
<1>1. \A h \in Groups : rsv'[h].status = rsv[h].status /\ rsv'[h].lines = rsv[h].lines
  BY DEF LedgerInv, InventoryTypeOK, GroupRow
<1>2. /\ With("ACTIVE")' = With("ACTIVE") /\ With("ISSUED")' = With("ISSUED")
      /\ \A p \in Products : LineOf(p)' = LineOf(p)
  BY <1>1 DEF With, LineOf
<1> QED
  BY <1>2 DEF LedgerInv, ReservedIsActiveLines, OneActiveGroup, ReservedOnHand, StockConserved

-----------------------------------------------------------------------------
(* The ledger of the inventory-service is exact in every reachable state:  *)
(* reserved quantities equal the ACTIVE lines, never exceed on hand, and   *)
(* no unit of stock appears or disappears.                                 *)
THEOREM LedgerCorrect == InventorySpec => []LedgerInv
<1>1. InventoryInit => LedgerInv
  <2> SUFFICES ASSUME InventoryInit PROVE LedgerInv
    OBVIOUS
  <2>1. InventoryTypeOK
    BY InventoryAssumption, MaxQtyAssumption
       DEF InventoryInit, InventoryTypeOK, NoGroupRow, GroupRow, GroupStatus, NoLines
  <2>2. With("ACTIVE") = {} /\ With("ISSUED") = {} /\ applied = {}
    BY DEF InventoryInit, With, NoGroupRow
  <2> QED
    BY <2>1, <2>2, TotalEmpty
       DEF LedgerInv, InventoryInit, ReservedIsActiveLines, ReservedOnHand,
           StockConserved, OneActiveGroup
<1>2. LedgerInv /\ [InventoryNext]_inventoryVars => LedgerInv'
  <2> SUFFICES ASSUME LedgerInv, [InventoryNext]_inventoryVars PROVE LedgerInv'
    OBVIOUS
  <2>1. InventoryTypeOK'
    BY TypeStep DEF LedgerInv
  <2>2. CASE UNCHANGED inventoryVars
    BY <2>2 DEF LedgerInv, inventoryVars, InventoryTypeOK, ReservedIsActiveLines,
       ReservedOnHand, StockConserved, OneActiveGroup, With, LineOf
  <2> QED
    BY <2>1, <2>2, InventoryCases, CreateStep, ReleaseStep, IssueStep, MovementStep, AckStep
<1> QED
  BY <1>1, <1>2, PTL DEF InventorySpec

(* The reserved quantity of every balance is the sum of its ACTIVE lines.  *)
THEOREM ReservedCorrect == InventorySpec => []ReservedIsActiveLines
BY LedgerCorrect, PTL DEF LedgerInv

(* Stock on hand covers every promise made to an order.                    *)
THEOREM NeverOversold == InventorySpec => []ReservedOnHand
BY LedgerCorrect, PTL DEF LedgerInv

(* Stock is conserved by receipts, adjustments, reservations and issues.   *)
THEOREM ConservationCorrect == InventorySpec => []StockConserved
BY LedgerCorrect, PTL DEF LedgerInv

(* An order never holds two reservations at a time.                        *)
THEOREM SingleReservation == InventorySpec => []OneActiveGroup
BY LedgerCorrect, PTL DEF LedgerInv

-----------------------------------------------------------------------------
(* What a step may do to a group that has ended: set its acknowledgement,  *)
(* nothing else.  reserve needs a new key, release and issue an ACTIVE     *)
(* group.                                                                  *)
LEMMA EndedStep ==
    InventoryTypeOK /\ [InventoryNext]_inventoryVars
        => [\A g \in Groups : rsv[g].status \in {"RELEASED", "ISSUED"}
               => /\ rsv'[g].status = rsv[g].status
                  /\ rsv'[g].lines = rsv[g].lines
                  /\ rsv'[g].issue = rsv[g].issue]_inventoryVars
<1> SUFFICES ASSUME InventoryTypeOK, [InventoryNext]_inventoryVars,
                    NEW g \in Groups, rsv[g].status \in {"RELEASED", "ISSUED"}
             PROVE  /\ rsv'[g].status = rsv[g].status
                    /\ rsv'[g].lines = rsv[g].lines
                    /\ rsv'[g].issue = rsv[g].issue
  OBVIOUS
<1>1. CASE \E o \in Orders, v \in Versions, lines \in Demands : CreateGroup(o, v, lines)
  BY <1>1 DEF CreateGroup, InventoryTypeOK, GroupRow
<1>2. CASE \E G \in SUBSET With("ACTIVE") : ReleaseGroups(G)
  BY <1>2 DEF ReleaseGroups, With
<1>3. CASE \E h \in Groups : /\ rsv' = [rsv EXCEPT ![h].ack = TRUE]
                              /\ UNCHANGED <<onHand, reserved, applied>>
  BY <1>3 DEF InventoryTypeOK, GroupRow
<1>4. CASE \E o \in Orders, v \in Versions, r \in Requests : Issue(o, v, r)
  BY <1>4 DEF Issue, InventoryTypeOK, GroupRow
<1>5. CASE \E m \in Movements : ApplyMovement(m)
  BY <1>5 DEF ApplyMovement
<1>6. CASE UNCHANGED inventoryVars
  BY <1>6 DEF inventoryVars
<1> QED
  BY <1>1, <1>2, <1>3, <1>4, <1>5, <1>6, InventoryCases

(* A released or issued group never comes back: a late or repeated reserve *)
(* cannot revive it.                                                       *)
THEOREM EndedForGood == InventorySpec => EndedGroupsStay
BY InventoryTypeCorrect, EndedStep, PTL DEF InventorySpec, EndedGroupsStay
=============================================================================
