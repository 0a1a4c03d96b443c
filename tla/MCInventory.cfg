CONSTANTS
    MaxQty = 2
    Orders = {o1, o2}
    MaxVersion = 2
    Products = {"A", "B"}
    Requests = {r1}
    NoRequest = NoRequest
    Movements = {"receipt1", "receipt2", "adjust"}
    Demands <- MCDemands
    Delta <- MCDelta
SPECIFICATION InventorySpec
INVARIANTS
    InventoryTypeOK
    ReservedIsActiveLines
    ReservedOnHand
    StockConserved
    OneActiveGroup
PROPERTIES
    EndedGroupsStay
CHECK_DEADLOCK FALSE
