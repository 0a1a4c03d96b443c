CONSTANTS
    MaxQty = 2
    Orders = {o1}
    MaxVersion = 2
    Products = {"P"}
    Requests = {}
    Batches = {}
    NoRequest = NoRequest
    Movements = {"receipt"}
    Demands <- MCDemands
    Delta <- MCDelta
SPECIFICATION ReservationSpec
INVARIANTS
    ConfirmedHoldsStock
    NextKeyUsable
PROPERTIES
    CancellationCompletes
    OrphanResolved
CHECK_DEADLOCK FALSE
