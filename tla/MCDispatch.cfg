CONSTANTS
    MaxQty = 2
    Orders = {1}
    MaxVersion = 1
    Products = {"P"}
    Requests = {r1, r2}
    Batches = {b1}
    NoRequest = NoRequest
    Movements = {"receipt"}
    Demands <- MCDemands
    Delta <- MCDelta
    Trips = {"T"}
    Claims = {c1}
    Actors = {a1}
    Results = {"done"}
    ResultOf <- MCResultOf
    OrderVersions = {1, 2, 3, 4, 5, 6, 7, 8}
    Quotes <- MCQuotes
    ManualOnTrip = FALSE
    NoBatch = NoBatch
    NoTrip = NoTrip
    NoClaim = NoClaim
SPECIFICATION DispatchSpec
INVARIANTS
    LeavesUnderGrant
    GrantHeld
    NoPoisonedEvent
PROPERTIES
    GrantCompletes
    CancellationReaches
CHECK_DEADLOCK FALSE
