CONSTANTS
    Trips = {t1}
    Shipments = {1, 2}
    Users = {u1}
    Operations = {1, 2}
    Batches = {b1}
    Workers = {w1}
    Couriers = {c1}
    ShipVersions = {3}
    MaxTripVersion = 6
    LeaseExpires = FALSE
    BadPlaces = {2}
    Unreadable = {}
    DirectRequests = {}
    OrdersCancel = FALSE
    NoUser = NoUser
    NoTrip = NoTrip
    NoOp = NoOp
    NoRow = NoRow
    NoBatch = NoBatch
    NoCall = NoCall
    NoRequest = NoRequest
SPECIFICATION FairBothSpec
PROPERTIES
    OperationsFinish
    DispatchFinishes
    ResultsArrive
CHECK_DEADLOCK FALSE
