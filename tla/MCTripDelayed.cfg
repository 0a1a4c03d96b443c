CONSTANTS
    Trips = {t1}
    Shipments = {1, 2}
    Users = {u1}
    Operations = {1}
    Batches = {b1}
    Workers = {w1, w2}
    Couriers = {c1}
    ShipVersions = {3}
    MaxTripVersion = 5
    LeaseExpires = TRUE
    BadPlaces = {2}
    Unreadable = {}
    DirectRequests = {q1}
    OrdersCancel = FALSE
    NoUser = NoUser
    NoTrip = NoTrip
    NoOp = NoOp
    NoRow = NoRow
    NoBatch = NoBatch
    NoCall = NoCall
    NoRequest = NoRequest
SPECIFICATION BothSpec
SYMMETRY BothSymmetry
INVARIANTS
    ManifestBacked
CHECK_DEADLOCK FALSE
