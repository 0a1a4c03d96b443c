CONSTANTS
    Trips = {t1}
    Shipments = {1, 2}
    Users = {u1, u2}
    Operations = {1, 2}
    Batches = {b1, b2}
    Workers = {w1}
    Couriers = {c1}
    ShipVersions = {3}
    MaxTripVersion = 6
    LeaseExpires = FALSE
    BadPlaces = {}
    Unreadable = {}
    DirectRequests = {}
    OrdersCancel = TRUE
    NoUser = NoUser
    NoTrip = NoTrip
    NoOp = NoOp
    NoRow = NoRow
    NoBatch = NoBatch
    NoCall = NoCall
    NoRequest = NoRequest
SPECIFICATION BothSpec
SYMMETRY BothSymmetry
INVARIANTS
    TripTypeOK
    SubmittedHolds
    LeavesWithTrip
    ClaimsAccounted
PROPERTIES
    ImplementsCustody
CHECK_DEADLOCK FALSE
