CONSTANTS
    Orders = {1, 2}
    Requests = {r1, r2}
    Batches = {b1}
    Trips = {"T"}
    Claims = {c1, c2}
    Actors = {a1}
    Results = {done, failed, again}
    failed = failed
    ResultOf <- MCResultOf
    OrderVersions = {2, 3}
    Quotes = {2}
    ManualOnTrip = FALSE
    NoRequest = NoRequest
    NoBatch = NoBatch
    NoTrip = NoTrip
    NoClaim = NoClaim
SPECIFICATION FulfillmentSpec
SYMMETRY FulfillmentSymmetry
INVARIANTS
    FulfillmentTypeOK
    LeftByIntent
    PendingBatchBound
    ClaimsAgree
    AppliedResultShows
PROPERTIES
    TerminalStays
CHECK_DEADLOCK FALSE
