CONSTANTS
    Orders = {1}
    Requests = {r1, r2}
    Batches = {b1}
    Trips = {"T"}
    Claims = {c1}
    Actors = {a1}
    Results = {done, failed, again}
    failed = failed
    ResultOf <- MCResultOf
    OrderVersions = {2, 3}
    Quotes = {2}
    ManualOnTrip = TRUE
    NoRequest = NoRequest
    NoBatch = NoBatch
    NoTrip = NoTrip
    NoClaim = NoClaim
SPECIFICATION FulfillmentSpec
PROPERTIES
    TerminalStays
CHECK_DEADLOCK FALSE
