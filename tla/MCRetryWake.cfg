CONSTANTS
    MaxQty = 2
    Orders = {1, 2}
    MaxVersion = 6
    ManualVersion = 1
    ManualRetry = FALSE
    MaxFailures = 1
    Products = {"P"}
    Requests = {}
    Batches = {}
    NoRequest = NoRequest
    Movements = {"P"}
    Demands <- MCDemands
    Delta <- MCDelta
SPECIFICATION RetrySpec
PROPERTIES
    NoLostWakeUp
    DecidedOnce
CHECK_DEADLOCK FALSE
