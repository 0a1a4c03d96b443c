CONSTANTS
    MaxQty = 2
    Orders = {1}
    MaxVersion = 8
    ManualVersion = 3
    ManualRetry = TRUE
    MaxFailures = 0
    Products = {"P"}
    Requests = {}
    Batches = {}
    NoRequest = NoRequest
    Movements = {"P"}
    Demands <- MCDemands
    Delta <- MCDelta
SPECIFICATION RetrySpec
PROPERTIES
    NoLostWakeUp
CHECK_DEADLOCK FALSE
