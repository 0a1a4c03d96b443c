CONSTANTS
    Orders = {o1, o2}
    Demands = {small}
    Requests = {r1, r2}
    Batches = {b1}
    MaxVersion = 2
    NoRequest = NoRequest
SPECIFICATION OrderSpec
SYMMETRY OrderSymmetry
INVARIANTS
    OrderTypeOK
    GrantExcludesCancellation
    DeliveryUnderGrant
    RequestGrantedOnce
    BatchStands
PROPERTIES
    GrantIrrevocable
    StatusFollowsStateMachine
CHECK_DEADLOCK FALSE
