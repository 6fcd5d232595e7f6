SPECIFICATION Spec
CONSTANTS
    Orders = {o1}
    Calls = {c1}
    NoOrder = NoOrder
    MaxRequests = 2
INVARIANT ChargedOnce
CHECK_DEADLOCK FALSE
