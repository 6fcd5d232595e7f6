SPECIFICATION Spec
CONSTANTS
    Orders = {o1, o2}
    Calls = {c1, c2}
    NoOrder = NoOrder
    MaxRequests = 3
SYMMETRY Symmetry
CONSTRAINT OneOrderRetried
INVARIANTS
    TypeOK
    PaidIsCharged
    PointsMatchRewards
    ChargedTwiceOnlyIfGivenUp
CHECK_DEADLOCK FALSE
