SPECIFICATION FaultySpec
CONSTANTS
    Offers = {f1}
    Orders = {o1}
    Calls = {c1, c2, c3}
    NoOffer = NoOffer
    NoOrder = NoOrder
    NoCall = NoCall
    UnitsPerOffer = 2
    Total <- MCTotal
    MaxFailedAttempts = 3
SYMMETRY Symmetry
CONSTRAINT BoundedStock
INVARIANTS
    OneAttemptPerOrder
PROPERTIES
    ClosedIsFinal
CHECK_DEADLOCK FALSE
