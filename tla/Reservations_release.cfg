SPECIFICATION FaultySpec
CONSTANTS
    Offers = {f1}
    Orders = {o1}
    Calls = {c1, c2}
    NoOffer = NoOffer
    NoOrder = NoOrder
    NoCall = NoCall
    UnitsPerOffer = 1
    Total <- MCTotal
    MaxFailedAttempts = 3
INVARIANT CleanUpMeansClosed
CHECK_DEADLOCK FALSE
