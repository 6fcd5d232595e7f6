SPECIFICATION LiveSpec
CONSTANTS
    Offers = {f1}
    Orders = {o1, o2}
    Calls = {c1}
    NoOffer = NoOffer
    NoOrder = NoOrder
    NoCall = NoCall
    UnitsPerOffer = 2
    Total <- MCTotal
    MaxFailedAttempts = 1
PROPERTIES
    ImplementsLedger
    HoldEnds
CHECK_DEADLOCK FALSE
