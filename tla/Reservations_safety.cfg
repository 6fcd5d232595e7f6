SPECIFICATION Spec
CONSTANTS
    Offers = {f1}
    Orders = {o1, o2}
    Calls = {c1, c2}
    NoOffer = NoOffer
    NoOrder = NoOrder
    NoCall = NoCall
    UnitsPerOffer = 2
    Total <- MCTotal
    MaxFailedAttempts = 1
SYMMETRY Symmetry
CONSTRAINT WithinStock
INVARIANTS
    TypeOK
    ReservedMatchesHolds
    StockConserved
    OneAttemptPerOrder
    LimitReleasesHold
    ConfirmedIffPaid
    ButtonsKeepTheirWord
PROPERTIES
    ClosedIsFinal
    JobKeptWhileHeld
CHECK_DEADLOCK FALSE
