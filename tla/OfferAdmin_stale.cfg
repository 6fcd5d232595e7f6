SPECIFICATION Spec
CONSTANTS
    Calls = {c1}
    Units = 1
    MaxImages = 0
INVARIANT StockConserved
CHECK_DEADLOCK FALSE
