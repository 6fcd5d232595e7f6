SPECIFICATION Spec
CONSTANTS
    Calls = {c1, c2}
    Units = 1
    MaxImages = 3
SYMMETRY Symmetry
CONSTRAINT UntilStale
INVARIANTS
    TypeOK
    StockKeptUnlessStale
    ImageKeptUnlessStale
CHECK_DEADLOCK FALSE
