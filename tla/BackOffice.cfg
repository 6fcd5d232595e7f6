SPECIFICATION Spec
CONSTANTS
    Business = {b1, b2}
    Staff = {s1, s2}
    Accounts = {a1}
    Shops = {h1}
    Offer = {1, 2}
    ActiveOffersLimit = 1
    Entry = {e1, e2}
    Calls = {c1, c2}
    None = None
    Values = {v1, v2}
    Buckets = {"users", "b2"}
    Folders = {"users", "offers"}
    MaxImages = 4
    MaxRows = 5
    MaxChanges = 2
    Limit = 2
SYMMETRY Symmetry
CONSTRAINT Undisturbed
INVARIANTS
    TypeOK
    PrimaryBelongs
    AnswersKept
    NumbersConsecutive
    ListedOnce
    ImageKept
    DeletesItsUpload
    ListsAgree
    PagesCover
    RemovedUnlisted
CHECK_DEADLOCK FALSE
