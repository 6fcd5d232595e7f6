SPECIFICATION Spec
CONSTANTS
    Calls = {c1, c2, c3}
    Orders = {o1, o2}
    Txs = {t1, t2}
    Notes = {n1}
    NoNote = NoNote
    Devices = {d1, d2, d3}
    Blank = Blank
    Attempts = 3
    BatchSize = 2
    Day = 8
    MonthDays = 2
    MaxLag = 4
    MaxErrors = 3
    MaxTokens = 4
    MaxPhrases = 3
    LastDay = 3
INVARIANTS
    TypeOK
    ReviewedOnce
    RemindersAddUp
    FavouritesFollow
    AccountsOnce
    StatisticsRight
    PushesReported
    MapperAgrees
    DaysPartition
PROPERTY HoldJobEnds
CHECK_DEADLOCK FALSE
