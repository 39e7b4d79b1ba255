SPECIFICATION FairSpec
CONSTANTS
    Orders = {o1, o2}
    terms <- PlainTerms
    Interval = 1
    MaxFailures = 0
    QueueCap = 2
    Callers = {}
    NoCaller = NoCaller
    Prices = {100, 102}
    NoPrice = 0
    Moments = {0, 98}
    Overlap = FALSE
    Cancellers = {}
CHECK_DEADLOCK FALSE
INVARIANTS
    BooksAgree
    IntervalsRespected
    NotOverspent
PROPERTIES
    SwapsArePaced
    FullyExecutedIsCompleted
