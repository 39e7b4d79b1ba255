SPECIFICATION Spec
CONSTANTS
    Orders = {o1}
    terms <- ShortTerms
    Interval = 1
    MaxFailures = 1
    QueueCap = 1
    Callers = {}
    NoCaller = NoCaller
    Prices = {}
    NoPrice = 0
    Moments = {0}
    Overlap = TRUE
    Cancellers = {d1}
CHECK_DEADLOCK FALSE
INVARIANTS
    BooksAreCovered
PROPERTIES
    FinishedIsLeftAlone
