SPECIFICATION Spec
CONSTANTS
    Orders = {o1}
    terms <- PlainTerms
    Interval = 1
    MaxFailures = 0
    QueueCap = 1
    Callers = {}
    NoCaller = NoCaller
    Prices = {}
    NoPrice = 0
    Moments = {0}
    Overlap = TRUE
    Cancellers = {}
CHECK_DEADLOCK FALSE
INVARIANTS
    IntervalsRespected
