SPECIFICATION Spec
CONSTANTS
    Orders = {o1}
    terms <- PlainTerms
    Interval = 1
    MaxFailures = 0
    QueueCap = 1
    Callers = {}
    NoCaller = NoCaller
    Prices = {100}
    NoPrice = 0
    Moments = {0}
    Overlap = FALSE
    Cancellers = {}
CHECK_DEADLOCK FALSE
INVARIANTS
    AveragePriceIsWeighted
