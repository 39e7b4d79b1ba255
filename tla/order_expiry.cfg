SPECIFICATION FairSpec
CONSTANTS
    Orders = {o1}
    terms <- LowTerms
    Interval = 1
    MaxFailures = 0
    QueueCap = 1
    Callers = {}
    NoCaller = NoCaller
    Prices = {}
    NoPrice = 0
    Moments = {0}
    Overlap = FALSE
    Cancellers = {}
CHECK_DEADLOCK FALSE
PROPERTIES
    TimedOutIsHandled
