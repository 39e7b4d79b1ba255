SPECIFICATION FairSpec
CONSTANTS
    Orders = {o1}
    terms <- FillTerms
    Interval = 1
    MaxFailures = 1
    QueueCap = 1
    Callers = {c1}
    NoCaller = NoCaller
    Prices = {}
    NoPrice = 0
    Moments = {0}
    Overlap = TRUE
    Cancellers = {}
INVARIANTS
    TypeOK
    ExecutionsAreBounded
    CompletedIsEarned
PROPERTIES
    EveryCallIsAnswered
    
CHECK_DEADLOCK FALSE
