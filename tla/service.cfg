SPECIFICATION FairServiceSpec
CONSTANTS
    o1 = o1
    h1 = h1
    h2 = h2
    u1 = u1
    a1 = a1
    a2 = a2
    ethereum = ethereum
    cosmos = cosmos
    Orders = {o1}
    terms <- Terms1
    Interval = 1
    MaxFailures = 1
    QueueCap = 1
    Callers = {h1, h2}
    Cancellers = {h1, h2}
    NoCaller = NoCaller
    Prices = {}
    NoPrice = 0
    Moments = {50}
    Overlap = FALSE
    Client <- OneClient
    Owner <- OneOwner
    Pair = pair
    RateLimit = 2
    TicksPerSecond = 2
    MaxTicks = 4
    SupportedChains = {ethereum, cosmos}
    Creatable = {ethereum}
    SourceChain = ethereum
    TargetChain = cosmos
    Timeouts = {2, 3}
    MaxHours = 5
    Addresses = {a1, a2}
    HTLCOrder <- ByAddress
    Loads <- AllLoads
CHECK_DEADLOCK FALSE
INVARIANTS
    ServiceTypeOK
    RequestsAreLimited
    ConfirmedChangesAreCleared
    CountersMatch
PROPERTIES
    FinishedStaysFinished
    AtomicSwapSpec
    ShutdownEnds
