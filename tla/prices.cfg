SPECIFICATION Spec
CONSTANTS
    TokenPairs <- OnePair
    Sources <- TwoSources
    Quotes <- TwoQuotes
    WebSources = {"coingecko"}
    TicksPerSecond = 2
    RequestDelay = 1
    SweepTimeout = 3
    MaxAge = 3
    RecentWindow = 2
    Windows = {2, 3}
    MaxClock = 5
    PRECISION = 4
INVARIANTS
    TypeOK
    WindowsAreComplete
    CurrentPriceIsLatest
    CacheIsBounded
    AnswersAreWithinPrices
    RefusalsAreRight
    LibraryAveragesAreWithinPrices
    RoundingStaysBounded
