SPECIFICATION Spec
CONSTANTS
    Users = {u1, u2}
    NoUser = NoUser
    Executors = {e1}
    Collectors = {f1}
    Chains = {cosmos}
    OrderIds = {o1, o2, o3}
    ETH = eth
    Tokens = {eth}
    Secrets = {s1}
    Hashes = {h1, h2}
    NoHash = NoHash
    HashOf <- OneHash
    Amounts = {1000, 2000}
    Values = {2000}
    Prices = {100}
    Configs <- AccountConfigs
    Timeouts = {1000}
    FeeRates = {0}
    Limits = {0, 1, 2}
    Transfers = {}
    MaxStray = 0
    Ticks <- LateTicks
    GenesisTime = 86400
    MaxTime = 86550
SYMMETRY UserSymmetry
INVARIANTS
    TypeOK
    SlotsMatchOrders
    OrdersAreIndexed
    StatusMatchesAmounts
