SPECIFICATION Spec
CONSTANTS
    Users = {u1}
    NoUser = NoUser
    Executors = {e1}
    Collectors = {f1}
    Chains = {cosmos}
    OrderIds = {o1}
    ETH = eth
    Tokens = {eth}
    Secrets = {s1}
    Hashes = {h1}
    NoHash = NoHash
    HashOf <- OneHash
    Amounts = {200, 300, 500, 1000}
    Values = {1000}
    Prices = {0, 100, 110, 120}
    Configs <- ExecutionConfigs
    Timeouts = {101, 103}
    FeeRates = {0}
    Limits = {}
    Transfers = {}
    MaxStray = 0
    Ticks <- ExecutionTicks
    GenesisTime = 86400
    MaxTime = 87002
INVARIANTS
    AveragePriceIsWeighted
