SPECIFICATION Spec
CONSTANTS
    Users = {u1}
    NoUser = NoUser
    Executors = {e1}
    Collectors = {f1}
    Chains = {cosmos}
    OrderIds = {o1, o2}
    ETH = eth
    Tokens = {eth, erc20}
    Secrets = {s1}
    Hashes = {h1}
    NoHash = NoHash
    HashOf <- OneHash
    Amounts = {495, 990, 1000}
    Values = {0, 1000}
    Prices = {100}
    Configs <- PartialConfigs
    Timeouts = {1000}
    FeeRates = {0, 100, 101}
    Limits = {}
    Transfers = {1000}
    MaxStray = 1000
    Ticks <- TimeoutTick
    GenesisTime = 86400
    MaxTime = 86550
SYMMETRY UserSymmetry
INVARIANTS
    Escrowed
    VolumeIsPaidIn
PROPERTIES
    EscrowSpec
    OrdersEndOnce
