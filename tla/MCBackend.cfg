CONSTANTS
    m1 = m1
    m2 = m2
    c1 = c1
    c2 = c2
    MaxFetches = 5
    HasTtl = TRUE
    MaxCalls = 5
    CacheTtl = 4
    WarmPeriod = 2
    MaxWarmTime = 5
    WarmFetches = 4
    PriceCallers = {c1, c2, c3}
    PriceTTL = 2
    MaxPriceTime = 4
    MaxRequests = 4
    NoFetch = NoFetch
    Makers = {m1, m2}
    Callers = {c1, c2}
    Attempts = 2
    MaxRefreshes = 3
    ReadTTL = 1
    MaxReadTime = 5
    MaxReads = 4
    Unstable = {Btc, Eth}
    Usdc = Usdc
    Runtimes = {10800, 11100, 20300}
    ErrorCodes = {1}
    Fees = {1, 2}
    None = None
SPECIFICATION MCSpec
CHECK_DEADLOCK FALSE
INVARIANTS
    BackendTypeOK NoRejectedEntry MemoAnswers  BalancesExact HandlersFollowTheChain
PROPERTIES
    RefreshesKeepNewer NewestResolvedWins OneRequestPerTTL EveryCallEnds
