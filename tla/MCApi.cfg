SPECIFICATION MCSpec
CONSTANTS
  Settings <- MCSettings
  Deployments <- MCDeployments
  Clients <- MCClients
  Calls = {c1, c2}
  Inputs <- MCInputs
  Assets = {"Btc", "Eth"}
  Unset = Unset
  Markets <- MCMarkets
  Requests <- MCRequests
  Configs <- MCConfigs
  MaxFailures = 1
  Rejected = Rejected
  None = None
  Window = 2
  Block = 2
  MaxHits = 2
  Slots = {s1, s2}
  MaxTime = 5
  MaxCalls = 5
INVARIANTS  RateLimitsHold  OffersFollowTheMarket
PROPERTY EveryCallComesBack
CHECK_DEADLOCK FALSE
