SPECIFICATION MCSpec
CONSTANTS
  Makers = {a, b, beta}
  Beta = {beta}
  Requests = {r1, r2}
  MaxInvalid = 1
  x = x
  y = y
  x1 = x1
  x2 = x2
  y1 = y1
  Accounts = {x, y}
  Clients = {x1, x2, y1}
  AccountOf <- MCAccountOf
  QuotedAssets <- MCQuotedAssets
  Records <- MCRecords
  Swaps <- MCSwaps
  Stablecoins = {"Usdc", "Usdt"}
  Assets <- MCAssets
  Books <- MCBooks
  Holdings <- MCHoldings
  Tolerance = 10
  None = None
CHECK_DEADLOCK FALSE
INVARIANTS TypeOK  ShortByTheInvalidAnswers OrdersAreSound
PROPERTY EveryRequestEnds
