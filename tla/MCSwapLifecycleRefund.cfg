SPECIFICATION MCSpec
CONSTANTS
  Requests = {r1}
  Kinds = {"external"}
  MaxChunks = 2
  MaxRetries = 0
  BroadcastNos = {1}
  Reasons = {"Module"}
  Twice = FALSE
  MaxOutput = 1
  Unsent = Unsent
  None = None
INVARIANT RefundFailureShows
CHECK_DEADLOCK FALSE
