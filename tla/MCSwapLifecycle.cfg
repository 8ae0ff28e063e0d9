SPECIFICATION MCSpec
CONSTANTS
  Requests = {r1, r2}
  Kinds = {"external", "onChain", "liquidation"}
  MaxChunks = 2
  MaxRetries = 1
  BroadcastNos = {1, 2}
  Reasons = {"Module", "Other"}
  Twice = TRUE
  MaxOutput = 1
  Unsent = Unsent
  None = None
INVARIANTS TypeOK  AnswerWasTrue StuckOnlyByIgnored RowsTellTheSwap
PROPERTY StateGoesBackOnlyBy
SYMMETRY Symmetry
CHECK_DEADLOCK FALSE
