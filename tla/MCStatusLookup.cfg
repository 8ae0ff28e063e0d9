SPECIFICATION MCSpec
CONSTANTS
  d1 = d1
  d2 = d2
  Channels <- MCChannels
  PollIds <- MCPollIds
  Requests = {q1, q2}
  Messages = {m1}
  MaxOpen = 1
  MaxHeight = 3
  MaxBlock = 6
  Deposits = {d1, d2}
  NodeChains = {"Bitcoin"}
  None = None
SYMMETRY MCSymmetry
INVARIANTS LimitExceededOnlyByRace ChannelRows 
PROPERTY PollsGoForward
CHECK_DEADLOCK FALSE
