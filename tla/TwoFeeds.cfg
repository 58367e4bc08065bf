SPECIFICATION OSpec
CONSTANTS
  liveA = liveA
  endA = endA
  updA = updA
  updB = updB
  oddB = oddB
  a = a
  b = b
  Pings <- TwoFeedsPings
  Urls = {a, b}
  UrlOf <- TwoFeedsUrl
  ReasonOf <- TwoFeedsReason
  Form <- TwoFeedsForm
  AuthVals <- OneAuthVal
  Tokens <- TwoTokens
  HybridLength = 2
  LikeLimit = 4
  SendDelay = 0
  RetryAge = 1
  BatchSize = 2
  ResetLimit = 1
  ResetBelow = 2
  Hwm = 1
  MaxFaults = 1
INVARIANT IInv
INVARIANT WithdrawnOnlyIfSettled
INVARIANT RowsWellFormed
INVARIANT InflightUrlWasSent
INVARIANT FifoInv
PROPERTY UrgentFirst
