SPECIFICATION Spec
CONSTANTS
  liveA = liveA
  endA = endA
  updA = updA
  updB = updB
  oddB = oddB
  a = a
  b = b
  Pings <- OneFeedPings
  Urls = {a}
  UrlOf <- OneFeedUrl
  ReasonOf <- OneFeedReason
  Form <- OneFeedForm
  AuthVals <- OneAuthVal
  Tokens <- TwoTokens
  HybridLength = 2
  LikeLimit = 4
  SendDelay = 0
  RetryAge = 1
  BatchSize = 2
  ResetLimit = 1
  ResetBelow = 2
  Hwm = 1
  MaxFaults = 0
PROPERTY ErrorKeepsUrl
