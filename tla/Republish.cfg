SPECIFICATION RepublishSpec
CONSTANTS
  liveA = liveA
  endA = endA
  updA = updA
  updB = updB
  oddB = oddB
  a = a
  b = b
  Pings <- LiveStreamPings
  Urls = {a, b}
  UrlOf <- LiveStreamUrl
  ReasonOf <- LiveStreamReason
  Form <- LiveStreamForm
  AuthVals <- OneAuthVal
  Tokens <- TwoTokens
  HybridLength = 2
  LikeLimit = 4
  SendDelay = 0
  RetryAge = 1
  BatchSize = 2
  ResetLimit = 1
  ResetBelow = 2
  Hwm = 1
  MaxFaults = 1
  Repeated = {liveA}
PROPERTY DrainsUnlessSetBack
