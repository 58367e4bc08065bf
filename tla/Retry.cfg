SPECIFICATION RSpec
CONSTANTS
  liveA = liveA
  endA = endA
  updA = updA
  updB = updB
  oddB = oddB
  a = a
  b = b
  Pings <- MixedFeedPings
  Urls = {a}
  UrlOf <- MixedFeedUrl
  ReasonOf <- MixedFeedReason
  Form <- MixedFeedForm
  AuthVals <- OneAuthVal
  Tokens <- TwoTokens
  HybridLength = 2
  LikeLimit = 4
  SendDelay = 1
  RetryAge = 2
  BatchSize = 2
  ResetLimit = 1
  ResetBelow = 2
  Hwm = 1
  MaxFaults = 2
INVARIANT AnsweredIsKept
INVARIANT RetryInv
PROPERTY NoHotResend
