SPECIFICATION FairSpec
CONSTANTS
  liveA = liveA
  endA = endA
  updA = updA
  updB = updB
  oddB = oddB
  a = a
  b = b
  Pings <- TwoUpdatesPings
  Urls = {a, b}
  UrlOf <- TwoUpdatesUrl
  ReasonOf <- TwoUpdatesReason
  Form <- TwoUpdatesForm
  AuthVals <- OneAuthVal
  Tokens <- TwoTokens
  HybridLength = 2
  LikeLimit = 4
  SendDelay = 0
  RetryAge = 1
  BatchSize = 1
  ResetLimit = 1
  ResetBelow = 1
  Hwm = 1
  MaxFaults = 0
INVARIANT PassBound
PROPERTY LeftOutOnlyByFullBatch
PROPERTY NoOvertaking
PROPERTY FeedADrains
