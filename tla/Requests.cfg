SPECIFICATION GateSpec
CONSTANTS
  AuthVals <- SomeAuthVals
  Tokens <- SomeTokens
  HybridLength = 2
  LikeLimit = 4
INVARIANT StoredIffAdmitted
INVARIANT ListedIsStored
INVARIANT PanicHasCause
CHECK_DEADLOCK FALSE
