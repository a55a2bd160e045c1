SPECIFICATION Spec
CONSTANTS
  RequestIDs = {q1}
  NoRequestID = noId
  Usages = {u1, u2}
  NoUsage = none
  MatchTimeout = 2
  Retention = 1
  FlushDelay = 1
  MaxRows = 2
  MaxPayloads = 2
  PollBatch = 2
  MaxTime = 3
SYMMETRY Symmetric
INVARIANTS
  MatchIsMutual
  OneMatchPerRequest
PROPERTIES
  UsageIsKept
  MatchIsFinal
CHECK_DEADLOCK FALSE
