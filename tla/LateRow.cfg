SPECIFICATION Spec
CONSTANTS
  RequestIDs = {q1}
  NoRequestID = noId
  Usages = {u1}
  NoUsage = none
  MatchTimeout = 1
  Retention = 2
  FlushDelay = 1
  MaxRows = 1
  MaxPayloads = 2
  PollBatch = 1
  MaxTime = 1
INVARIANT
  LateRowIsMerged
CHECK_DEADLOCK FALSE
