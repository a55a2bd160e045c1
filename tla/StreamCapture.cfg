SPECIFICATION Spec
CHECK_DEADLOCK FALSE
CONSTANTS
  MaxLine = 4
  MaxLines = 4
  MaxEvents = 3
INVARIANTS
  EventsAreWhole
  EventsWereForwarded
  UsageIsNotLost
  TokensMeanCaptured
