SPECIFICATION Spec
CONSTANTS
  Callers = {c1, c2}
  Providers = {p1, p2}
  Concurrency = 1
  MaxFailures = 1
INVARIANTS
  EveryProviderIsTried
  InFlightIsServed
  OneAtATime
PROPERTIES
  UnreachableIsShown
  RefreshEnds
  StopReturns
CHECK_DEADLOCK FALSE
