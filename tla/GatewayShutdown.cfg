SPECIFICATION GatewaySpec
CONSTANTS
  Events = {e1, e2, e3}
  QueueCapacity = 2
  BatchSize = 2
INVARIANTS
  ExactlyOnePlace
  DepthAccounting
  StopDrains
  ExitOwesNothing
PROPERTIES
  LedgerSpec
  SentIsSettled
  ShutdownCompletes
CHECK_DEADLOCK FALSE
