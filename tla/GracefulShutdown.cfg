SPECIFICATION GatewaySpec
CONSTANTS
  Events = {e1, e2}
  QueueCapacity = 1
  BatchSize = 1
INVARIANT
  GracefulShutdown
CHECK_DEADLOCK FALSE
