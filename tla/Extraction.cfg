SPECIFICATION Spec
CHECK_DEADLOCK FALSE
CONSTANTS
  MaxTokenCount = 6
  MaxCount = 2
  MaxEvents = 2
INVARIANTS
  StreamEqualsWhole
  UsageIsConsistent
  DimensionsAddUp
