SPECIFICATION Spec
CHECK_DEADLOCK FALSE
CONSTANTS
  InitialBytes = 1
  MaxBytes = 6
  DefaultMaxBytes = 4
  ReadSize = 3
  MaxSample = 6
  MaxBody = 7
  MaxResponse = 7
  MaxTotal = 8
INVARIANTS
  BodyIsForwarded
  RowIsTrue
  ModelIsFound
  
