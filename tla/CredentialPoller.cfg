SPECIFICATION CredentialSpec
CONSTANTS
  Callers = {c1}
  Credentials = {k1, k2}
  MaxFailedUpserts = 2
INVARIANTS
  CacheIsStored
PROPERTIES
  ErrorIsKept
CHECK_DEADLOCK FALSE
