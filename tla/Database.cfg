SPECIFICATION Spec
CONSTANTS
  Procs = {p1, p2}
  Salts = {s1, s2}
  None = None
  LegacyDBs <- MCLegacyDBs
  MaxCrashes = 2
INVARIANTS
  OpenedMeansComplete
  HistoryIsTimed
  
PROPERTY
  ServesInTheEnd
