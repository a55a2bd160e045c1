SPECIFICATION Spec
CONSTANTS
  Dates = {"DATE"}
  Files <- MCFiles
  Samples <- MCSamples
  SideUsages <- MCSideUsages
  MaxRows = 2
INVARIANTS
  PartsMakeTheWhole
  EachRequestIsBilledOnce
  GapsAreNotMasked
  CompleteMeansCharged
  ReportIsOneMoment
PROPERTY
  PricesSurviveRestart
