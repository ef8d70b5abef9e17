SPECIFICATION FairSpec
CONSTANTS
  Workers = {w1}
  Items = {i1}
  Vols = {0, 1, 2}
  MaxPeriods = 1
  MaxVersion = 4
  Null = Null
  NoOne = NoOne
INVARIANTS
  SnapshotMatchesFacts
PROPERTIES
  ImplementsLifecycle
  SubmittedPeriodCloses
