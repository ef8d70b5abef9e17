SPECIFICATION Spec
CONSTANTS
  Workers = {w1, w2}
  Items = {i1}
  Vols = {0, 1}
  MaxPeriods = 2
  MaxVersion = 3
  Null = Null
  NoOne = NoOne
SYMMETRY WorkerSymmetry
CONSTRAINT Explored
INVARIANTS
  NumbersContiguous
  UniqueNeverHit
  PastOpenMeansSubmitted
  CommittedIsAudited
  OnlyLateDisputesOverlooked
PROPERTIES
  ScChangeBumpsVersion
  SnapshotWrittenOnce
