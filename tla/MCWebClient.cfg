SPECIFICATION FairSpec
CONSTANTS
  GpTabs = {g1}
  ScTabs = {s1}
  Signed = {g1, s1}
  Forms = {f1, f2}
  MaxSubmits = 2
  NoForm = NoForm
  DetailRuns = TRUE
  f1 = f1
  f2 = f2
  MaxRev = 4
CONSTRAINT Explored
CHECK_DEADLOCK FALSE
INVARIANTS
  SuccessMeansAccepted
  ReadsItsWrites
PROPERTIES
  OwnWriteShown
