SPECIFICATION FairSpec
CONSTANTS
  Workers = {w1}
  Items = {i1}
  Vols = {0, 1}
  MaxPeriods = 1
  MaxVersion = 3
  Null = Null
  NoOne = NoOne
PROPERTY
  ExpiredPeriodCloses
