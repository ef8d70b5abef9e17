SPECIFICATION ReviewedSpec
CONSTANTS
  Workers = {w1}
  Items = {i1, i2}
  i1 = i1
  i2 = i2
  ContractValue <- EqualValues
  Critical = {i1}
  Thresholds = {50}
  Orgs = {}
  MaxVersions = 2
  MaxReports = 1
  MaxUpdates = 1
CHECK_DEADLOCK FALSE
PROPERTIES
  UpdatesCarriedOut
