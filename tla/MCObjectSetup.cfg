SPECIFICATION Spec
CONSTANTS
  Workers = {w1, w2}
  Items = {i1, i2}
  i1 = i1
  i2 = i2
  ContractValue <- EqualValues
  Critical = {i1}
  Thresholds = {50, 51}
  Orgs = {org1}
  MaxVersions = 2
  MaxReports = 2
  MaxUpdates = 1
SYMMETRY Symmetry
CONSTRAINT Explored
CHECK_DEADLOCK FALSE
INVARIANTS
  ApprovedIsComplete
  CorrectionsLogged
  RoleNeverVacant
PROPERTIES
  ApprovedIsVerified
  ApprovalStands
