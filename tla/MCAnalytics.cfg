SPECIFICATION Spec
CONSTANTS
  Line = {line}
  Weight <- MCWeight
  Plan <- MCPlan
  Volume = {1, 2}
  AvgPacePeriods = 3
  DecayFactor <- Half
  SpikeThreshold <- ThreeHalf
  WeightThreshold = 1
  ForecastGap = 1
  Dashboards = {first, second}
  ObjectPages = {object}
  ViewColumn = "obj_readiness_pct"
  MaxPeriod = 3
  MaxVersion = 2
CONSTRAINT Explored
SYMMETRY AnyDashboard
INVARIANTS
  TypeOK
  PaceTelescopes
  PaceWithinWindow
  RefreshShown
  CurrentInHistory
PROPERTIES
  ViewNeverGoesBack
