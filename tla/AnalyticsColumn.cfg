SPECIFICATION Spec
CONSTANTS
  Line = {line}
  Weight <- MCWeight
  Plan <- MCPlan
  Volume = {1, 2}
  AvgPacePeriods = 3
  DecayFactor <- Half
  SpikeThreshold <- ThreeHalf
  WeightThreshold = 1
  ForecastGap = 1
  Dashboards = {dashboard}
  ObjectPages = {object}
  ViewColumn = "object_readiness_pct"
  MaxPeriod = 3
  MaxVersion = 2
INVARIANT DashboardAnswered
