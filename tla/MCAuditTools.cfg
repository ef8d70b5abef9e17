SPECIFICATION ToolsSpec
CONSTANTS
  a = a
  q = q
  g = g
  Rules = {a, q, g}
  Gated = {g}
  Seeded = {a}
  Procs = {p1}
  Reports <- MCReports
  Trends <- MCTrends
  Responses = {6000, 5999, None}
  None = None
  HandDeltas <- MCHandDeltas
  PromoteMinSessions = 2
  DeprecateNoHitSessions = 2
  MaxSessions = 2
  MaxCrashes = 2
  Totals = {0, 499, 500, 700}
  Estimates = {5999, 6001}
  MinTokens = 500
  Window = 2
  MaxLogged = 3
  MaxRuns = 2
  MaxKills = 1
CONSTRAINT Explored
INVARIANTS
  PartitionAtRest
  GatedStaysOut
  LoggedOnce
  OneRowPerSession
  RollingBehind
