SPECIFICATION Spec
CONSTANTS
  p1 = p1
  p2 = p2
  t1 = t1
  t2 = t2
  Projects = {p1}
  Tenants = {t1}
  TenantOf <- OneTenantP1
  Tests <- TwoInP1
  ProjectOf <- TwoInP1Project
  RunIds = {r1, r2, r3}
  Explorations = {}
  AgentRuns = {}
  Lists = {}
  MaxRuns = 2
  MaxBytes = 4
  Workers = {w1, w2}
  Captures <- FullCapture
  Verdicts = {"passed"}
  MaxFaults = 1
  MaxCrashes = 0
  None = None
SYMMETRY Symmetry
CHECK_DEADLOCK FALSE
INVARIANTS
  ClaimedFilesExist
  NothingStranded
  ClaimsWithinLimits
