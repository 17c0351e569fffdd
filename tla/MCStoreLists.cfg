SPECIFICATION Spec
CONSTANTS
  p1 = p1
  p2 = p2
  t1 = t1
  t2 = t2
  Projects = {p1, p2}
  Tenants = {t1, t2}
  TenantOf <- TwoTenants
  Tests <- OneEach
  ProjectOf <- OneEachProject
  RunIds = {r1, r2}
  Explorations = {}
  AgentRuns = {}
  Lists = {l1, l2}
  MaxRuns = 2
  MaxBytes = 4
  Workers = {w1, w2}
  Captures <- NoCapture
  Verdicts = {"passed"}
  MaxFaults = 0
  MaxCrashes = 0
  None = None
SYMMETRY Symmetry
CHECK_DEADLOCK FALSE
INVARIANTS
  TenantsIsolated
