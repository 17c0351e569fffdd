SPECIFICATION Spec
CONSTANTS
  p1 = p1
  t1 = t1
  Projects = {p1}
  Tenants = {t1}
  TenantOf <- OneTenantP1
  Tests <- OneInP1
  ProjectOf <- OneInP1Project
  RunIds = {r1, r2}
  Explorations = {e1}
  AgentRuns = {}
  Lists = {}
  MaxRuns = 2
  MaxBytes = 2
  Sidecars = {s1, s2}
  Clients = {c1}
  Captures <- PairCapture
  SlowProbe = TRUE
  None = None
SYMMETRY Symmetry
CHECK_DEADLOCK FALSE
INVARIANTS
  InFlightFilesKept
  OnlyOverlapLosesRuns
  OnlyOverlapLosesEvidence
  OnlyOverlapHidesSidecar
