SPECIFICATION Spec
CONSTANTS
  p1 = p1
  p2 = p2
  t1 = t1
  t2 = t2
  Projects = {p1, p2}
  Tenants = {t1}
  TenantOf <- OneTenant
  Tests <- OneEach
  ProjectOf <- OneEachProject
  RunIds = {r1, r2}
  Explorations = {e1}
  AgentRuns = {a1}
  Lists = {}
  MaxRuns = 2
  MaxBytes = 4
  Workers = {w1, w2}
  Captures <- NoCapture
  Verdicts = {"passed", "open"}
  MaxFaults = 1
  MaxCrashes = 1
  None = None
SYMMETRY Symmetry
CHECK_DEADLOCK FALSE
INVARIANTS
  TypeOK
  RecordsHaveProjects
  StatusWitnessed
  AckedRunsSurvive
PROPERTIES
  LedgerKept
