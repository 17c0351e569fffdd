SPECIFICATION Spec
CONSTANTS
  Keys = {k1, k2, k3}
  None = None
  Procs = {c1, c2}
  Setups <- CoreAndOthers
  Full = 2
  MaxOps = 2
SYMMETRY Symmetry
CHECK_DEADLOCK FALSE
INVARIANTS
  ServingKeyIsKept
PROPERTIES
  KeptStaysKept
  OpenedStaysOpened
