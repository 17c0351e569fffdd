\* A hydrating thread over three partitions, of which the budget holds a part.
SPECIFICATION Spec
CONSTANTS
  k1 = k1
  k2 = k2
  k3 = k3
  a = a
  b = b
  h1 = h1
  Keys = {k1, k2, k3}
  Ids = {a, b}
  Dims = {1, 2}
  Limit = 2
  Hydrations = {h1}
  MaxOps = 3
SYMMETRY Symmetric
INVARIANTS
  WithinBudget
  RecallIsKnown
PROPERTY EvictionIsReported
