SPECIFICATION Spec
CONSTANTS
  Procs = {p1, p2}
  Ids = {i1, i2}
  Kinds <- MCKinds
  Inputs <- MCInputs
  Null = Null
  MaxKey = 2
  MaxWrites = 2
  p1 = p1
  p2 = p2
  i1 = i1
  i2 = i2
SYMMETRY Symmetry
INVARIANTS ReadsOnlyItsOwn StaysReadable LookupsAgree AgainUntilCurrent
PROPERTY SealedStaysSealed
