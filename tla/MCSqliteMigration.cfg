SPECIFICATION Spec
CONSTANTS
  Items = 2
  Rows = {1, 2}
  Legacy <- TwoColumns
  Batch = 1
  MaxKey = 2
  MaxStarts = 2
  Clients = {c1}
CHECK_DEADLOCK FALSE
INVARIANTS
  ScrubDebtRecorded
  ServedIsSealed
PROPERTIES
  UnreadableKept
